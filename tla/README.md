# A verification project for vpp-plugin-rs

vpp-plugin-rs lets plugins of the packet processor VPP be written in Rust. Most
of it is a thin, typed layer over VPP's C interfaces; a smaller part has
algorithms and protocols of its own: the timer wheel, the executor that runs an
`async` coroutine in a VPP process node, the channel from other threads into
such a node, the barrier lock, the counters, the dispatch loops of feature
nodes, the vector type, and the generator of the binary API with the messages it
serves. This directory holds TLA+ specifications of that part, TLC
configurations that check them on small instances, and theorems that TLAPS
proves for all instances.

Paths below are relative to `vpp-plugin/src/` unless they say otherwise; `gen/`
stands for `vpp-plugin-api-gen/src/`.

## 1. Inventory

| Component | State it keeps | Operations | What is hard | What makes it correct |
|---|---|---|---|---|
| Timer wheel, `vppinfra/tw_timer.rs` | slab of timers, a list per slot and level, a position per level, the clock | start, start absolute, stop, expire, next expiration | the slots depend on positions that move while timers are re-linked; lists are edited while they are walked | each timer is in one slot; it fires at its time; `next_expiration` is the next |
| Process node timers, `vlib/process_node/tw_timer.rs` | slab of timer states, each with a handle into the wheel; `previous_ticks` | start, stop, expire, next expiration | two slabs that reuse keys and name each other | a sleep stops only its own timer |
| Process node executor, `vlib/process_node/core.rs` and the loop in `vpp-plugin/vlib_wrapper.c` | the coroutine, the waker, the start time | poll, sleep, timeout, wait for event or timer | rounding of real time, time that passes during a poll, events that cut a wait short | sleeps end after their duration and not much later |
| Channel, `vlib/process_node/mpsc.rs` | std queue, one `AtomicWaker` | send, clone, drop, recv, try_recv | pushes and wakes of workers between the steps of a poll | no message waits while the node sleeps |
| Barrier lock, `vlib/main/sync.rs`, `vlib/main/mod.rs` | readers, writer, counted on the main thread only | read, write, drop of guards | workers are excluded by VPP's barrier, not by the lock | no writer with any reader |
| Counters, `vlib/counter.rs` | a counter per thread and index | allocate, increment, zero, get | sums that race with increments; vectors that move | no increment is lost; a sum is bounded by totals before and after |
| Feature nodes, `vlib/node_generic.rs`, `vnet/feature.rs` | position of each buffer along its feature arc | dispatch by one and by four, enable, disable | the fast path of four | both give every buffer the same next node |
| Buffers, `vlib/buffer.rs`, `vnet/buffer.rs` | data offset and length, ownership | get_buffers, advance, put, alloc, drop, enqueue | index arithmetic, freed exactly once | every packet stays in its buffer, every buffer has one place |
| Registrations, `vlib/node.rs`, `vlib/cli.rs`, `vnet/feature.rs` | C linked lists | register, unregister | constructors and destructors of several plugins | the lists hold what is registered |
| Vectors, `vppinfra/vec.rs` | length, spare capacity in a `u8` | reserve, push, insert, remove, extend, collect, clone | the `u8`, length and capacity updated apart | capacity is never less than allocated |
| Errors, `vppinfra/error.rs`, `unformat.rs`, `vnet/error.rs` | an error stack | push, convert | - | order of the stack |
| API runtime, `vlibapi/` | messages, registrations of clients | allocate, send, receive, byte order | who frees a message | freed or sent exactly once |
| API generator, `gen/` | types, messages, services | parse, import, resolve, generate | recursive imports, pairing of messages | accepts what VPP's generator accepts; each request has one handler and one answer |
| Macros, `vpp-plugin-macros/src/` | none | expand | - | - |

How they interact. A process node's coroutine calls `sleep`, which starts a
timer; the executor expires timers before each poll and asks the timers how long
to wait after it; the timers are a slab over the wheel. A sender on any thread
pushes into the channel and calls the waker, which has VPP signal an event to
the process node. The barrier lock and the counters are shared between the main
thread and the workers that run the feature nodes. A feature node reads the
position of each buffer of its frame, moves it on and enqueues the buffers. What
the parser accepts becomes the code that registers the handlers and, on the main
thread with the barrier held, answers requests with messages of the API runtime.

`PROJECT.json` lists the components with their status, and under `hazards` what
is hard to test in this code, at its line.

## 2. Plan

Done, in the order of importance:

1. `TimerService`, `TimerWheel`, `TimerWheelLinks`; `TimerWheelProofs`, `TimerWheelLinksProofs`
2. `MpscChannel`, `MpscChannelProofs`
3. `ProcessTimers`, `ProcessNode`, `ProcessTimersProofs`
4. `GrowableArray`, `VppVec`, `VppVecProofs`
5. `Barrier`, `BarrierLock` and `Counters`, composed in `Threads`; `ThreadsProofs`
6. `Buffers` and, over it, `FeatureNodes`; `FeatureNodesProofs`
7. `ApiParser` and, over it, `ApiServer`; `ApiServerProofs`, of the server and of
   the parser

Left:

8. Registrations of nodes, features and commands; fixed strings of the API;
   chained buffers.

## 3. The modules

### TimerService

What a user of one-shot timers is promised, with no data structure: running
timers with deadlines, a clock, and `Slack`, the number of ticks a timer may be
overdue before the clock is held up. A timer never fires early, fires once, and
cannot fire after it was stopped. `Slack = 0` describes a perfect timer.

### TimerWheel

`vppinfra/tw_timer.rs` with a set of timers for each slot's list. `Insert` is
the insertion into the slab followed by `start_timer_unchecked`; `StartTimer`,
`StartTimerAbsolute` and `StopTimer` are the calls. A tick is `BeginTick` and one
`ProcessLevel` for each level that `process_level` recurses into, so that the
states between the levels of a cascade are visible; calls come between ticks
only, because the wheel has one owner. `NextExpiration` is `next_expiration`.
The slab hands out any vacant key, where the real slab has a fixed order.

Left out: the context of a timer (`ProcessTimers` adds it), `StartTimerError`'s
contents, and `saturating_add` of an interval near `u64::MAX`.

### TimerWheelLinks

The same file with the lists: `next` and `previous` of head and timer entries.
`Detach` takes a list off its head, `ExpireEntry` and `RelinkEntry` are the body
of the loop, `EndLevel` advances the position. The refinement mapping says that
a level is processed at `Detach`: entries the walk has not reached count as
already expired or re-linked.

### ProcessTimers, ProcessNode

`ProcessTimers` has the slab of `vlib/process_node/tw_timer.rs` over an instance
of `TimerWheel`; the wheel's actions are used as they are. `expire_timers` is
`BeginExpire`, the wheel's ticks, and `MarkReady`. `ProcessNode` adds real time,
in fractions of a tick, and the executor: a poll (`Resume`, `Expire`,
`RunCoroutine`, then any number of `Sleep` and `DropSleep`, then `Suspend`), the
wait with the duration `Suspend` computed, and `Event`, a waker called by
anybody at any time. `Suspend` requires that no sleep is ready: the coroutine
awaits all its sleeps together, as with a join or a select, and drops those that
are done. Dropping a pending sleep stands for cancellation, as when the value of
a `timeout` is ready first.

The difference of two `u64` in `next_expiration` is taken modulo `U64`, as in a
build without overflow checks (Cargo's default release profile, which the
workspace keeps); a build with checks panics at that point instead.

Left out: the end of the coroutine (a coroutine that starts no sleep behaves the
same), the thread-local context that `sleep` finds its timers through, and the
registration of process nodes.

### MpscChannel

`vlib/process_node/mpsc.rs`. A send is `Push` and `Wake`, a poll of `recv` on an
empty queue is `RecvEmpty` and `Register`. The std queue, `AtomicWaker` and the
RPC that signals the event are not in this repository; they are modelled from
their use: each operation on the queue or the waker is atomic, and an RPC sent
arrives. `MainSenders` are used on VPP's main thread, which also runs the
process node, so their sends do not overlap with a poll. `RecvValue` is also
`try_recv`; one that finds no value changes nothing. `TimedOut` is a `recv` inside
a `timeout` whose delay has elapsed: `Timeout::poll` tries the value first, which
leaves the waker registered, and the coroutine goes on. `windowHit` is a history
variable: a wake found no waker since the last poll saw the queue empty.

### GrowableArray, VppVec

`GrowableArray` is a sequence: elements are inserted, removed, appended and
taken from a source (a slice or an iterator), and nothing else happens to them,
until an operation makes the array longer than `Limit` elements, when anything
may have happened to the new ones. `VppVec` is
`vppinfra/vec.rs`: the length, `grow_elts` in its eight bits (`GrowMax` is
`u8::MAX`), the size of the allocation, and the null pointer of an empty vector.
One action per method; extending from an iterator is one `ExtendNext` per
element, as it reserves with `size_hint` when it has run out of room, which the
iterator may answer differently each time; `collect` likewise. `to_vpp_vec`,
`clone` and `vec!` are `BeginCopy` and `ToVppVec`; `IntoIter` takes elements from both
ends. VPP's allocator is modelled from its use: an allocation may be larger than
asked for by up to `Slack`.

What the model shows about the code, beyond the properties: `with_capacity` and
`reserve` for more than 255 further elements account for 255 of them only
(the documentation says "at least"); `to_vpp_vec` of a longer slice writes the first
255 elements and then sets the length to that of the slice, so that the others
are never written, although `vec.rs:1060` says they are; `extend_with` of more than
255 sets the length past the capacity; `clear` cuts a capacity of more than 255
to 255, although `vec.rs:262` says it has no effect on the capacity; `pop` and
`remove` on a vector whose `grow_elts` is 255 wrap it to 0. `past` records that the
length was set past the capacity.

### Barrier, BarrierLock, Counters, Threads

`Barrier` is VPP as `vlib/main/` uses it: workers in node functions, the main
thread, the barrier that is wanted, held and released, and one call per thread.
`BarrierLock` is `vlib/main/sync.rs`: `Read`, `Write`, `WriteData`, `DropRead` and
`DropWrite`; a panic leaves an `extern "C"` function and ends the process
(`aborted`). A guard's lifetime is that of the lock, so code can keep one beyond
the node function or the barrier it was taken under; `kept` records it. The
write guard is `Sync` for a `T` that is (`sync.rs:272`). It is meant not to be
`Send` (`sync.rs:219`, `265`), but `PhantomData<Cell<()>>` does not prevent that, as a
`Cell<()>` may be sent; the model keeps the guard on the main thread.
`Counters` is `vlib/counter.rs`: an addition is a load and a store for each of
packets and bytes, `get` a load for each cell, and allocation of an index may
move every thread's vector. Memory is taken to be coherent per location (relaxed
atomics), and a thread's own stores in order. `Threads` composes them.

### Buffers, FeatureNodes

`Buffers`: where each buffer is (VPP's pool, a `BufferWithContext`, code that took
it apart with `into_parts`), the window of its packet, and the two computations of
a pointer from an index, eight lanes at a time in `u64` for a frame and one at a
time in `u32` (`vlib/buffer.rs:610`) for a `BufferWithContext`. `FeatureNodes`:
the configuration strings of the interfaces in an arc, `vnet_feature_next`, the
loops of `generic_feature_node_x1` and `generic_feature_node_x4` on a frame, and
`buffer_enqueue_to_next`. VPP dispatches pending frames before it polls again, so
packets do not arrive, and commands do not run, between frames that wait
(`Receive`, `Enable`, `Disable` and `HandleStep` need empty frames).

What the model shows about the code: when four buffers of a stride are in the
same arc, `x4` gives all of them the next node of the first, also when they are
of interfaces with other features enabled, and leaves the config index of the
other three behind (`carried`), so that the next feature reads the data of the one
before; a handle of a buffer 2^32 bytes or more behind the first leads to another
buffer, as the shift happens in 32 bits (`AddressU32`); the node function of `x1` is not given the
feature data, unless it calls `vnet_feature_next` itself, and with
`NextFeature` the index is then moved twice; `set_rx_sw_if_index` writes the slot of
`VLIB_TX` (`vnet/buffer.rs:128`); `has_space` of a negative number is false
because it becomes a large `u16`.

Left out: prefetching, tracing, error codes, buffer flags and chained buffers.

### ApiParser, ApiServer

`ApiParser` is `ApiParser::new` of `gen/parser.rs` on the output of the grammar:
`EnterImport`, `PassBy`, `EndImports` and `EndImport` are the recursion of `do_imports`,
with the activations on a stack (`frames`), each at a statement of its file; `Define`, `DefineType`, `AddServices` and
`SkipStatement` are the branches of `process_statements`; `Process` is `process`, and
`Completed` its loop over the messages, as a function of how many it has seen. A
chain of imports (`Chains`) is a sequence of import statements, each in the file
the one before it names; `Definitions` are the statements that define a type,
each with the chain it is reached along. These are properties of the files, not
of the reading, and what the table of types is compared with.
`MaxDepth` is the depth at which the program's stack ends (`overflow`).

`ApiServer` has the plugin that is built from what was accepted. `Generates` says
when the generator and the compiler get through; `Handlers` are the
configurations that `<module>_register_messages` leaves behind. A request is
dispatched (`Dispatch`), the plugin's code may then create, write, drop and
stream messages, and its method returns a reply, an error or nothing
(`ReturnReply`, `ReturnError`, `ReturnNothing`), on which the rest of
`<caller>_handler_raw` runs. `Message<T>` is an owner of a block of VPP's message
memory (`vlibapi/mod.rs`). VPP is modelled from its use: it queues requests,
swaps those declared autoendian, keeps registrations and frees what it has sent.

What the model shows about the code, beyond the properties:

- A file imported along two chains is read twice and its types are rejected as
  redefined; files that import each other never end.
- Two messages of one name are not noticed by the parser, but by the compiler.
  Two written services of one caller are both kept, and the later is checked.
- A reply that is neither named `_reply` nor `_details` needs a service or a reply of
  its own. A caller that is also the reply of a made-up service has its handler
  configuration replaced by one without a handler.
- A type definition of an alias hides the array a type ends with; its target is
  not looked up; an alias of a `string` generates code that does not compile.
- A stream message that is not defined makes the generator panic
  (`gen/lib.rs:1499`). The handler of a service that `returns null` lacks a closing
  brace (opened at `gen/lib.rs:1210`, closed at `1293` for other services only).
- A request whose message is not declared autoendian is never answered:
  `from_client_index` swaps the index that nobody has swapped.

Left out: the grammar, CRCs, the values of enums, the sizes of messages, and the
text generated for types, JSON and formatting. Of these, read but not modelled:
the size of a message with a nested array is computed with the size of the outer
type (`gen/lib.rs:431`); the number after the last variant of an enum is computed
and may overflow (`gen/parser.rs:136`); a string that leaves exactly one byte of an
`ApiFixedString` does not get its terminator written (`vlibapi/mod.rs:547`).

## 4. The runs

| Run | Question | Result |
|---|---|---|
| `wheel` | Where are timers, and when do they fire? | holds; late by less than one revolution of the whole wheel |
| `links` | Do the lists give what the sets give? | yes |
| `mpsc` | Does the close come last, and which wake-ups can be lost? | it does; only those in the window of `poll_recv` |
| `mpsc_race` | Is every message received? | no, from workers: finding 3 |
| `mpsc_close` | Does a waiting `recv` see the close? | no: finding 4 |
| `node` | Do sleeps shorter than the wheel's first level end in time? | yes |
| `node_stuck` | Is the node ever asked to wait for longer than all its timers? | yes, with longer sleeps: findings 1 and 2 |
| `node_early` | Does a sleep last as long as was asked for? | no, up to a tick less: finding 5 |
| `vec` | Do length, spare capacity and memory agree at the edge of eight bits? | yes, unless more than `u8::MAX` elements are appended or copied at once |
| `threads` | Who reads while somebody writes, and what do sums show? | no reader with a writer, no addition lost, sums within bounds |
| `features` | Where do buffers go, and does `get_buffers` fit every frame? | each to one place; along its features unless a stride carried it; yes |
| `api` | What do accepted files mean, and how are requests answered? | one meaning; once, in order, to the client that asked |

**Properties of `wheel`.** `OneSlotPerTimer`: slab and slots agree.
`PositionsTrackTime`: the positions are the digits of the clock, between the
levels of a cascade as well. `LevelZeroExact`: a timer in level 0 is in the slot
of its tick, if it was started there or came down. `NextExpirationOfLevelZero`:
when level 0 holds a timer, `next_expiration` is the earliest *of level 0* (a
coarser level may hold an earlier one that has not come down yet).
`ImplementsTimerService`: the wheel is a `TimerService` whose `Slack` is `Lateness`,
one tick short of a revolution of the whole wheel. (Where timers may be started with
interval 0 it is the whole revolution: such a timer has missed its slot.)

**Properties of `links`.** `LinksSound`: no index leads to a vacated entry, and
the links are inverse outside a walk. `ImplementsTimerWheel`: refinement.

**Properties of `node`.** `HandlesAgree`: the two slabs name each other.
`NeverATickEarly`: a sleep ends less than a tick before its deadline. That it ends
before its deadline at all is finding 5, which `SleepsTheirDuration` shows in
`node_early`; this property says how early it can be.
`SleepsEndInTime`: a pending sleep is overdue by less than a tick and twice
`MaxBusy`. `WaitsForEarliest`: the wait is until the earliest timer.
`ImplementsPerfectTimers`: a `TimerService` with `Slack = 0`.

**Properties of `mpsc`.** `ClosedAfterLast`: values are received in the order of
their pushes, none twice, and `recv` says that the channel is closed only when
every value has been received, also if a sender pushes and is dropped at once.
`SleepsOnlyInWindow`: the node never sleeps over a
message unless a wake fell into the window. `ReceivedOutsideWindow`: a message
pushed is received, under fairness, unless the window was hit.

**Properties of `vec`.** `CapacityIsAllocated`: a vector claims no room it does
not have, unless the length was set past the capacity. `KeepsCapacity`: growing
gives no room up, nor does shrinking of vectors that `grow_elts` can count.
`ImplementsArray`: elements go in and come out as in a `GrowableArray`.

**Properties of `threads`.** `CountsMainGuards`: the lock's counts are the main
thread's guards. `Exclusion`: no reader on any thread with a writer.
`StableWhileRead`: data do not change under a read guard; both unless a guard was
kept for too long. `NoIncrementLost`: each store arrives in its thread's counter
although vectors move. `GetWithinBounds`: a sum lies between the totals at the
start and the end of `get`, for packets and for bytes.

**Properties of `features`.** `PacketInBuffer`: advance and put stay within the
buffer. `EachBufferOnce`: every buffer is in one place, once.
`FollowsItsFeatures`: a buffer that was not carried is only in nodes its interface
has enabled, with its index at their entries. `CarriedGoTheRightWay`: a frame by
four goes where it would have gone one by one, if the interfaces sharing an arc
have the same features. `LanesFitFrames`: for every length of a frame that VPP may
hand out, the stores of 64, 32, 16 and 8 lanes reach all of its buffers and
nothing beyond the array.

**Properties of `api`.** `OneDefinitionEach`: every type of an accepted API comes
from one statement, reached along one chain of imports, and no chain is as long as
the stack is deep. `EveryRequestHasOneService`: completing the services
leaves every request with exactly one, if the file gives messages and callers names of their
own. `AcyclicEnds`: reading ends unless the imports run in a circle.
`MessagesOwned`: every block in use has one owner. `OneAnswerEach`: a request
declared autoendian that reaches its handler while its client is connected is
answered once, with its context in network order, after its stream; every other request is
not answered at all, and nobody else gets anything for any.

### Findings

1. A cascaded timer whose remaining time is between one and two slots of the
   level being processed is linked into that very slot, because the position
   moves on only afterwards, and fires a revolution of the level late. The
   trace of `node_stuck` shows this and what follows from it, finding 2.
2. A late timer makes `ticks - previous_ticks` negative. Unchecked, the node
   waits for 2^64 ticks: a `sleep` of more than about two seconds may not end.
3. `poll_recv` does not look at the queue again after it has registered the
   waker: a send from a worker in between is not noticed.
4. Dropping the last sender does not wake the receiver.
5. The deadline of a sleep and the clock are rounded down to milliseconds: a sleep of
   1 ms can end after a fraction of it, where `core.rs:380` and `394` say that the
   duration has elapsed.

### Bounds, and why they are enough

- `wheel`: 3 levels of 3 slots, times up to 56, two revolutions of the wheel (27
  ticks each). Intervals lie inside, at and beyond the range of each level (3, 9,
  27). Two timers suffice for all relations between timers that the properties
  mention.
- `links`: 2 levels of 2 slots, so that every tick or two cascades, and three
  timers: first, inner and last entry of a list.
- `mpsc`: two senders on workers and one on the main thread, four sends; the
  queue, the RPCs and a stale waker can all be there at once.
- `node`: a 2-level wheel of 3 slots, three sleeps, half ticks, 20 clock values
  (the level wraps at 6). `MaxDelta = 2` keeps deadlines within the first level,
  as 2048 ticks do in the code. `MaxBusy = 2` lets a poll last a whole tick.
  `U64 = 1000` is far beyond every time of the run. `node_stuck` allows
  `MaxDelta = 8`. `node_early` needs one sleep of one tick, begun in the middle of one.
- `vec`: `GrowMax = 2` and up to four elements, so that lengths, reservations and
  slices lie below, at and beyond what `grow_elts` counts; an allocation may have up
  to three elements more than asked for, again beyond it. Two elements show their
  order.
- `threads`: two workers, as a worker can then be in a node while another waits
  for the barrier; one guard per thread; two indices, so that allocating one moves
  the other; two additions and one `get` at a time, each interleaved store by
  store and load by load.
- `features`: frames of one to five buffers, that is no stride, a stride, and a
  stride with a rest; three configurations of two arcs; two features, one with a
  word of data that is dispatched by four, one without that is dispatched by one. `U32 = 16` with buffers at 0, 4, 8, 12
  and 16: one lies beyond it. `ToCode`, `MaxHeld`, `MaxDefined` and `Setups` bound
  which buffers code has, how many at a time, how many of a frame a `DefinedNode`
  gets, and which features are enabled together. An index past the end of the
  configuration stands for all those, and the strays of a frame go to one node.
  `FrameSize = 256` is VPP's: `LanesFitFrames` is about each length up to it.
- `api`: 1,700 APIs as initial states. `ImportGraphs`: three files, each importing
  any of the others, itself, or a file that is missing, singly or twice;
  `MaxDepth = 4` exceeds the longest chain without a circle. `Shapes`: every form
  of field, last or not, in structures, unions and messages. `Pairings`: all sets
  of six message names that belong together, with nine sets of services. Ten
  `Served` APIs, with replies, indices, events, dumps and streams, for two clients
  and three blocks, two requests, three messages to each client.
- `MaxTime`, `MaxTicks`, `MaxClock`, `MaxSends`, `MaxLen`, `MaxCount`, `MaxGets`,
  `MaxGuards`, `MaxFrame`, `MaxRequests` and `MaxSent` bound counters for TLC and
  stand in guards only.

Deadlock is not checked in `mpsc`, `threads` and `api`: all senders may be gone, a
panic ends the process, and a generator ends.

### Fairness

The channel's runs: `WF(Wake(s))`, a thread inside `send` finishes it;
`WF(ReceiverStep)`, a coroutine that runs reaches its next await, as a poll is not
preempted on the main thread; `WF(DeliverRpc)` and `WF(Resume)`, VPP's main loop
runs its RPCs and resumes process nodes with a pending event. Nobody has to
send, drop, clone or let a timer run out. `api`: weak fairness of the parser's
step, a single thread that runs. `node` needs none: "in time" is a bound on the
clock, which is held up while the node is due to run for longer than `MaxBusy`.

## 5. The theorems

Every safety invariant, action property and refinement that a run checks is also a
theorem, except those listed at the end of this part. Unless a theorem says
otherwise it holds for all values of the constants that the modules'
assumptions allow; TLC evaluates these assumptions in every run.

**`TimerWheelProofs`**, for every number of levels and slots, set of keys and
intervals, and any bound on time:

- `TypeCorrect`: no index leaves its level or slot. Rests on `LevelForChoice`, the
  level that `start_timer_unchecked` chooses exists and is one.
- `OneSlotAlways`: `OneSlotPerTimer` is inductive together with `TypeOK`. The step
  that matters is `ProcessLevel`, where a timer found in the current slot either
  leaves the slab or is placed in exactly one slot, possibly the same.
- `PositionsAlwaysTrackTime`: the position of a level gives the level's clock; the
  invariant is `PositionsTrackTime` itself, and the proof is the carry from each
  level to the next, for the levels a cascade has reached and those it has not.
- `LevelZeroAlwaysExact`, for at least two levels: a timer placed in level 0 by
  `delta \div 1 - 1` slots, or brought down by a cascade after the position has
  moved on, is as far from the position as its time is from the clock. With one
  level the last slot also holds timers beyond its range, and the theorem is false.
- `NextExpirationIsEarliest`, for at least two levels and no interval 0: the scan of
  `next_expiration` meets the slots of level 0 in the order of their times. A timer
  of interval 0 is the exception of `LevelZeroExact`, and would be met last.
- `WheelIsATimerService`: `ImplementsTimerService`, with `Slack` the `Lateness` of part
  4. `Turn(l, s)` is the time at which slot `s` of level `l` is processed next.
  The invariant `TurnsInTime` says that the turn of a timer's slot comes at most
  `Lateness` ticks after the timer's time. Starting establishes it by
  the choice of the level; a cascade keeps it, also for a timer that is linked
  again into the slot being processed (finding 1), as the turn moves on by one
  revolution of that level and such a timer is not due before its slot.

The assumptions are `WheelAssumption`, the types of the constants, and
`SpanAssumption`, the two defining equations of the powers of `NumSlots`, about
which the provers know nothing.

**`TimerWheelLinksProofs`**, for the same wheels:

- `LinksTypeCorrect`, `LinksAlwaysSound`: `TypeOK` and `LinksSound`.
- `LinksAreATimerWheel`: `ImplementsTimerWheel`, a step simulation.

All three rest on `LinksInv`: for each slot there is a set of timers linked in it and,
during a walk, a set of those still ahead of it, such that following `next` runs through
exactly the set and ends. That a list does not close to a circle is said by a
height, which falls along `next`. `Chain`, the list read from a link, is defined as
the least set that is closed under `next`; with the heights it is equal to the set in
the invariant, which makes each operation on the links an operation on the sets. `Detach` maps to `ProcessLevel` of `TimerWheel`, the other steps of a walk to
stutters. `LinksAssumption` adds that `Empty`, heads and keys are told apart.

**`MpscChannelProofs`**, for any senders and any number of messages:

- `ChannelTypeCorrect`.
- `CloseComesLast`: `ClosedAfterLast`. `InOrder` adds that what was received and what is
  queued are together the values pushed, in order, and that a channel is closed
  only when it is empty and has no sender.
- `WindowIsTheOnlyGap`: `SleepsOnlyInWindow`. It is not inductive alone. `IInv` adds
  that a sleeping node can always be woken (`Wakeable`), which a push needs, and
  that a message that arrived between the two steps of a poll is accounted for
  (`LateMessageAccounted`), which `Register` needs.
- `MainThreadSendersAreSafe`: if every sender is on the main thread, the node never
  sleeps over a message.

**`ProcessTimersProofs`**, for a wheel of any size, any sleeps and any clock:

- `SlabsAlwaysAgree`: `HandlesAgree`. It needs that the wheel links nothing that is not
  in its slab, which is `OneSlotPerTimer`: the lemmas of `TimerWheelProofs` are used
  through an instance of that module. It also needs that nothing is handed out
  while the coroutine runs.
- `NoSleepEndsEarly`: `NeverATickEarly`. The invariant follows a deadline from the
  sleep to the timer in the wheel, to the set that was handed out, to the state
  `ready`: the wheel's clock is not ahead of the node's, and rounding loses less than a tick.
- `NodeTypeCorrect`: among the types is that `next_expiration` finds a timer whenever
  one runs, and that the node is never kept longer than `MaxBusy`.
- `NodeAlwaysWaitsForEarliest`, `AllSleepsEndInTime`, `NodeTimersArePerfect`:
  `WaitsForEarliest`, `SleepsEndInTime` (a bound on how long a pending sleep is overdue,
  not that it never is) and `ImplementsPerfectTimers`, if the wheel has
  at least two levels and `MaxDelta < NumSlots`. In the code that is sleeps within the
  2048 slots of level 0; for longer ones the properties are false (findings 1 and 2). Then every
  timer is in level 0, where the wheel is exact. `TimelyInv` adds when a wait ends in
  relation to the deadlines of the pending sleeps (`Waits`), and by how much a
  sleep may be overdue in each phase, given how long the node was kept busy (`Overdue`).

They assume `TimersAssumption`: the wheel's assumptions, that `None` is no key, and
that a `u64` can count the slots of a level; and `NodeAssumption`, the types of the
clock's constants.

**`VppVecProofs`**, for every `GrowMax`, any allocator and any elements:

- `TypeCorrect`: length, `grow_elts` and contents keep their types.
- `CapacityAlwaysAllocated`: `CapacityIsAllocated` is inductive with the types. Each
  operation's part is an arithmetic lemma about `GrowForLen` and the wrap of eight bits.
- `CapacityIsKept`: the action property `KeepsCapacity`, from the same lemmas. A vector that
  shrinks keeps its capacity if eight bits count it before the step.
- `VectorIsAnArray`: `ImplementsArray`. Every action maps to a step of `GrowableArray`
  or a stutter, under an invariant that adds to the types and `CapacityIsAllocated` that a copy starts
  empty and that no source is left over while the vector is used. Methods that move
  memory map to insertions and removals. Only where `GrowForLen` had to forget
  room, so that the array becomes longer than `GrowMax`, is the step the one that loses.

**`ThreadsProofs`**, for any number of workers and any indices:

- `LockCounts` and `LockExcludes`: `CountsMainGuards` is inductive; exclusion needs
  in addition that a writer that was not kept holds the barrier, and that with the
  barrier held no worker is in a node and none has a guard that was not kept.
- `ReadersSeeStableData`, an action property from the same invariant.
- `AdditionsArrive`: `NoIncrementLost`. The invariant says that an addition under way has a
  pointer into the current memory and a `new` that is the cell plus its amount,
  because an index is allocated or zeroed only under the barrier, when no call is
  under way.
- `SumsAreBounded`: `GetWithinBounds`. The invariant (`Bounded`) is about the sums of the first
  threads' additions, `RunningSums`: with `n` threads loaded, the sum of `get` is at most
  what these have added by now, and at least the total at its start less what
  the others have added. An addition raises both sides of each bound, or only the
  larger; a load moves `n` on by a thread whose cell is what it added (`NoIncrementLost`).
- `ThreadsTypeCorrect`.

**`FeatureNodesProofs`**, for any features, orders, configurations and sizes:

- `FrameReferences`: `get_buffers` gives each buffer of a frame its own address, for
  every length: the stores of 64, 32, 16 and 8 lanes leave none out.
- `PacketsStayInBuffers`: `PacketInBuffer` is inductive with the types.
- `LanesAlwaysFit`: `LanesFitFrames`, for every frame size that is a multiple of 8: what
  is left after each width of store is less than that width.
- `FeaturesTypeCorrect`, `BuffersHaveOnePlace`, `PacketsFollowTheirFeatures`: `TypeOK`,
  `EachBufferOnce` and `FollowsItsFeatures` from `FeaturesInv`, which has a part for the
  packets (`PacketInv`), one for the places of buffers (`Owned`: pool, handles, loose
  indices and frames are disjoint and together everything) and one for configurations
  (`Configured`: strings are those of the enabled features, and an index is at an entry
  of its own string unless the buffer was carried). The first lemmas are about
  the configuration strings: entries of a string end at different places (`EndsApart`), so that the
  feature found at an index is the only one there. The next are about a run over a frame:
  the strides of four and the rest cut it into parts, and each buffer of it
  leaves for one node (`RunFacts`).
- `StridesGoTheRightWay`: `CarriedGoTheRightWay`: the first buffer of a stride decides for
  all, and with equal strings its decision is theirs.

`BuffersAssumption` and `FeaturesAssumption` are the types of the constants, that
there are finitely many buffers, that no feature comes twice in the order of an
arc, and that features, other nodes and the marks of a string are told apart.

**`ApiServerProofs`**, for any API, clients and allocator:

- `BlocksHaveOneOwner`: `MessagesOwned` is inductive as it stands.
- `QueueIsForTheRegistered`: nothing waits for a client that has gone, because a
  handler that runs has a client that is connected and no client leaves during a
  handler (`ServingInv`).
- `AutoendianAnsweredOnce`: `OneAnswerEach`, that is one answer for requests declared
  autoendian and none for others. `AnswersInv` adds to it what is known of a request
  on its way: it waits in the queue with a number nobody else has (`Queued`, `Logged`), or its
  handler runs and has sent nothing for it but the stream (`InHand`), or it is answered
  (`AllAnswered`); and every letter is an event or for a request of the client it went
  to (`Addressed`). Of what the generator accepts, the proof needs that a message has at most
  one handler, which is why the compiler's check of duplicate names is in `Generates` (`Stages`).
- `OneDefinitionForEachType`: `OneDefinitionEach`, from `ReadingInv`. The frames below the
  last one are each just behind an import that leads to the file of the next
  (`FramesOK`), so they spell a chain, `Path`. `Passed` says which chains are done with:
  those that leave the frames at an import a frame is beyond. `Met` says which
  statements are: those along a chain that is passed, and those of the file at the
  end of `Path` that `process_statements` is beyond. `TableOK` is then the relation of the
  table to the files: its names are those of the type statements met, no two of these
  have one name, and a chain that is passed is shorter than the stack. The property
  alone is not inductive, as it says nothing of an API that is half read. Entering a
  file, passing a statement by, turning from imports to statements and leaving a
  file change no type statement's being met (`EnteredMet`, `SteppedMet`, `EndedMet`,
  `LeftMet`), and a type adds one (`TableGrows`); when the file at the top is done with,
  everything was met (`AcceptedIsRead`).
- `AcyclicNeverOverflows`: the part of `AcyclicEnds` that is safety. When the stack ends,
  the frames and the import that is reached spell a chain as long as the stack is
  deep (`Deeper`), and a chain begins with all shorter ones (`ShorterChains`).
- `RequestsHaveOneService`: `EveryRequestHasOneService`. While the files are read, the
  services are those of the service statements before the one the top-level file is at,
  and none before its statements begin (`Gathered`), so that their callers differ
  when they are written once. `CompletedFilled` says what the loop of `process` leaves
  behind, by the least number of messages for which it would not: the written
  services and the one made up for each message that needs it, nothing else, with
  callers that differ. `CompletedServes` combines this with what `process` checked.
- `ParserAndServerTyped`: `TypeOK`, from `FramesOK`, the types of the table (`ParserTypes`)
  and those of the server (`ServerInv`).

`ParserAssumption` says that a file is a list of statements, a service statement has
a list of services, the file the generator is started with exists, and the stack has
room for one frame; of types, messages and imports nothing is assumed.
`ServerAssumption` says that the bounds are numbers.

Only model-checked is liveness (`ReceivedOutsideWindow`, `AcyclicEnds`), which is out of
the prover's reach. Every invariant and every action property of a run that passes is
stated by a theorem.

## 6. Not modelled

Registrations of nodes, features and commands: lists that constructors and
destructors edit under the dynamic loader, one insertion or removal each, on one
thread. Errors, whose stack is a vector of VPP. Wording and formatting, the grammar of API
files and the text of generated code, the macros' expansion, bindings, build
scripts, the example plugins and the Python tests. What is left out of a
component that is modelled is said in part 3.

Operators that follow a `Deviation:` comment are plausible mistakes in an
operation, kept beside it to show that the properties would notice them; no
specification uses them.
