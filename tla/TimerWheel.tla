---- MODULE TimerWheel ----
(***************************************************************************)
(* The hierarchical timer wheel of vpp-plugin/src/vppinfra/tw_timer.rs.    *)
(*                                                                         *)
(* NumLevels levels of NumSlots slots each; a slot of level l covers       *)
(* NumSlots^l ticks.  A slot's doubly-linked list is abstracted to the set *)
(* of timers linked in it (TimerWheelLinks models the links): no operation *)
(* depends on the order within a slot.  A timer is known by its slab key,  *)
(* and its opaque context is left out.                                     *)
(*                                                                         *)
(* The wheel is owned by one thread, so the operations of the API do not   *)
(* overlap; a tick is split at the recursive calls of process_level, one   *)
(* step for each level it processes.                                       *)
(***************************************************************************)
EXTENDS Integers

CONSTANTS
    NumLevels,   \* NUM_LEVELS
    NumSlots,    \* NUM_SLOTS
    Keys,        \* slab keys that timer entries may get
    Intervals,   \* intervals, in ticks, that callers ask for
    MaxTime      \* bound on current_time, for model checking only

ASSUME WheelAssumption ==
    /\ NumLevels \in Nat \ {0}
    /\ NumSlots \in Nat \ {0}
    /\ Intervals \subseteq Nat
    /\ MaxTime \in Nat

Levels == 0 .. NumLevels - 1
Slots  == 0 .. NumSlots - 1

\* Ticks covered by one slot of level l.
Span(l) == NumSlots ^ l

\* The defining equations of exponentiation at the arguments used here.  The
\* provers know no rule for "^"; TLC evaluates this for every instance.
ASSUME SpanAssumption ==
    /\ Span(0) = 1
    /\ \A l \in Levels : Span(l + 1) = NumSlots * Span(l)

Vacant == -1           \* expireTime of a key that holds no timer
Idle   == NumLevels    \* value of cascade between ticks

VARIABLES
    currentTime,  \* current_time
    position,     \* position[l]: current slot of level l
    slots,        \* slots[<<l, s>>]: the timers linked in slot s of level l
    expireTime,   \* expireTime[k]: expire_time of the timer at slab key k
    cascade       \* the level the tick in progress processes next, or Idle

vars == <<currentTime, position, slots, expireTime, cascade>>

Live == {k \in Keys : expireTime[k] # Vacant}

(***************************************************************************)
(* Placement: start_timer_unchecked.                                       *)
(***************************************************************************)

\* The first level whose range the delta fits in, the last one by default.
LevelFor(delta) ==
    CHOOSE l \in Levels :
        /\ delta < Span(l + 1) \/ l = NumLevels - 1
        /\ \A j \in 0 .. l - 1 : delta >= Span(j + 1)

\* Deviation: the slot of the delta itself.
SaturatingPredOffByOne(n) == n

SaturatingPred(n) == IF n = 0 THEN 0 ELSE n - 1

SlotFor(l, delta) ==
    IF delta < Span(l + 1)
    THEN SaturatingPred(position[l] + delta \div Span(l)) % NumSlots
    ELSE (position[l] + NumSlots - 1) % NumSlots

Place(delta) == <<LevelFor(delta), SlotFor(LevelFor(delta), delta)>>

(***************************************************************************)
(* Operations.                                                             *)
(***************************************************************************)

Init ==
    /\ currentTime = 0
    /\ position = [l \in Levels |-> 0]
    /\ slots = [q \in Levels \X Slots |-> {}]
    /\ expireTime = [k \in Keys |-> Vacant]
    /\ cascade = Idle

\* A timer due `delta` ticks from now is put in the slab at key k and linked.
Insert(k, delta) ==
    /\ k \notin Live
    /\ expireTime' = [expireTime EXCEPT ![k] = currentTime + delta]
    /\ slots' = [slots EXCEPT ![Place(delta)] = @ \cup {k}]
    /\ UNCHANGED <<currentTime, position, cascade>>

StartTimer(k, interval) ==
    /\ cascade = Idle
    /\ Insert(k, interval)

\* For expire <= currentTime the call returns Err(Expired) and changes nothing.
StartTimerAbsolute(k, expire) ==
    /\ cascade = Idle
    /\ expire > currentTime
    /\ Insert(k, expire - currentTime)

\* Deviation: the entry leaves the slab and stays linked.
StopTimerStillLinked(k) ==
    /\ cascade = Idle
    /\ k \in Live
    /\ expireTime' = [expireTime EXCEPT ![k] = Vacant]
    /\ UNCHANGED <<currentTime, position, slots, cascade>>

\* For a key that is not in the slab the call returns None and changes nothing.
StopTimer(k) ==
    /\ cascade = Idle
    /\ k \in Live
    /\ expireTime' = [expireTime EXCEPT ![k] = Vacant]
    /\ slots' = [q \in Levels \X Slots |-> slots[q] \ {k}]
    /\ UNCHANGED <<currentTime, position, cascade>>

BeginTick ==
    /\ cascade = Idle
    /\ currentTime < MaxTime
    /\ currentTime' = currentTime + 1
    /\ cascade' = 0
    /\ UNCHANGED <<position, slots, expireTime>>

\* The timers process_level finds in the current slot of level l, and those
\* of them it hands to the caller as expired.
Detached(l) == slots[<<l, position[l]>>]

\* Deviation: a timer due within the next tick is handed out already.
DueEarly(l) == {k \in Detached(l) : expireTime[k] <= currentTime + 1}

Due(l) == {k \in Detached(l) : expireTime[k] <= currentTime}

\* Deviation: timers that are not due are not linked again.
RelinkedNowhere(l, q) == {}

\* The others are linked again while position[l] still is the slot processed.
Relinked(l, q) ==
    {k \in Detached(l) \ Due(l) : Place(expireTime[k] - currentTime) = q}

\* Deviation: the position runs past the last slot.
NextPositionUnwrapped(p) == p + 1

NextPosition(p) == (p + 1) % NumSlots

\* Deviation: the cascade starts one slot too soon.
CascadeToEarly(l, p) == IF p = NumSlots - 1 /\ l + 1 < NumLevels THEN l + 1 ELSE Idle

\* Deviation: coarser levels are never processed.
CascadeToNone(l, p) == Idle

\* process_level calls itself on the next level when this one has wrapped; the
\* call for level NumLevels returns at once.
CascadeTo(l, p) == IF p = 0 /\ l + 1 < NumLevels THEN l + 1 ELSE Idle

ProcessLevel(l) ==
    /\ cascade = l
    /\ slots' = [q \in Levels \X Slots |->
                    (IF q = <<l, position[l]>> THEN {} ELSE slots[q])
                        \cup Relinked(l, q)]
    /\ expireTime' = [k \in Keys |-> IF k \in Due(l) THEN Vacant ELSE expireTime[k]]
    /\ position' = [position EXCEPT ![l] = NextPosition(@)]
    /\ cascade' = CascadeTo(l, NextPosition(position[l]))
    /\ UNCHANGED currentTime

Next ==
    \/ \E k \in Keys, i \in Intervals :
          \/ StartTimer(k, i)
          \/ StartTimerAbsolute(k, currentTime + i)
    \/ \E k \in Keys : StopTimer(k)
    \/ BeginTick
    \/ \E l \in Levels : ProcessLevel(l)

Spec == Init /\ [][Next]_vars

(***************************************************************************)
(* next_expiration: the earliest timer of the first non-empty slot, levels *)
(* in order and slots from the current position on.  Vacant stands for     *)
(* None.                                                                   *)
(***************************************************************************)

Offset(l, s) == (s - position[l]) % NumSlots

\* Deviation: the slots of a level are scanned from slot 0.
BeforeFromSlotZero(q, r) ==
    \/ q[1] < r[1]
    \/ q[1] = r[1] /\ q[2] < r[2]

Before(q, r) ==
    \/ q[1] < r[1]
    \/ q[1] = r[1] /\ Offset(q[1], q[2]) < Offset(r[1], r[2])

NextExpiration ==
    LET occupied == {q \in Levels \X Slots : slots[q] # {}}
        first    == CHOOSE q \in occupied : \A r \in occupied \ {q} : Before(q, r)
        times    == {expireTime[k] : k \in slots[first]}
    IN  IF occupied = {} THEN Vacant
        ELSE CHOOSE t \in times : \A u \in times : t <= u

(***************************************************************************)
(* Properties.                                                             *)
(***************************************************************************)

TypeOK ==
    /\ currentTime \in Nat
    /\ position \in [Levels -> Slots]
    /\ slots \in [Levels \X Slots -> SUBSET Keys]
    /\ expireTime \in [Keys -> Nat \cup {Vacant}]
    /\ cascade \in 0 .. NumLevels

\* Every timer in the slab is linked in exactly one slot, and nothing else is
\* linked: starting, stopping, expiring and cascading keep the slab and the
\* lists together.  A timer in the slab and in no list would never fire and
\* could never be freed; one in two lists would fire twice.
OneSlotPerTimer ==
    /\ \A q \in Levels \X Slots : slots[q] \subseteq Live
    /\ \A k \in Live : \E q \in Levels \X Slots : k \in slots[q]
    /\ \A q, r \in Levels \X Slots : slots[q] \cap slots[r] # {} => q = r

\* The clock a level's position has caught up with: a level still waiting for
\* the cascade of the tick in progress is one tick behind.
LevelClock(l) == IF l < cascade THEN currentTime ELSE currentTime - 1

\* The positions are the digits of the clock in base NumSlots, and a cascade
\* reaches a level only when every digit below it has just become zero.
PositionsTrackTime ==
    /\ \A l \in Levels :
          position[l] = (LevelClock(l) \div Span(l)) % NumSlots
    /\ cascade \in Levels => currentTime % Span(cascade) = 0

\* A timer in level 0 sits in the slot that is processed in the very tick of
\* its expire_time, wherever it came from (started there, or cascaded down).
\* Only a timer started with interval 0 can be overdue in level 0.
LevelZeroExact ==
    \A s \in Slots : \A k \in slots[<<0, s>>] :
        /\ expireTime[k] > LevelClock(0) =>
              expireTime[k] - LevelClock(0) = Offset(0, s) + 1
        /\ 0 \notin Intervals => expireTime[k] > LevelClock(0)

\* If level 0 holds a timer then next_expiration is the earliest of level 0.
NextExpirationOfLevelZero ==
    LET fine == UNION {slots[<<0, s>>] : s \in Slots}
    IN  cascade = Idle /\ fine # {} =>
            /\ \E k \in fine : expireTime[k] = NextExpiration
            /\ \A k \in fine : NextExpiration <= expireTime[k]

\* A timer fires late by less than one revolution of the whole wheel.  Only one
\* started with interval 0, which has missed its slot, may take a whole one.
Lateness ==
    IF 0 \in Intervals THEN NumSlots ^ NumLevels ELSE NumSlots ^ NumLevels - 1

\* The wheel gives the timer service, except that a timer may be this late.
Service == INSTANCE TimerService WITH
    Timers   <- Keys,
    Slack    <- Lateness,
    now      <- currentTime,
    deadline <- expireTime

ImplementsTimerService == Service!Spec
====
