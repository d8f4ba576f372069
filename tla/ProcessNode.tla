---- MODULE ProcessNode ----
(***************************************************************************)
(* A process node: vpp-plugin/src/vlib/process_node/core.rs and the loop   *)
(* vlib_helper_process_node_loop that drives it.  The loop polls the       *)
(* coroutine and then waits for an event or for the next timer; a poll     *)
(* first expires timers and then runs the coroutine, which starts sleeps,  *)
(* awaits all the sleeps it has and drops them.                            *)
(*                                                                         *)
(* Real time is counted in fractions of a tick, SubTicks to a tick.  It    *)
(* passes at any moment, except that a node that can run is kept waiting,  *)
(* and then runs, for no more than MaxBusy in all.                         *)
(***************************************************************************)
EXTENDS ProcessTimers

CONSTANTS
    SubTicks,   \* clock values per tick of 1 ms
    Durations,  \* durations the coroutine sleeps
    MaxDelta,   \* longest time, in ticks since the poll began, a deadline is away
    MaxBusy,    \* longest time from being able to run to waiting again
    MaxClock    \* bound on the clock, for model checking only

ASSUME NodeAssumption ==
    /\ SubTicks \in Nat \ {0}
    /\ Durations \subseteq Nat
    /\ MaxDelta \in Nat /\ MaxBusy \in Nat /\ MaxClock \in Nat

VARIABLES
    clock,      \* time since start_time
    phase,      \* "expiring", "coroutine" or "waiting"
    deadline,   \* deadline[h]: the time the sleep with handle h should end at
    waitTicks,  \* while waiting: ticks asked for, or NoTimer
    waitUntil,  \* while waiting with a timer: when that time is up
    event,      \* TRUE if the node has an event pending
    busy        \* time passed since the node could run

vars == <<timerVars, clock, phase, deadline, waitTicks, waitUntil, event, busy>>

\* instant_to_ticks: as_millis drops the fraction, div_ceil by 1 keeps the rest.
TicksOf(t) == t \div SubTicks

Init ==
    /\ InitTimers
    /\ clock = 0
    /\ phase = "expiring"
    /\ deadline = [h \in Handles |-> 0]
    /\ waitTicks = NoTimer
    /\ waitUntil = 0
    /\ event = FALSE
    /\ busy = 0

(***************************************************************************)
(* Poll.                                                                   *)
(***************************************************************************)

Expire ==
    /\ phase = "expiring"
    /\ ExpireTick \/ \E l \in Wheel!Levels : ExpireLevel(l)
    /\ UNCHANGED <<clock, phase, deadline, waitTicks, waitUntil, event, busy>>

RunCoroutine ==
    /\ phase = "expiring"
    /\ MarkReady
    /\ phase' = "coroutine"
    /\ UNCHANGED <<clock, deadline, waitTicks, waitUntil, event, busy>>

\* Deviation: the deadline is taken from the ticks of the last poll.
SleepSincePoll(h, k, d) ==
    /\ phase = "coroutine"
    /\ TicksOf(d) <= MaxDelta
    /\ StartTimer(h, k, previousTicks + TicksOf(d))
    /\ deadline' = [deadline EXCEPT ![h] = clock + d]
    /\ UNCHANGED <<clock, phase, waitTicks, waitUntil, event, busy>>

\* sleep, called by the coroutine.
Sleep(h, k, d) ==
    /\ phase = "coroutine"
    /\ TicksOf(clock + d) - previousTicks <= MaxDelta
    /\ StartTimer(h, k, TicksOf(clock + d))
    /\ deadline' = [deadline EXCEPT ![h] = clock + d]
    /\ UNCHANGED <<clock, phase, waitTicks, waitUntil, event, busy>>

\* A sleep is dropped when it has been awaited, or when it is cancelled, as by
\* a timeout whose future is ready.
DropSleep(h) ==
    /\ phase = "coroutine"
    /\ StopTimer(h)
    /\ deadline' = [deadline EXCEPT ![h] = 0]
    /\ UNCHANGED <<clock, phase, waitTicks, waitUntil, event, busy>>

\* Every sleep that is left was polled and is pending; the loop goes to wait.
Suspend ==
    /\ phase = "coroutine"
    /\ InUse = Pending
    /\ phase' = "waiting"
    /\ waitTicks' = NextExpiration
    /\ waitUntil' = IF waitTicks' = NoTimer THEN 0 ELSE clock + waitTicks' * SubTicks
    /\ busy' = 0
    /\ UNCHANGED <<timerVars, clock, deadline, event>>

(***************************************************************************)
(* Wait.                                                                   *)
(***************************************************************************)

Runnable ==
    \/ phase # "waiting"
    \/ event
    \/ waitTicks # NoTimer /\ clock >= waitUntil

\* The loop drains the event and polls.
Resume ==
    /\ phase = "waiting" /\ Runnable
    /\ event' = FALSE
    /\ phase' = "expiring"
    /\ BeginExpire(TicksOf(clock))
    /\ waitTicks' = NoTimer
    /\ waitUntil' = 0
    /\ UNCHANGED <<clock, deadline, busy>>

\* A waker is called, on whatever thread.
Event ==
    /\ ~event
    /\ event' = TRUE
    /\ UNCHANGED <<timerVars, clock, phase, deadline, waitTicks, waitUntil, busy>>

PassTime ==
    /\ clock < MaxClock
    /\ clock' = clock + 1
    /\ IF Runnable
       THEN /\ busy < MaxBusy
            /\ busy' = busy + 1
       ELSE UNCHANGED busy
    /\ UNCHANGED <<timerVars, phase, deadline, waitTicks, waitUntil, event>>

Next ==
    \/ Expire \/ RunCoroutine \/ Suspend \/ Resume \/ Event \/ PassTime
    \/ \E h \in Handles : DropSleep(h) \/ \E k \in Keys, d \in Durations : Sleep(h, k, d)

Spec == Init /\ [][Next]_vars

(***************************************************************************)
(* Properties.                                                             *)
(***************************************************************************)

TypeOK ==
    /\ TimersTypeOK
    /\ clock \in Nat
    /\ phase \in {"expiring", "coroutine", "waiting"}
    /\ deadline \in [Handles -> Nat]
    /\ waitTicks \in Nat \cup {NoTimer}
    /\ waitUntil \in Nat
    /\ event \in BOOLEAN
    /\ busy \in 0 .. MaxBusy

\* "A Sleep instance is elapsed when the requested duration has elapsed": no
\* sleep is ready before its deadline.
SleepsTheirDuration ==
    \A h \in Handles : entry[h] = "ready" => clock >= deadline[h]

\* SleepsTheirDuration fails by less than a tick: rounding down both the deadline
\* and the clock can lose the fraction of one tick, no more, and no sleep is
\* ended by another one's timer.
NeverATickEarly ==
    \A h \in Handles : entry[h] = "ready" => clock + SubTicks > deadline[h]

\* A sleep that should have ended is found so within one tick and twice the time
\* the node may be kept busy: no timer is left behind in the wheel, and the loop
\* never waits for longer than the sleeps allow.
SleepsEndInTime ==
    \A h \in Pending : clock < deadline[h] + SubTicks + 2 * MaxBusy

\* While the node waits, it has asked for exactly the ticks until its earliest
\* pending timer, and waits for events alone only if it has none.
WaitsForEarliest ==
    phase = "waiting" =>
        /\ waitTicks = NoTimer <=> Pending = {}
        /\ \A h \in Pending : waitTicks <= expireTime[wheelHandle[h]] - previousTicks
        /\ Pending # {} => \E h \in Pending :
               waitTicks = expireTime[wheelHandle[h]] - previousTicks

\* "Returns the duration until the next expiration": the node is not asked to
\* wait for longer than any of its pending timers, the latest included, needs.
WaitsForSomeTimer ==
    phase = "waiting" /\ Pending # {} =>
        \E h \in Pending :
            LET remaining == expireTime[wheelHandle[h]] - previousTicks
            IN  waitTicks <= IF remaining > 0 THEN remaining ELSE 0

\* When no sleep is longer than the wheel's first level, the timers are perfect:
\* each is handed out in the very tick of its expire_time.
Service == INSTANCE TimerService WITH
    Timers   <- Handles,
    Slack    <- 0,
    now      <- currentTime,
    deadline <- [h \in Handles |->
                    IF h \in Pending \ handed
                    THEN expireTime[wheelHandle[h]]
                    ELSE Wheel!Vacant]

ImplementsPerfectTimers == Service!Spec
====
