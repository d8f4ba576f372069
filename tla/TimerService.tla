---- MODULE TimerService ----
(***************************************************************************)
(* What a one-shot timer facility promises its user, with no data          *)
(* structure: a set of running timers, each with a deadline in ticks, and  *)
(* a clock.  A timer never fires before its deadline, fires at most once,  *)
(* and the clock does not move on while a timer is overdue by Slack ticks  *)
(* or more.  Slack = 0 is the service of a perfect timer: every timer      *)
(* fires in the very tick of its deadline.                                 *)
(***************************************************************************)
EXTENDS Integers

CONSTANTS
    Timers,   \* identities of timers
    Slack     \* by how many ticks a timer may be overdue

VARIABLES
    now,      \* the clock, in ticks
    deadline  \* deadline[t] is the tick at which t is due, Vacant if t is not running

vars == <<now, deadline>>

Vacant == -1

Running == {t \in Timers : deadline[t] # Vacant}

TypeOK ==
    /\ now \in Nat
    /\ deadline \in [Timers -> Nat \cup {Vacant}]

Init ==
    /\ now = 0
    /\ deadline = [t \in Timers |-> Vacant]

Start(t) ==
    /\ t \notin Running
    /\ deadline'[t] \in Nat
    /\ deadline'[t] >= now
    /\ deadline' = [deadline EXCEPT ![t] = deadline'[t]]
    /\ UNCHANGED now

Stop(t) ==
    /\ t \in Running
    /\ deadline' = [deadline EXCEPT ![t] = Vacant]
    /\ UNCHANGED now

\* Any set of due timers fires together: the wheel hands them out in batches.
Fire(S) ==
    /\ S # {}
    /\ \A t \in S : t \in Running /\ deadline[t] <= now
    /\ deadline' = [t \in Timers |-> IF t \in S THEN Vacant ELSE deadline[t]]
    /\ UNCHANGED now

Advance ==
    /\ \A t \in Running : now - deadline[t] < Slack
    /\ now' = now + 1
    /\ UNCHANGED deadline

Next ==
    \/ \E t \in Timers : Start(t) \/ Stop(t)
    \/ \E S \in SUBSET Timers : Fire(S)
    \/ Advance

Spec == Init /\ [][Next]_vars
====
