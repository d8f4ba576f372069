---- MODULE ProcessTimers ----
(***************************************************************************)
(* The timers of a process node, vpp-plugin/src/vlib/process_node/         *)
(* tw_timer.rs: a slab of timer states over the timer wheel.  A sleep      *)
(* holds a handle into this slab; the slab entry holds a handle into the   *)
(* wheel's slab, and the timer in the wheel holds the sleep's handle as    *)
(* its context.  Both slabs hand out vacated keys again, so a handle kept  *)
(* too long would name somebody else's timer.                              *)
(*                                                                         *)
(* This module has the operations; ProcessNode composes them.              *)
(***************************************************************************)
EXTENDS Integers

CONSTANTS
    NumLevels, NumSlots,  \* of the wheel: 3 and 2048
    Keys,                 \* keys of the wheel's slab
    Handles,              \* keys of the slab of timer states
    MaxTicks,             \* bound on the wheel's clock, for model checking only
    U64,                  \* number of values of a u64
    None                  \* Option::None

VARIABLES
    currentTime, position, slots, expireTime, cascade,  \* the wheel
    context,        \* context[k]: the handle the wheel's timer k was started with
    entry,          \* entry[h]: "vacant", "pending" or "ready" (is_ready)
    wheelHandle,    \* wheelHandle[h]: wheel_handle of the entry
    previousTicks,  \* previous_ticks
    now,            \* argument of the expire_timers call in progress, or of the last
    ticksLeft,      \* ticks that call has not yet given the wheel
    handed          \* handles the wheel has handed out in that call

wheelVars  == <<currentTime, position, slots, expireTime, cascade>>
slabVars   == <<context, entry, wheelHandle>>
expireVars == <<previousTicks, now, ticksLeft, handed>>
timerVars  == <<wheelVars, slabVars, expireVars>>

Wheel == INSTANCE TimerWheel WITH Intervals <- {}, MaxTime <- MaxTicks

\* No key of a slab stands for "no timer".
ASSUME TimersAssumption ==
    /\ Wheel!WheelAssumption
    /\ Wheel!SpanAssumption
    /\ None \notin Keys \cup Handles
    /\ U64 \in Nat /\ U64 > NumSlots

InUse == {h \in Handles : entry[h] # "vacant"}

Pending == {h \in Handles : entry[h] = "pending"}

InitTimers ==
    /\ Wheel!Init
    /\ context = [k \in Keys |-> None]
    /\ entry = [h \in Handles |-> "vacant"]
    /\ wheelHandle = [h \in Handles |-> None]
    /\ previousTicks = 0
    /\ now = 0
    /\ ticksLeft = 0
    /\ handed = {}

\* start_timer: a time that is not in the future gives a timer that is ready.
StartTimer(h, k, expire) ==
    /\ h \notin InUse
    /\ \/ /\ Wheel!StartTimerAbsolute(k, expire)
          /\ context' = [context EXCEPT ![k] = h]
          /\ wheelHandle' = [wheelHandle EXCEPT ![h] = k]
          /\ entry' = [entry EXCEPT ![h] = "pending"]
       \/ /\ expire <= currentTime
          /\ entry' = [entry EXCEPT ![h] = "ready"]
          /\ UNCHANGED <<wheelVars, context, wheelHandle>>
    /\ UNCHANGED expireVars

\* Deviation: only the entry goes, the wheel's timer stays.
StopTimerInSlabOnly(h) ==
    /\ h \in InUse
    /\ entry' = [entry EXCEPT ![h] = "vacant"]
    /\ wheelHandle' = [wheelHandle EXCEPT ![h] = None]
    /\ UNCHANGED <<wheelVars, context, expireVars>>

\* stop_timer: the wheel ignores a handle that is not in its slab.
StopTimer(h) ==
    /\ h \in InUse
    /\ entry' = [entry EXCEPT ![h] = "vacant"]
    /\ wheelHandle' = [wheelHandle EXCEPT ![h] = None]
    /\ IF wheelHandle[h] \in Wheel!Live
       THEN /\ Wheel!StopTimer(wheelHandle[h])
            /\ context' = [context EXCEPT ![wheelHandle[h]] = None]
       ELSE UNCHANGED <<wheelVars, context>>
    /\ UNCHANGED expireVars

(***************************************************************************)
(* expire_timers.                                                          *)
(***************************************************************************)

\* Deviation: one tick less than has passed.
TicksSinceShort(t) == IF t > previousTicks THEN t - previousTicks - 1 ELSE 0

TicksSince(t) == IF t > previousTicks THEN t - previousTicks ELSE 0

BeginExpire(t) ==
    /\ now' = t
    /\ ticksLeft' = TicksSince(t)
    /\ handed' = {}
    /\ UNCHANGED <<wheelVars, slabVars, previousTicks>>

ExpireTick ==
    /\ ticksLeft > 0
    /\ Wheel!BeginTick
    /\ ticksLeft' = ticksLeft - 1
    /\ UNCHANGED <<slabVars, previousTicks, now, handed>>

ExpireLevel(l) ==
    /\ Wheel!ProcessLevel(l)
    /\ handed' = handed \cup {context[k] : k \in Wheel!Due(l)}
    /\ context' = [k \in Keys |-> IF k \in Wheel!Due(l) THEN None ELSE context[k]]
    /\ UNCHANGED <<entry, wheelHandle, previousTicks, now, ticksLeft>>

\* Deviation: the entry keeps its handle into the wheel.
MarkReadyKeepingHandle ==
    /\ ticksLeft = 0 /\ cascade = Wheel!Idle
    /\ previousTicks' = now
    /\ entry' = [h \in Handles |-> IF h \in handed \cap InUse THEN "ready" ELSE entry[h]]
    /\ handed' = {}
    /\ UNCHANGED <<wheelVars, context, wheelHandle, now, ticksLeft>>

MarkReady ==
    /\ ticksLeft = 0 /\ cascade = Wheel!Idle
    /\ previousTicks' = now
    /\ entry' = [h \in Handles |-> IF h \in handed \cap InUse THEN "ready" ELSE entry[h]]
    /\ wheelHandle' = [h \in Handles |-> IF h \in handed THEN None ELSE wheelHandle[h]]
    /\ handed' = {}
    /\ UNCHANGED <<wheelVars, context, now, ticksLeft>>

(***************************************************************************)
(* next_expiration: the difference of two u64, which wraps in a build      *)
(* without overflow checks.                                                *)
(***************************************************************************)

NoTimer == -1

\* Deviation: the time of the expiration, not the time until then.
NextExpirationAbsolute ==
    IF Wheel!NextExpiration = Wheel!Vacant THEN NoTimer ELSE Wheel!NextExpiration

NextExpiration ==
    IF Wheel!NextExpiration = Wheel!Vacant
    THEN NoTimer
    ELSE (Wheel!NextExpiration - previousTicks) % U64

(***************************************************************************)
(* Properties.                                                             *)
(***************************************************************************)

TimersTypeOK ==
    /\ Wheel!TypeOK
    /\ context \in [Keys -> Handles \cup {None}]
    /\ entry \in [Handles -> {"vacant", "pending", "ready"}]
    /\ wheelHandle \in [Handles -> Keys \cup {None}]
    /\ previousTicks \in Nat
    /\ now \in Nat
    /\ ticksLeft \in Nat
    /\ handed \subseteq Handles

\* The two slabs agree: a pending timer, until the wheel hands it out, and its
\* timer in the wheel name each other, the wheel holds no timer that belongs to
\* no entry, and only a pending entry holds a handle.  So dropping a sleep
\* stops its own timer and no other, although keys are used again, and the wheel
\* never hands out a handle that is not in the slab.
HandlesAgree ==
    /\ \A h \in Pending \ handed :
          /\ wheelHandle[h] \in Wheel!Live
          /\ context[wheelHandle[h]] = h
    /\ \A k \in Wheel!Live :
          /\ context[k] \in Pending \ handed
          /\ wheelHandle[context[k]] = k
    /\ \A h \in Handles \ Pending : wheelHandle[h] = None
    /\ handed \subseteq Pending
====
