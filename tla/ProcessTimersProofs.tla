---- MODULE ProcessTimersProofs ----
(***************************************************************************)
(* Proofs about ProcessNode: the two slabs agree, no sleep ends early, and *)
(* while no sleep is longer than the wheel's first level the node waits    *)
(* for its earliest timer, every sleep ends in time and the timers are     *)
(* perfect.                                                                *)
(***************************************************************************)
EXTENDS ProcessNode, TLAPS

(* The wheel's own theorems, for any interval that is left to wait for. *)
Any == INSTANCE TimerWheelProofs WITH Intervals <- Nat \ {0}, MaxTime <- MaxTicks

LEMMA AnyAssumptions == Any!WheelAssumption /\ Any!SpanAssumption
BY TimersAssumption
   DEF Wheel!WheelAssumption, Wheel!SpanAssumption, Wheel!Span, Wheel!Levels,
       Any!WheelAssumption, Any!SpanAssumption, Any!Span, Any!Levels

WheelInv == Any!TypeOK /\ Any!OneSlotPerTimer

LEMMA WheelInvStep == WheelInv /\ [Any!Next]_(Any!vars) => WheelInv'
BY AnyAssumptions, Any!NextTypeOK, Any!NextOneSlot DEF WheelInv

LEMMA WheelInvInit == Wheel!Init => WheelInv
<1>1. Wheel!Init => Any!Init
  BY DEF Wheel!Init, Any!Init, Wheel!Levels, Any!Levels, Wheel!Slots, Any!Slots,
         Wheel!Vacant, Any!Vacant, Wheel!Idle, Any!Idle
<1>2. Any!Init => Any!TypeOK
  BY AnyAssumptions, Any!InitTypeOK
<1>3. Any!Init => Any!OneSlotPerTimer
  BY DEF Any!Init, Any!OneSlotPerTimer, Any!Live
<1>. QED
  BY <1>1, <1>2, <1>3 DEF WheelInv

LEMMA StartIsStep ==
    ASSUME NEW k \in Keys, NEW expire \in Nat, WheelInv,
           Wheel!StartTimerAbsolute(k, expire)
    PROVE  WheelInv' /\ Any!StartTimerAbsolute(k, expire) /\ Any!Next
<1>1. currentTime \in Nat /\ expire > currentTime
  BY DEF WheelInv, Any!TypeOK, Wheel!StartTimerAbsolute
<1>2. Any!StartTimerAbsolute(k, expire)
  BY DEF Wheel!StartTimerAbsolute, Any!StartTimerAbsolute, Wheel!Insert, Any!Insert,
         Wheel!Live, Any!Live, Wheel!Vacant, Any!Vacant, Wheel!Idle, Any!Idle,
         Wheel!Place, Any!Place, Wheel!LevelFor, Any!LevelFor, Wheel!SlotFor, Any!SlotFor,
         Wheel!Levels, Any!Levels, Wheel!Span, Any!Span,
         Wheel!SaturatingPred, Any!SaturatingPred
<1>3. /\ expire - currentTime \in Nat \ {0}
      /\ currentTime + (expire - currentTime) = expire
  BY <1>1
<1>4. Any!Next
  BY <1>2, <1>3 DEF Any!Next
<1>. QED
  BY <1>2, <1>4, WheelInvStep

LEMMA StopIsStep ==
    ASSUME NEW k \in Keys, WheelInv, Wheel!StopTimer(k)
    PROVE  WheelInv' /\ Any!StopTimer(k) /\ Any!Next
<1>1. Any!StopTimer(k)
  BY DEF Wheel!StopTimer, Any!StopTimer, Wheel!Live, Any!Live, Wheel!Vacant, Any!Vacant,
         Wheel!Idle, Any!Idle, Wheel!Levels, Any!Levels, Wheel!Slots, Any!Slots
<1>. QED
  BY <1>1, WheelInvStep DEF Any!Next

LEMMA TickIsStep ==
    ASSUME WheelInv, Wheel!BeginTick
    PROVE  WheelInv' /\ Any!BeginTick /\ Any!Next
<1>1. Any!BeginTick
  BY DEF Wheel!BeginTick, Any!BeginTick, Wheel!Idle, Any!Idle
<1>. QED
  BY <1>1, WheelInvStep DEF Any!Next

LEMMA LevelIsStep ==
    ASSUME NEW l \in Wheel!Levels, WheelInv, Wheel!ProcessLevel(l)
    PROVE  WheelInv' /\ Any!ProcessLevel(l) /\ l \in Any!Levels /\ Any!Next
<1>1. Any!ProcessLevel(l) /\ l \in Any!Levels
  BY DEF Wheel!ProcessLevel, Any!ProcessLevel, Wheel!Levels, Any!Levels,
         Wheel!Slots, Any!Slots, Wheel!Relinked, Any!Relinked, Wheel!Detached, Any!Detached,
         Wheel!Due, Any!Due, Wheel!Place, Any!Place, Wheel!LevelFor, Any!LevelFor,
         Wheel!SlotFor, Any!SlotFor, Wheel!Span, Any!Span,
         Wheel!SaturatingPred, Any!SaturatingPred, Wheel!Vacant, Any!Vacant,
         Wheel!NextPosition, Any!NextPosition, Wheel!CascadeTo, Any!CascadeTo,
         Wheel!Idle, Any!Idle
<1>. QED
  BY <1>1, WheelInvStep DEF Any!Next

LEMMA SameIsStep == WheelInv /\ UNCHANGED wheelVars => WheelInv'
BY WheelInvStep DEF wheelVars, Any!vars

(***************************************************************************)
(* Ticks.                                                                  *)
(***************************************************************************)

LEMMA TicksAreNatural == \A n \in Nat : TicksOf(n) \in Nat
BY NodeAssumption DEF TicksOf

LEMMA TicksDivide ==
    ASSUME NEW n \in Nat
    PROVE  SubTicks * TicksOf(n) <= n /\ n < SubTicks * TicksOf(n) + SubTicks
BY NodeAssumption DEF TicksOf

LEMMA TicksMonotone ==
    ASSUME NEW m \in Nat, NEW n \in Nat, m <= n
    PROVE  TicksOf(m) <= TicksOf(n)
<1>1. SUFFICES ASSUME TicksOf(n) + 1 <= TicksOf(m) PROVE FALSE
  BY TicksAreNatural
<1>2. SubTicks * (TicksOf(n) + 1) <= SubTicks * TicksOf(m)
  BY <1>1, TicksAreNatural, NodeAssumption
<1>3. SubTicks * (TicksOf(n) + 1) = SubTicks * TicksOf(n) + SubTicks
  BY TicksAreNatural, NodeAssumption
<1>. QED
  BY <1>2, <1>3, TicksDivide, TicksAreNatural, NodeAssumption

LEMMA TicksWithinOne ==
    ASSUME NEW m \in Nat, NEW n \in Nat, TicksOf(m) <= TicksOf(n)
    PROVE  m < n + SubTicks
<1>1. SubTicks * TicksOf(m) <= SubTicks * TicksOf(n)
  BY TicksAreNatural, NodeAssumption
<1>. QED
  BY <1>1, TicksDivide, TicksAreNatural, NodeAssumption

(***************************************************************************)
(* The invariant: types of what the slabs and the poll keep, the wheel's,  *)
(* the agreement, how far the poll is, and what a timer in the wheel, one  *)
(* that was handed out and one that is ready say of the sleep's deadline.  *)
(***************************************************************************)

SlabTypes ==
    /\ context \in [Keys -> Handles \cup {None}]
    /\ entry \in [Handles -> {"vacant", "pending", "ready"}]
    /\ wheelHandle \in [Handles -> Keys \cup {None}]
    /\ ticksLeft \in Nat /\ now \in Nat /\ previousTicks \in Nat
    /\ clock \in Nat
    /\ deadline \in [Handles -> Nat]

Progress ==
    /\ now = currentTime + ticksLeft
    /\ now <= TicksOf(clock)
    /\ phase # "expiring" => ticksLeft = 0 /\ handed = {} /\ previousTicks = now

DeadlinesKept ==
    /\ \A k \in Wheel!Live : expireTime[k] = TicksOf(deadline[context[k]])
    /\ \A h \in handed : TicksOf(deadline[h]) <= currentTime
    /\ \A h \in Handles : entry[h] = "ready" => TicksOf(deadline[h]) <= TicksOf(clock)

IInv == SlabTypes /\ WheelInv /\ HandlesAgree /\ Progress /\ DeadlinesKept

LEMMA WheelTypes ==
    WheelInv => /\ currentTime \in Nat
                /\ expireTime \in [Keys -> Nat \cup {Wheel!Vacant}]
BY DEF WheelInv, Any!TypeOK, Any!Vacant, Wheel!Vacant

(* What is linked in a slot is in the slab. *)
LEMMA LinkedIsLive ==
    ASSUME WheelInv, NEW l \in Wheel!Levels
    PROVE  Wheel!Detached(l) \subseteq Wheel!Live
<1>1. position[l] \in Any!Slots /\ l \in Any!Levels
  BY DEF WheelInv, Any!TypeOK, Wheel!Levels, Any!Levels
<1>2. slots[<<l, position[l]>>] \subseteq Any!Live
  BY <1>1 DEF WheelInv, Any!OneSlotPerTimer
<1>. QED
  BY <1>2 DEF Wheel!Detached, Wheel!Live, Any!Live, Wheel!Vacant, Any!Vacant

LEMMA InitInv == Init => IInv
<1>. SUFFICES ASSUME Init PROVE IInv
  OBVIOUS
<1>. USE DEF Init, InitTimers
<1>1. WheelInv
  BY WheelInvInit
<1>2. SlabTypes
  BY DEF SlabTypes
<1>3. Wheel!Live = {} /\ currentTime = 0
  BY DEF Wheel!Init, Wheel!Live
<1>4. HandlesAgree
  BY <1>3 DEF HandlesAgree, Pending
<1>5. Progress
  BY <1>3, TicksAreNatural DEF Progress
<1>6. DeadlinesKept
  BY <1>3 DEF DeadlinesKept
<1>. QED
  BY <1>1, <1>2, <1>4, <1>5, <1>6 DEF IInv

LEMMA ExpireTickStep ==
    ASSUME IInv, phase = "expiring", ExpireTick,
           UNCHANGED <<clock, phase, deadline>>
    PROVE  IInv'
<1>. USE DEF IInv, ExpireTick, slabVars
<1>1. WheelInv'
  BY TickIsStep
<1>2. /\ currentTime' = currentTime + 1
      /\ UNCHANGED expireTime /\ Wheel!Live' = Wheel!Live
  BY DEF Wheel!BeginTick, Wheel!Live
<1>3. SlabTypes'
  BY DEF SlabTypes
<1>4. HandlesAgree'
  BY <1>2 DEF HandlesAgree, Pending
<1>5. Progress'
  BY <1>2, WheelTypes DEF Progress, SlabTypes, TicksOf
<1>6. DeadlinesKept'
  <2>1. \A h \in handed : TicksOf(deadline[h]) <= currentTime + 1
    BY WheelTypes, TicksAreNatural DEF DeadlinesKept, HandlesAgree, SlabTypes, Pending
  <2>. QED
    BY <1>2, <2>1 DEF DeadlinesKept, TicksOf
<1>. QED
  BY <1>1, <1>3, <1>4, <1>5, <1>6

LEMMA ExpireLevelStep ==
    ASSUME IInv, phase = "expiring", NEW l \in Wheel!Levels, ExpireLevel(l),
           UNCHANGED <<clock, phase, deadline>>
    PROVE  IInv'
<1>. USE DEF IInv, ExpireLevel
<1>. DEFINE due == Wheel!Due(l)
<1>1. WheelInv'
  BY LevelIsStep
<1>2. /\ due \subseteq Wheel!Live
      /\ \A k \in due : expireTime[k] <= currentTime
  BY LinkedIsLive DEF Wheel!Due
<1>3. /\ UNCHANGED currentTime
      /\ expireTime' = [k \in Keys |-> IF k \in due THEN Wheel!Vacant ELSE expireTime[k]]
      /\ Wheel!Live' = Wheel!Live \ due
  BY DEF Wheel!ProcessLevel, Wheel!Live
<1>. HIDE DEF due
<1>4. /\ handed' = handed \cup {context[k] : k \in due}
      /\ context' = [k \in Keys |-> IF k \in due THEN None ELSE context[k]]
      /\ UNCHANGED <<entry, wheelHandle, previousTicks, now, ticksLeft>>
  BY DEF due
<1>5. Wheel!Live \subseteq Keys
  BY DEF Wheel!Live
<1>6. SlabTypes'
  BY <1>4 DEF SlabTypes
<1>7. HandlesAgree'
  <2>1. Pending' = Pending
    BY <1>4 DEF Pending
  <2>2. ASSUME NEW h \in Pending \ handed'
        PROVE  wheelHandle[h] \in Wheel!Live' /\ context'[wheelHandle[h]] = h
    BY <1>2, <1>3, <1>4, <1>5, <2>2 DEF HandlesAgree
  <2>3. ASSUME NEW k \in Wheel!Live'
        PROVE  /\ context'[k] \in Pending \ handed'
               /\ wheelHandle[context'[k]] = k
    <3>1. k \in Wheel!Live \ due /\ context'[k] = context[k]
      BY <1>3, <1>4, <1>5
    <3>2. context[k] \in Pending \ handed /\ wheelHandle[context[k]] = k
      BY <3>1 DEF HandlesAgree
    <3>3. \A j \in due : wheelHandle[context[j]] = j
      BY <1>2 DEF HandlesAgree
    <3>. QED
      BY <1>4, <3>1, <3>2, <3>3
  <2>4. handed' \subseteq Pending
    BY <1>2, <1>4 DEF HandlesAgree
  <2>5. \A h \in Handles \ Pending : wheelHandle[h] = None
    BY DEF HandlesAgree
  <2>. QED
    BY <1>4, <2>1, <2>2, <2>3, <2>4, <2>5 DEF HandlesAgree
<1>8. Progress'
  BY <1>3, <1>4 DEF Progress, TicksOf
<1>9. DeadlinesKept'
  <2>1. ASSUME NEW k \in Wheel!Live'
        PROVE  expireTime'[k] = TicksOf(deadline[context'[k]])
    BY <1>3, <1>4, <1>5 DEF DeadlinesKept
  <2>2. ASSUME NEW h \in handed'
        PROVE  TicksOf(deadline[h]) <= currentTime
    BY <1>2, <1>4, <2>2 DEF DeadlinesKept
  <2>. QED
    BY <1>3, <1>4, <2>1, <2>2 DEF DeadlinesKept, TicksOf
<1>. QED
  BY <1>1, <1>6, <1>7, <1>8, <1>9

LEMMA RunCoroutineStep ==
    ASSUME IInv, RunCoroutine
    PROVE  IInv'
<1>. USE DEF IInv, RunCoroutine, MarkReady
<1>1. WheelInv'
  BY SameIsStep
<1>2. /\ UNCHANGED <<currentTime, expireTime>> /\ Wheel!Live' = Wheel!Live
      /\ handed \subseteq Pending
  BY DEF wheelVars, Wheel!Live, HandlesAgree
<1>3. SlabTypes'
  BY DEF SlabTypes
<1>4. Pending' = Pending \ handed
  BY <1>2 DEF Pending, InUse
<1>5. HandlesAgree'
  <2>1. \A h \in Pending \ handed : wheelHandle'[h] = wheelHandle[h]
    BY DEF Pending
  <2>2. \A h \in Handles \ Pending' : wheelHandle'[h] = None
    BY <1>4 DEF HandlesAgree
  <2>. QED
    BY <1>2, <1>4, <2>1, <2>2 DEF HandlesAgree
<1>6. Progress'
  BY <1>2 DEF Progress, TicksOf
<1>7. DeadlinesKept'
  <2>1. ASSUME NEW h \in Handles, entry'[h] = "ready"
        PROVE  TicksOf(deadline[h]) <= TicksOf(clock)
    <3>1. CASE h \in handed
      <4>1. TicksOf(deadline[h]) <= currentTime
        BY <3>1 DEF DeadlinesKept
      <4>2. currentTime <= TicksOf(clock)
        BY WheelTypes, TicksAreNatural DEF Progress, SlabTypes
      <4>. QED
        BY <4>1, <4>2, WheelTypes, TicksAreNatural DEF SlabTypes
    <3>2. CASE h \notin handed
      BY <2>1, <3>2 DEF DeadlinesKept
    <3>. QED
      BY <3>1, <3>2
  <2>. QED
    BY <1>2, <2>1 DEF DeadlinesKept, TicksOf
<1>. QED
  BY <1>1, <1>3, <1>5, <1>6, <1>7

LEMMA SleepStep ==
    ASSUME IInv, NEW h \in Handles, NEW k \in Keys, NEW d \in Durations, Sleep(h, k, d)
    PROVE  IInv'
<1>. USE DEF IInv, Sleep
<1>. DEFINE expire == TicksOf(clock + d)
<1>1. clock + d \in Nat /\ expire \in Nat /\ h \notin Pending /\ h \notin handed
  BY NodeAssumption, TicksAreNatural DEF SlabTypes, StartTimer, InUse, Pending, HandlesAgree
<1>2. deadline' = [deadline EXCEPT ![h] = clock + d]
  OBVIOUS
<1>3. UNCHANGED <<expireVars, clock, phase>>
  BY DEF StartTimer
<1>4. CASE /\ Wheel!StartTimerAbsolute(k, expire)
           /\ context' = [context EXCEPT ![k] = h]
           /\ wheelHandle' = [wheelHandle EXCEPT ![h] = k]
           /\ entry' = [entry EXCEPT ![h] = "pending"]
  <2>1. WheelInv'
    BY <1>1, <1>4, StartIsStep
  <2>2. /\ k \notin Wheel!Live
        /\ UNCHANGED currentTime
        /\ expireTime' = [expireTime EXCEPT ![k] = expire]
        /\ Wheel!Live' = Wheel!Live \cup {k}
    <3>1. /\ k \notin Wheel!Live
          /\ UNCHANGED currentTime
          /\ expireTime' = [expireTime EXCEPT ![k] = currentTime + (expire - currentTime)]
      BY <1>4 DEF Wheel!StartTimerAbsolute, Wheel!Insert
    <3>2. currentTime + (expire - currentTime) = expire
      BY <1>1, WheelTypes
    <3>3. expireTime' = [expireTime EXCEPT ![k] = expire]
      BY <3>1, <3>2
    <3> HIDE DEF expire
    <3>4. Wheel!Live' = Wheel!Live \cup {k}
      BY <1>1, <3>3, WheelTypes DEF Wheel!Live, Wheel!Vacant
    <3>. QED
      BY <3>1, <3>3, <3>4
  <2>3. Pending' = Pending \cup {h}
    BY <1>4 DEF Pending, SlabTypes
  <2>4. SlabTypes'
    BY <1>1, <1>3, <1>4 DEF SlabTypes, expireVars
  <2>5. HandlesAgree'
    <3>1. \A g \in Pending : wheelHandle'[g] = wheelHandle[g] /\ g # h
      BY <1>1, <1>4 DEF SlabTypes, Pending
    <3>2. \A j \in Wheel!Live : context'[j] = context[j] /\ j # k
      BY <1>4, <2>2 DEF SlabTypes, Wheel!Live
    <3>3. wheelHandle'[h] = k /\ context'[k] = h
      BY <1>4 DEF SlabTypes
    <3>4. \A g \in Handles \ Pending' : wheelHandle'[g] = None
      BY <1>4, <2>3 DEF SlabTypes, HandlesAgree
    <3>. QED
      BY <1>1, <1>3, <2>2, <2>3, <3>1, <3>2, <3>3, <3>4 DEF HandlesAgree, expireVars
  <2>6. DeadlinesKept'
    <3>1. \A j \in Wheel!Live : j # k /\ context'[j] = context[j] /\ context[j] # h
      BY <1>1, <1>4, <2>2 DEF SlabTypes, HandlesAgree, Wheel!Live
    <3>2. \A j \in Wheel!Live : expireTime'[j] = TicksOf(deadline'[context'[j]])
      BY <1>2, <2>2, <3>1 DEF DeadlinesKept, SlabTypes, HandlesAgree, Pending, Wheel!Live
    <3>3. expireTime'[k] = TicksOf(deadline'[context'[k]])
      BY <1>2, <1>4, <2>2, WheelTypes DEF SlabTypes
    <3>4. \A g \in Handles : g # h => deadline'[g] = deadline[g] /\ entry'[g] = entry[g]
      BY <1>2, <1>4 DEF SlabTypes
    <3>5. entry'[h] = "pending"
      BY <1>4 DEF SlabTypes
    <3>6. handed \subseteq Handles
      BY DEF HandlesAgree, Pending
    <3>. QED
      BY <1>1, <1>3, <2>2, <3>2, <3>3, <3>4, <3>5, <3>6 DEF DeadlinesKept, TicksOf, expireVars
  <2>. QED
    BY <1>3, <2>1, <2>2, <2>4, <2>5, <2>6 DEF Progress, TicksOf, expireVars
<1>5. CASE /\ expire <= currentTime
           /\ entry' = [entry EXCEPT ![h] = "ready"]
           /\ UNCHANGED <<wheelVars, context, wheelHandle>>
  <2>1. WheelInv'
    BY <1>5, SameIsStep
  <2>2. UNCHANGED <<currentTime, expireTime>> /\ Wheel!Live' = Wheel!Live
    BY <1>5 DEF wheelVars, Wheel!Live
  <2>3. Pending' = Pending
    BY <1>1, <1>5 DEF Pending, SlabTypes
  <2>4. SlabTypes'
    BY <1>1, <1>3, <1>5 DEF SlabTypes, expireVars
  <2>5. HandlesAgree'
    BY <1>3, <1>5, <2>2, <2>3 DEF HandlesAgree, expireVars
  <2>6. DeadlinesKept'
    <3>1. \A j \in Wheel!Live : context[j] \in Handles \ {h}
      BY <1>1 DEF HandlesAgree, Pending
    <3>2. \A g \in Handles : g # h => deadline'[g] = deadline[g] /\ entry'[g] = entry[g]
      BY <1>2, <1>5 DEF SlabTypes
    <3>3. deadline'[h] = clock + d
      BY <1>2 DEF SlabTypes
    <3>4. currentTime <= TicksOf(clock)
      BY WheelTypes, TicksAreNatural DEF Progress, SlabTypes
    <3>5. TicksOf(deadline'[h]) <= TicksOf(clock)
      BY <1>1, <1>5, <3>3, <3>4, WheelTypes, TicksAreNatural DEF SlabTypes
    <3>6. handed \subseteq Handles
      BY DEF HandlesAgree, Pending
    <3>. QED
      BY <1>1, <1>3, <1>5, <2>2, <3>1, <3>2, <3>5, <3>6 DEF DeadlinesKept, TicksOf, expireVars
  <2>. QED
    BY <1>3, <2>1, <2>2, <2>4, <2>5, <2>6 DEF Progress, TicksOf, expireVars
<1>. QED
  BY <1>4, <1>5 DEF StartTimer

LEMMA DropSleepStep ==
    ASSUME IInv, NEW h \in Handles, DropSleep(h)
    PROVE  IInv'
<1>. USE DEF IInv, DropSleep
<1>1. /\ UNCHANGED <<expireVars, clock, phase>>
      /\ entry' = [entry EXCEPT ![h] = "vacant"]
      /\ wheelHandle' = [wheelHandle EXCEPT ![h] = None]
      /\ deadline' = [deadline EXCEPT ![h] = 0]
      /\ handed = {}
  BY DEF StopTimer, Progress
<1>2. Pending' = Pending \ {h}
  BY <1>1 DEF Pending, SlabTypes
<1>3. \A g \in Handles : g # h =>
          entry'[g] = entry[g] /\ wheelHandle'[g] = wheelHandle[g] /\ deadline'[g] = deadline[g]
  BY <1>1 DEF SlabTypes
<1>4. entry'[h] = "vacant" /\ wheelHandle'[h] = None
  BY <1>1 DEF SlabTypes
<1>5. /\ WheelInv'
      /\ UNCHANGED currentTime
      /\ Wheel!Live' = Wheel!Live \ {wheelHandle[h]}
      /\ \A k \in Wheel!Live' : expireTime'[k] = expireTime[k] /\ context'[k] = context[k]
      /\ context' \in [Keys -> Handles \cup {None}]
  <2>1. CASE wheelHandle[h] \in Wheel!Live
    <3>1. /\ Wheel!StopTimer(wheelHandle[h])
          /\ context' = [context EXCEPT ![wheelHandle[h]] = None]
          /\ wheelHandle[h] \in Keys
      BY <2>1 DEF StopTimer, Wheel!Live
    <3>2. WheelInv'
      BY <3>1, StopIsStep
    <3>3. /\ UNCHANGED currentTime
          /\ expireTime' = [expireTime EXCEPT ![wheelHandle[h]] = Wheel!Vacant]
      BY <3>1 DEF Wheel!StopTimer
    <3>4. Wheel!Live' = Wheel!Live \ {wheelHandle[h]}
      BY <3>1, <3>3, WheelTypes DEF Wheel!Live
    <3>5. \A k \in Wheel!Live' : expireTime'[k] = expireTime[k] /\ context'[k] = context[k]
      BY <3>1, <3>3, <3>4, WheelTypes DEF SlabTypes, Wheel!Live
    <3>. QED
      BY <3>1, <3>2, <3>3, <3>4, <3>5 DEF SlabTypes
  <2>2. CASE wheelHandle[h] \notin Wheel!Live
    <3>1. UNCHANGED <<wheelVars, context>>
      BY <2>2 DEF StopTimer
    <3>. QED
      BY <2>2, <3>1, SameIsStep DEF wheelVars, Wheel!Live, SlabTypes
  <2>. QED
    BY <2>1, <2>2
<1>6. SlabTypes'
  BY <1>1, <1>5 DEF SlabTypes, expireVars
<1>7. \A k \in Wheel!Live' : context[k] \in Pending \ {h} /\ wheelHandle[context[k]] = k
  BY <1>5 DEF HandlesAgree
<1>8. HandlesAgree'
  <2>1. ASSUME NEW g \in Pending \ {h}
        PROVE  wheelHandle[g] \in Wheel!Live' /\ context'[wheelHandle[g]] = g
    <3>1. wheelHandle[g] \in Wheel!Live /\ context[wheelHandle[g]] = g
      BY <1>1 DEF HandlesAgree
    <3>2. wheelHandle[g] # wheelHandle[h]
      <4>1. CASE h \in Pending
        BY <1>1, <3>1, <4>1 DEF HandlesAgree
      <4>2. CASE h \notin Pending
        BY <3>1, <4>2, TimersAssumption DEF HandlesAgree, Wheel!Live
      <4>. QED
        BY <4>1, <4>2
    <3>. QED
      BY <1>5, <3>1, <3>2
  <2>2. \A g \in Handles \ Pending' : wheelHandle'[g] = None
    BY <1>2, <1>3, <1>4 DEF HandlesAgree
  <2>. QED
    BY <1>1, <1>2, <1>3, <1>5, <1>7, <2>1, <2>2 DEF HandlesAgree, expireVars, Pending
<1>9. Progress'
  BY <1>1, <1>5 DEF Progress, TicksOf, expireVars
<1>10. DeadlinesKept'
  BY <1>1, <1>3, <1>4, <1>5, <1>7 DEF DeadlinesKept, TicksOf, expireVars, Pending
<1>. QED
  BY <1>5, <1>6, <1>8, <1>9, <1>10

(* Steps that leave the timers alone. *)
LEMMA TimersUntouched ==
    ASSUME IInv, UNCHANGED <<wheelVars, slabVars, deadline>>,
           UNCHANGED handed, SlabTypes', Progress',
           clock' >= clock
    PROVE  IInv'
<1>. USE DEF IInv
<1>1. WheelInv'
  BY SameIsStep
<1>2. UNCHANGED <<currentTime, expireTime>> /\ Wheel!Live' = Wheel!Live
  BY DEF wheelVars, Wheel!Live
<1>3. HandlesAgree'
  BY <1>2 DEF HandlesAgree, Pending, slabVars
<1>4. DeadlinesKept'
  <2>1. \A h \in Handles : entry[h] = "ready" => TicksOf(deadline[h]) <= TicksOf(clock')
    <3>1. clock \in Nat /\ clock' \in Nat /\ TicksOf(clock) <= TicksOf(clock')
      BY TicksMonotone DEF SlabTypes
    <3>. QED
      BY <3>1, TicksAreNatural DEF DeadlinesKept, SlabTypes
  <2>. QED
    BY <1>2, <2>1 DEF DeadlinesKept, TicksOf, slabVars
<1>. QED
  BY <1>1, <1>3, <1>4

LEMMA ResumeStep == IInv /\ Resume => IInv'
<1>. SUFFICES ASSUME IInv, Resume PROVE IInv'
  OBVIOUS
<1>. USE DEF IInv, Resume, BeginExpire
<1>1. TicksOf(clock) \in Nat
  BY TicksAreNatural DEF SlabTypes
<1>2. SlabTypes'
  BY <1>1 DEF SlabTypes, slabVars, TicksSince
<1>3. Progress'
  BY <1>1, WheelTypes DEF Progress, SlabTypes, TicksSince, wheelVars, TicksOf
<1>4. handed = {} /\ handed' = {}
  BY DEF Progress
<1>. QED
  BY <1>2, <1>3, <1>4, TimersUntouched DEF SlabTypes

LEMMA OtherStep ==
    ASSUME IInv, Suspend \/ Event \/ PassTime \/ UNCHANGED vars
    PROVE  IInv'
<1>. USE DEF IInv
<1>1. /\ UNCHANGED <<timerVars, deadline>>
      /\ clock' \in {clock, clock + 1}
      /\ phase' = phase \/ phase = "coroutine"
  BY DEF Suspend, Event, PassTime, vars
<1>2. clock \in Nat /\ clock' \in Nat /\ clock' >= clock
  BY <1>1 DEF SlabTypes
<1>3. SlabTypes'
  BY <1>1, <1>2 DEF SlabTypes, timerVars, slabVars, expireVars
<1>4. TicksOf(clock) <= TicksOf(clock')
  BY <1>2, TicksMonotone
<1>5. Progress'
  <2>1. now <= TicksOf(clock')
    BY <1>2, <1>4, TicksAreNatural DEF Progress, SlabTypes
  <2>. QED
    BY <1>1, <2>1 DEF Progress, timerVars, wheelVars, expireVars, TicksOf
<1>. QED
  BY <1>1, <1>2, <1>3, <1>5, TimersUntouched DEF timerVars, expireVars

LEMMA NextInv == IInv /\ [Next]_vars => IInv'
<1>. SUFFICES ASSUME IInv, [Next]_vars PROVE IInv'
  OBVIOUS
<1>1. CASE Expire
  BY <1>1, ExpireTickStep, ExpireLevelStep DEF Expire
<1>2. CASE RunCoroutine
  BY <1>2, RunCoroutineStep
<1>3. CASE Resume
  BY <1>3, ResumeStep
<1>4. CASE Suspend \/ Event \/ PassTime \/ UNCHANGED vars
  BY <1>4, OtherStep
<1>5. CASE \E h \in Handles : DropSleep(h) \/ \E k \in Keys, d \in Durations : Sleep(h, k, d)
  BY <1>5, DropSleepStep, SleepStep
<1>. QED
  BY <1>1, <1>2, <1>3, <1>4, <1>5 DEF Next

(* The handles the two slabs keep of each other stay right however sleeps  *)
(* are started, dropped and expired, for a wheel of any size and sleeps of *)
(* any length: tw_timer.rs never stops or readies another sleep's timer.   *)
THEOREM SlabsAlwaysAgree == Spec => []HandlesAgree
<1>1. IInv => HandlesAgree
  BY DEF IInv
<1>. QED
  BY <1>1, InitInv, NextInv, PTL DEF Spec

(* No sleep of a process node ends a tick before its deadline, whatever    *)
(* the wheel's size, the clock and the events that wake the node, also     *)
(* where the wheel is late.                                                *)
THEOREM NoSleepEndsEarly == Spec => []NeverATickEarly
<1>1. IInv => NeverATickEarly
  <2>. SUFFICES ASSUME IInv, NEW h \in Handles, entry[h] = "ready"
                PROVE  clock + SubTicks > deadline[h]
    BY DEF NeverATickEarly
  <2>1. deadline[h] \in Nat /\ clock \in Nat
    BY DEF IInv, SlabTypes
  <2>2. TicksOf(deadline[h]) <= TicksOf(clock)
    BY DEF IInv, DeadlinesKept
  <2>. QED
    BY <2>1, <2>2, TicksWithinOne, NodeAssumption
<1>. QED
  BY <1>1, InitInv, NextInv, PTL DEF Spec

------------------------------------------------------------------------------
(* Types, and next_expiration as the node sees it.                         *)

LoopTypes ==
    /\ phase \in {"expiring", "coroutine", "waiting"}
    /\ waitTicks \in Nat \cup {NoTimer}
    /\ waitUntil \in Nat
    /\ event \in BOOLEAN
    /\ busy \in 0 .. MaxBusy

LEMMA WheelInvTypes == WheelInv => Wheel!TypeOK
BY DEF WheelInv, Any!TypeOK, Wheel!TypeOK, Any!Levels, Wheel!Levels, Any!Slots, Wheel!Slots,
       Any!Vacant, Wheel!Vacant

LEMMA SameNextExpiration ==
    Wheel!NextExpiration = Any!NextExpiration /\ Wheel!Live = Any!Live
BY DEF Wheel!NextExpiration, Any!NextExpiration, Wheel!Levels, Any!Levels,
       Wheel!Slots, Any!Slots, Wheel!Before, Any!Before, Wheel!Offset, Any!Offset,
       Wheel!Vacant, Any!Vacant, Wheel!Live, Any!Live

\* The node asks to wait for events alone just when no timer is running.
LEMMA NextExpirationOfNode ==
    ASSUME WheelInv, previousTicks \in Nat
    PROVE  /\ NextExpiration \in Nat \cup {NoTimer}
           /\ Wheel!Live = {} => NextExpiration = NoTimer
           /\ Wheel!Live # {} =>
                 /\ NextExpiration = (Wheel!NextExpiration - previousTicks) % U64
                 /\ \E k \in Wheel!Live : Wheel!NextExpiration = expireTime[k]
<1>1. /\ Wheel!Live = {} => Wheel!NextExpiration = Wheel!Vacant
      /\ Wheel!Live # {} => \E k \in Wheel!Live : Wheel!NextExpiration = expireTime[k]
  BY AnyAssumptions, Any!NextExpirationOfSome, SameNextExpiration
     DEF WheelInv, Any!Vacant, Wheel!Vacant
<1>2. ASSUME Wheel!Live # {}
      PROVE  Wheel!NextExpiration \in Nat /\ Wheel!NextExpiration # Wheel!Vacant
  BY <1>1, <1>2, WheelTypes DEF Wheel!Live, Wheel!Vacant
<1>3. \A e \in Nat : (e - previousTicks) % U64 \in Nat
  BY TimersAssumption DEF Wheel!WheelAssumption
<1>. QED
  BY <1>1, <1>2, <1>3 DEF NextExpiration

LEMMA NextLoopTypes == IInv /\ LoopTypes /\ [Next]_vars => LoopTypes'
<1>. SUFFICES ASSUME IInv, LoopTypes, [Next]_vars PROVE LoopTypes'
  OBVIOUS
<1>. USE DEF LoopTypes
<1>1. CASE Suspend
  <2>1. waitTicks' = NextExpiration /\ NextExpiration \in Nat \cup {NoTimer}
    BY <1>1, NextExpirationOfNode DEF Suspend, IInv, SlabTypes
  <2>2. \A n \in Nat : clock + n * SubTicks \in Nat
    BY NodeAssumption DEF IInv, SlabTypes
  <2>3. waitUntil' \in Nat
    BY <1>1, <2>1, <2>2 DEF Suspend
  <2>. QED
    BY <1>1, <2>1, <2>3, NodeAssumption DEF Suspend
<1>2. CASE PassTime
  BY <1>2, NodeAssumption DEF PassTime
<1>3. CASE \E h \in Handles : DropSleep(h) \/ \E k \in Keys, d \in Durations : Sleep(h, k, d)
  BY <1>3 DEF DropSleep, Sleep
<1>4. CASE Expire \/ RunCoroutine \/ Event \/ UNCHANGED vars
  BY <1>4 DEF Expire, RunCoroutine, Event, vars
<1>5. CASE Resume
  BY <1>5 DEF Resume, NoTimer
<1>. QED
  BY <1>1, <1>2, <1>3, <1>4, <1>5 DEF Next

LEMMA InitLoopTypes == Init => LoopTypes
<1>. SUFFICES ASSUME Init PROVE LoopTypes
  OBVIOUS
<1>1. 0 \in 0 .. MaxBusy
  BY NodeAssumption
<1>. QED
  BY <1>1 DEF Init, LoopTypes

(* The values a process node keeps stay within their types for a wheel of  *)
(* any size: next_expiration finds a timer whenever one is running, and    *)
(* the node is never kept busier than MaxBusy.                             *)
THEOREM NodeTypeCorrect == Spec => []TypeOK
<1>1. IInv /\ LoopTypes => TypeOK
  <2>1. IInv => TimersTypeOK
    BY WheelInvTypes DEF IInv, SlabTypes, HandlesAgree, Pending, TimersTypeOK
  <2>. QED
    BY <2>1 DEF IInv, SlabTypes, LoopTypes, TypeOK
<1>. QED
  BY <1>1, InitLoopTypes, InitInv, NextInv, NextLoopTypes, PTL DEF Spec

------------------------------------------------------------------------------
(* Sleeps within the range of the wheel's first level.  Between polls no   *)
(* tick is in progress, and every timer is linked in level 0.              *)

Short == Any!LevelZeroExact /\ Any!OnlyLevelZero

IdleBetweenPolls == phase # "expiring" => cascade = Wheel!Idle

LEMMA InitShort == Init => Short /\ IdleBetweenPolls
<1>. SUFFICES ASSUME Init PROVE Short /\ IdleBetweenPolls
  OBVIOUS
<1>1. \A q \in Any!Levels \X Any!Slots : slots[q] = {}
  BY DEF Init, InitTimers, Wheel!Init, Wheel!Levels, Any!Levels, Wheel!Slots, Any!Slots
<1>2. 0 \in Any!Levels
  BY AnyAssumptions DEF Any!WheelAssumption, Any!Levels
<1>. QED
  BY <1>1, <1>2 DEF Init, Short, Any!LevelZeroExact, Any!OnlyLevelZero, IdleBetweenPolls

\* What the wheel does to the slots does not depend on anything else.
LEMMA SameShort == Short /\ UNCHANGED wheelVars => Short'
BY DEF Short, wheelVars, Any!LevelZeroExact, Any!OnlyLevelZero, Any!Offset, Any!LevelClock

LEMMA StepKeepsExact ==
    ASSUME NumLevels > 1, WheelInv, Short, Any!Next
    PROVE  Any!LevelZeroExact'
BY AnyAssumptions, Any!NextLevelZero DEF WheelInv, Short

LEMMA SleepShort ==
    ASSUME NumLevels > 1, MaxDelta < NumSlots, IInv, Short, IdleBetweenPolls,
           NEW h \in Handles, NEW k \in Keys, NEW d \in Durations, Sleep(h, k, d)
    PROVE  Short' /\ IdleBetweenPolls'
<1>. DEFINE expire == TicksOf(clock + d)
<1>1. expire \in Nat /\ currentTime = previousTicks /\ currentTime \in Nat
      /\ expire - previousTicks <= MaxDelta
  BY NodeAssumption, TicksAreNatural, WheelTypes DEF Sleep, IInv, SlabTypes, Progress
<1>2. CASE Wheel!StartTimerAbsolute(k, expire)
  <2>1. Any!StartTimerAbsolute(k, expire) /\ Any!Next
    BY <1>1, <1>2, StartIsStep DEF IInv
  <2>. HIDE DEF expire
  <2>2. expire - currentTime \in Nat /\ expire - currentTime < NumSlots
    BY <1>1, <2>1, NodeAssumption, TimersAssumption
       DEF Any!StartTimerAbsolute, Wheel!WheelAssumption
  <2>3. Any!OnlyLevelZero'
    BY <2>1, <2>2, AnyAssumptions, Any!InsertShort
       DEF Any!StartTimerAbsolute, IInv, WheelInv, Short
  <2>4. Any!LevelZeroExact'
    BY <2>1, StepKeepsExact DEF IInv
  <2>5. UNCHANGED <<phase, cascade>>
    BY <1>2 DEF Sleep, Wheel!StartTimerAbsolute, Wheel!Insert
  <2>. QED
    BY <2>3, <2>4, <2>5 DEF Short, IdleBetweenPolls, Wheel!Idle
<1>3. CASE UNCHANGED wheelVars
  BY <1>3, SameShort DEF IdleBetweenPolls, wheelVars, Sleep, Wheel!Idle
<1>. QED
  BY <1>2, <1>3 DEF Sleep, StartTimer

LEMMA NextShort ==
    ASSUME NumLevels > 1, MaxDelta < NumSlots, IInv, Short, IdleBetweenPolls, [Next]_vars
    PROVE  Short' /\ IdleBetweenPolls'
<1>. USE DEF IdleBetweenPolls, Wheel!Idle
<1>1. ASSUME NEW h \in Handles, DropSleep(h) PROVE Short' /\ IdleBetweenPolls'
  <2>1. CASE wheelHandle[h] \in Wheel!Live
    <3>1. wheelHandle[h] \in Keys /\ Wheel!StopTimer(wheelHandle[h])
      BY <1>1, <2>1 DEF DropSleep, StopTimer, Wheel!Live
    <3>2. Any!StopTimer(wheelHandle[h]) /\ Any!Next
      BY <3>1, StopIsStep DEF IInv
    <3>3. Any!OnlyLevelZero'
      BY <3>1, <3>2, AnyAssumptions, Any!StopShort DEF Short
    <3>4. UNCHANGED <<phase, cascade>>
      BY <1>1, <3>1 DEF DropSleep, Wheel!StopTimer
    <3>. QED
      BY <3>2, <3>3, <3>4, StepKeepsExact DEF Short, IInv
  <2>2. CASE UNCHANGED wheelVars
    BY <1>1, <2>2, SameShort DEF wheelVars, DropSleep
  <2>. QED
    BY <1>1, <2>1, <2>2 DEF DropSleep, StopTimer
<1>2. CASE Expire
  <2>1. CASE ExpireTick
    <3>1. Any!BeginTick /\ Any!Next
      BY <2>1, TickIsStep DEF IInv, ExpireTick
    <3>2. Any!OnlyLevelZero'
      BY <3>1 DEF Short, Any!OnlyLevelZero, Any!BeginTick
    <3>. QED
      BY <1>2, <3>1, <3>2, StepKeepsExact DEF Short, IInv, Expire
  <2>2. ASSUME NEW l \in Wheel!Levels, ExpireLevel(l) PROVE Short'
    <3>1. l \in Any!Levels /\ Any!ProcessLevel(l) /\ Any!Next
      BY <2>2, LevelIsStep DEF IInv, ExpireLevel
    <3>2. Any!OnlyLevelZero'
      BY <3>1, AnyAssumptions, Any!ProcessShort DEF Short, IInv, WheelInv
    <3>. QED
      BY <3>1, <3>2, StepKeepsExact DEF Short, IInv
  <2>. QED
    BY <1>2, <2>1, <2>2 DEF Expire
<1>3. CASE RunCoroutine \/ Resume \/ Suspend \/ Event \/ PassTime \/ UNCHANGED vars
  <2>1. UNCHANGED wheelVars
    BY <1>3 DEF RunCoroutine, MarkReady, Resume, BeginExpire, Suspend, Event, PassTime,
                vars, timerVars
  <2>2. IdleBetweenPolls'
    BY <1>3, <2>1 DEF RunCoroutine, MarkReady, Resume, Suspend, Event, PassTime,
                      vars, wheelVars
  <2>. QED
    BY <2>1, <2>2, SameShort
<1>. QED
  BY <1>1, <1>2, <1>3, SleepShort DEF Next

------------------------------------------------------------------------------
(* What the node waits for, and by how much a sleep can be overdue: the    *)
(* clock has moved since the last poll by the time the node was busy, and  *)
(* the wait ends in time for every sleep there is.                         *)

Waits ==
    phase = "waiting" =>
        \A h \in Pending :
            /\ clock <= waitUntil + busy
            /\ waitUntil < deadline[h] + SubTicks + MaxBusy

Overdue ==
    /\ phase # "waiting" => clock < SubTicks * (now + 1) + busy
    /\ \A h \in Pending : clock < deadline[h] + SubTicks + MaxBusy + busy

TimelyInv == WaitsForEarliest /\ Waits /\ Overdue

LEMMA PendingTimer ==
    ASSUME IInv, NEW h \in Pending \ handed
    PROVE  /\ wheelHandle[h] \in Wheel!Live
           /\ deadline[h] \in Nat
           /\ expireTime[wheelHandle[h]] = TicksOf(deadline[h])
           /\ TicksOf(deadline[h]) \in Nat
BY TicksAreNatural DEF IInv, HandlesAgree, DeadlinesKept, SlabTypes, Pending

\* After a poll every timer left is ahead, and next_expiration is the number of
\* ticks to the earliest of them: the difference does not wrap.
LEMMA PendingAhead ==
    ASSUME NumLevels > 1, IInv, Short, IdleBetweenPolls, phase # "expiring"
    PROVE  /\ handed = {}
           /\ \A h \in Pending : TicksOf(deadline[h]) > previousTicks
           /\ NextExpiration = NoTimer <=> Pending = {}
           /\ \A h \in Pending : NextExpiration <= expireTime[wheelHandle[h]] - previousTicks
           /\ Pending # {} => \E h \in Pending :
                 NextExpiration = expireTime[wheelHandle[h]] - previousTicks
<1>. DEFINE e == Wheel!NextExpiration
<1>1. /\ handed = {} /\ currentTime = previousTicks /\ currentTime \in Nat
      /\ previousTicks \in Nat
  BY WheelTypes DEF IInv, Progress, SlabTypes
<1>2. \A k \in Wheel!Live : /\ expireTime[k] > previousTicks
                             /\ expireTime[k] <= previousTicks + NumSlots
                             /\ e <= expireTime[k]
  BY <1>1, AnyAssumptions, Any!ShortIsOnTime, SameNextExpiration
     DEF IInv, WheelInv, Short, IdleBetweenPolls, Wheel!Idle, Any!Idle
<1>3. \A h \in Pending : wheelHandle[h] \in Wheel!Live
  BY <1>1, PendingTimer
<1>4. \A k \in Wheel!Live : expireTime[k] \in Nat
  BY WheelTypes DEF IInv, Wheel!Live
<1>5. Wheel!Live = {} <=> Pending = {}
  BY <1>3 DEF IInv, HandlesAgree
<1>6. ASSUME Wheel!Live # {}
      PROVE  \E k \in Wheel!Live : e = expireTime[k] /\ NextExpiration = e - previousTicks
  <2>1. PICK k \in Wheel!Live : e = expireTime[k]
    BY <1>1, <1>6, NextExpirationOfNode DEF IInv
  <2>2. NextExpiration = (e - previousTicks) % U64
    BY <1>1, <1>6, NextExpirationOfNode DEF IInv
  <2>. HIDE DEF e
  <2>3. e - previousTicks \in 0 .. U64 - 1
    BY <1>1, <1>2, <1>4, <2>1, TimersAssumption DEF Wheel!WheelAssumption
  <2>4. \A n \in 0 .. U64 - 1 : n % U64 = n
    BY TimersAssumption
  <2>. QED
    BY <2>1, <2>2, <2>3, <2>4
<1>. HIDE DEF e
<1>7. \A h \in Pending : TicksOf(deadline[h]) > previousTicks
  BY <1>1, <1>2, <1>3, PendingTimer
<1>8. ASSUME Pending # {}
      PROVE  /\ \E h \in Pending : NextExpiration = expireTime[wheelHandle[h]] - previousTicks
             /\ \A h \in Pending : NextExpiration <= expireTime[wheelHandle[h]] - previousTicks
             /\ NextExpiration \in Nat
  <2>1. PICK k \in Wheel!Live : e = expireTime[k] /\ NextExpiration = e - previousTicks
    BY <1>5, <1>6, <1>8
  <2>2. context[k] \in Pending /\ wheelHandle[context[k]] = k
    BY DEF IInv, HandlesAgree
  <2>3. NextExpiration = expireTime[wheelHandle[context[k]]] - previousTicks
    BY <2>1, <2>2
  <2>4. NextExpiration \in Nat
    BY <1>1, <1>2, <1>4, <2>1
  <2>5. ASSUME NEW h \in Pending
        PROVE  NextExpiration <= expireTime[wheelHandle[h]] - previousTicks
    BY <1>1, <1>2, <1>3, <1>4, <2>1
  <2>. QED
    BY <2>2, <2>3, <2>4, <2>5
<1>9. Pending = {} => NextExpiration = NoTimer
  BY <1>1, <1>5, NextExpirationOfNode DEF IInv
<1>. QED
  BY <1>1, <1>7, <1>8, <1>9 DEF NoTimer

LEMMA SuspendTimely ==
    ASSUME NumLevels > 1, IInv, LoopTypes, Short, IdleBetweenPolls, TimelyInv, Suspend
    PROVE  TimelyInv'
<1>. DEFINE n == NextExpiration
<1>1. /\ phase = "coroutine" /\ phase' = "waiting"
      /\ waitTicks' = n /\ busy' = 0
      /\ waitUntil' = IF n = NoTimer THEN 0 ELSE clock + n * SubTicks
      /\ UNCHANGED <<clock, deadline, previousTicks, expireTime, wheelHandle>>
      /\ Pending' = Pending
  BY DEF Suspend, timerVars, wheelVars, slabVars, expireVars, Pending
<1>2. /\ \A h \in Pending : TicksOf(deadline[h]) > previousTicks
      /\ n = NoTimer <=> Pending = {}
      /\ \A h \in Pending : n <= expireTime[wheelHandle[h]] - previousTicks
      /\ Pending # {} => \E h \in Pending : n = expireTime[wheelHandle[h]] - previousTicks
      /\ handed = {}
  BY <1>1, PendingAhead
<1>. HIDE DEF n
<1>3. WaitsForEarliest'
  BY <1>1, <1>2 DEF WaitsForEarliest
<1>4. /\ clock \in Nat /\ previousTicks \in Nat /\ busy \in Nat /\ busy <= MaxBusy
      /\ clock < SubTicks * (previousTicks + 1) + busy
      /\ SubTicks \in Nat \ {0} /\ MaxBusy \in Nat
  BY <1>1, NodeAssumption DEF IInv, SlabTypes, LoopTypes, TimelyInv, Overdue, Progress
<1>5. ASSUME NEW h \in Pending
      PROVE  /\ clock <= waitUntil'
             /\ waitUntil' < deadline[h] + SubTicks + MaxBusy
             /\ clock < deadline[h] + SubTicks + MaxBusy
  <2>. DEFINE t == TicksOf(deadline[h])
              m == t - previousTicks
  <2>1. deadline[h] \in Nat /\ t \in Nat /\ expireTime[wheelHandle[h]] = t
    BY <1>2, PendingTimer
  <2>2. SubTicks * t <= deadline[h]
    BY <2>1, TicksDivide
  <2>3. n <= m /\ m >= 1
    BY <1>2, <1>4, <2>1
  <2>4. n \in Nat
    <3>1. n # NoTimer
      BY <1>2
    <3>. QED
      BY <1>4, <3>1, NextExpirationOfNode DEF n, IInv
  <2>. HIDE DEF t
  <2>5. SubTicks * (previousTicks + 1) + n * SubTicks <= SubTicks * t + SubTicks
    <3>1. n * SubTicks <= m * SubTicks
      BY <1>4, <2>1, <2>3, <2>4
    <3>2. m * SubTicks = SubTicks * t - SubTicks * previousTicks
      BY <1>4, <2>1
    <3>3. SubTicks * (previousTicks + 1) = SubTicks * previousTicks + SubTicks
      BY <1>4
    <3>. HIDE DEF m
    <3>. QED
      BY <1>4, <2>1, <2>4, <3>1, <3>2, <3>3
  <2>6. n * SubTicks \in Nat /\ SubTicks * t \in Nat /\ SubTicks * (previousTicks + 1) \in Nat
    BY <1>4, <2>1, <2>4
  <2>7. waitUntil' = clock + n * SubTicks
    BY <1>1, <1>2
  <2>. QED
    BY <1>4, <2>1, <2>2, <2>5, <2>6, <2>7
<1>6. Waits'
  <2>. SUFFICES ASSUME NEW h \in Pending
                PROVE  /\ clock <= waitUntil' + busy'
                       /\ waitUntil' < deadline[h] + SubTicks + MaxBusy
    BY <1>1 DEF Waits
  <2>1. waitUntil' \in Nat
    BY NextLoopTypes DEF LoopTypes, Next
  <2>. QED
    BY <1>1, <1>5, <2>1
<1>7. Overdue'
  <2>1. \A h \in Pending : deadline[h] \in Nat
    BY <1>2, PendingTimer
  <2>. QED
    BY <1>1, <1>4, <1>5, <2>1 DEF Overdue
<1>. QED
  BY <1>3, <1>6, <1>7 DEF TimelyInv

LEMMA SleepTimely ==
    ASSUME IInv, LoopTypes, TimelyInv,
           NEW h \in Handles, NEW k \in Keys, NEW d \in Durations, Sleep(h, k, d)
    PROVE  TimelyInv'
<1>1. /\ phase = "coroutine" /\ phase' = phase
      /\ UNCHANGED <<clock, busy, now>>
      /\ deadline' = [deadline EXCEPT ![h] = clock + d]
  BY DEF Sleep, StartTimer, expireVars
<1>2. Pending' \subseteq Pending \cup {h}
  BY DEF Sleep, StartTimer, Pending, IInv, SlabTypes
<1>3. Pending \subseteq Handles /\ clock \in Nat /\ d \in Nat /\ busy \in Nat
  BY NodeAssumption DEF Pending, IInv, SlabTypes, LoopTypes
<1>4. ASSUME NEW g \in Pending'
      PROVE  clock < deadline'[g] + SubTicks + MaxBusy + busy
  <2>1. CASE g = h
    <3>1. deadline'[g] = clock + d
      BY <1>1, <2>1 DEF IInv, SlabTypes
    <3>. QED
      BY <1>3, <3>1, NodeAssumption
  <2>2. CASE g # h
    <3>1. g \in Pending /\ deadline'[g] = deadline[g]
      BY <1>1, <1>2, <1>3, <2>2 DEF IInv, SlabTypes
    <3>. QED
      BY <3>1 DEF TimelyInv, Overdue
  <2>. QED
    BY <2>1, <2>2
<1>. QED
  BY <1>1, <1>4 DEF TimelyInv, WaitsForEarliest, Waits, Overdue

LEMMA PollTimely ==
    ASSUME IInv, TimelyInv, Expire \/ RunCoroutine \/ \E h \in Handles : DropSleep(h)
    PROVE  TimelyInv'
<1>1. /\ phase # "waiting" /\ phase' # "waiting"
      /\ UNCHANGED <<clock, busy, now>>
      /\ Pending' \subseteq Pending
      /\ \A g \in Pending' : deadline'[g] = deadline[g]
  <2>1. CASE Expire
    BY <2>1 DEF Expire, ExpireTick, ExpireLevel, slabVars, Pending
  <2>2. CASE RunCoroutine
    BY <2>2 DEF RunCoroutine, MarkReady, Pending, IInv, SlabTypes
  <2>3. ASSUME NEW h \in Handles, DropSleep(h)
        PROVE  /\ phase = "coroutine" /\ phase' = phase
               /\ UNCHANGED <<clock, busy, now>>
               /\ Pending' \subseteq Pending
               /\ \A g \in Pending' : deadline'[g] = deadline[g]
    BY <2>3 DEF DropSleep, StopTimer, Pending, expireVars, IInv, SlabTypes
  <2>. QED
    BY <2>1, <2>2, <2>3
<1>. QED
  BY <1>1 DEF TimelyInv, WaitsForEarliest, Waits, Overdue

LEMMA ResumeTimely ==
    ASSUME IInv, LoopTypes, TimelyInv, Resume
    PROVE  TimelyInv'
<1>1. /\ phase' = "expiring" /\ now' = TicksOf(clock)
      /\ UNCHANGED <<clock, busy, deadline>> /\ Pending' = Pending
  BY DEF Resume, BeginExpire, slabVars, Pending
<1>2. clock < SubTicks * (TicksOf(clock) + 1) + busy
  <2>1. clock \in Nat /\ busy \in Nat /\ TicksOf(clock) \in Nat
    BY TicksAreNatural, NodeAssumption DEF IInv, SlabTypes, LoopTypes
  <2>2. SubTicks * (TicksOf(clock) + 1) = SubTicks * TicksOf(clock) + SubTicks
    BY <2>1, NodeAssumption
  <2>. QED
    BY <2>1, <2>2, TicksDivide, NodeAssumption
<1>. QED
  BY <1>1, <1>2 DEF TimelyInv, WaitsForEarliest, Waits, Overdue

LEMMA PassTimeTimely ==
    ASSUME IInv, LoopTypes, TimelyInv, PassTime
    PROVE  TimelyInv'
<1>1. /\ clock' = clock + 1 /\ clock \in Nat /\ busy \in Nat
      /\ UNCHANGED <<phase, deadline, waitTicks, waitUntil, now, previousTicks>>
      /\ Pending' = Pending /\ waitUntil \in Nat
      /\ UNCHANGED <<expireTime, wheelHandle>>
      /\ MaxBusy \in Nat /\ SubTicks \in Nat /\ now \in Nat
  BY NodeAssumption
     DEF PassTime, timerVars, expireVars, slabVars, wheelVars, Pending, IInv, SlabTypes, LoopTypes
<1>2. WaitsForEarliest'
  BY <1>1 DEF TimelyInv, WaitsForEarliest
<1>3. \A h \in Pending : deadline[h] \in Nat
  BY DEF IInv, SlabTypes, Pending
<1>4. SubTicks * (now + 1) \in Nat
  BY <1>1
<1>5. CASE Runnable
  <2>1. busy' = busy + 1
    BY <1>5 DEF PassTime
  <2>2. Waits'
    BY <1>1, <1>3, <2>1 DEF TimelyInv, Waits
  <2>3. Overdue'
    BY <1>1, <1>3, <1>4, <2>1 DEF TimelyInv, Overdue
  <2>. QED
    BY <1>2, <2>2, <2>3 DEF TimelyInv
<1>6. CASE ~ Runnable
  <2>1. busy' = busy /\ phase = "waiting"
    BY <1>6 DEF PassTime, Runnable
  <2>2. \A h \in Pending : clock < waitUntil
    BY <1>1, <1>6, <2>1 DEF Runnable, TimelyInv, WaitsForEarliest
  <2>3. Waits'
    BY <1>1, <1>3, <2>1, <2>2 DEF TimelyInv, Waits
  <2>4. Overdue'
    BY <1>1, <1>3, <2>1, <2>2 DEF TimelyInv, Waits, Overdue
  <2>. QED
    BY <1>2, <2>3, <2>4 DEF TimelyInv
<1>. QED
  BY <1>5, <1>6

LEMMA NextTimely ==
    ASSUME NumLevels > 1, IInv, LoopTypes, Short, IdleBetweenPolls, TimelyInv, [Next]_vars
    PROVE  TimelyInv'
<1>1. CASE Event \/ UNCHANGED vars
  <2>1. /\ UNCHANGED <<clock, phase, busy, deadline, waitTicks, waitUntil>>
        /\ UNCHANGED <<now, previousTicks, expireTime, wheelHandle>> /\ Pending' = Pending
    BY <1>1 DEF Event, vars, timerVars, wheelVars, slabVars, expireVars, Pending
  <2>. QED
    BY <2>1 DEF TimelyInv, WaitsForEarliest, Waits, Overdue
<1>. QED
  BY <1>1, SuspendTimely, SleepTimely, PollTimely, ResumeTimely, PassTimeTimely DEF Next

LEMMA InitTimely == Init => TimelyInv
<1>. SUFFICES ASSUME Init PROVE TimelyInv
  OBVIOUS
<1>1. Pending = {} /\ phase = "expiring" /\ clock = 0 /\ now = 0 /\ busy = 0
  BY DEF Init, InitTimers, Pending
<1>. QED
  BY <1>1, NodeAssumption DEF TimelyInv, WaitsForEarliest, Waits, Overdue

LEMMA ShortSleepsInv ==
    ASSUME NumLevels > 1, MaxDelta < NumSlots
    PROVE  Spec => [](IInv /\ LoopTypes /\ Short /\ IdleBetweenPolls /\ TimelyInv)
<1>1. /\ IInv /\ LoopTypes /\ Short /\ IdleBetweenPolls /\ TimelyInv /\ [Next]_vars
      => Short' /\ IdleBetweenPolls' /\ TimelyInv'
  BY NextShort, NextTimely
<1>2. Init => IInv /\ LoopTypes /\ Short /\ IdleBetweenPolls /\ TimelyInv
  BY InitInv, InitLoopTypes, InitShort, InitTimely
<1>. QED
  BY <1>1, <1>2, NextInv, NextLoopTypes, PTL DEF Spec

(* Sleeps within the range of the wheel's first level: while the node      *)
(* waits it has asked for exactly the ticks until the earliest sleep, and  *)
(* the u64 difference of next_expiration never wraps.                      *)
THEOREM NodeAlwaysWaitsForEarliest ==
    ASSUME NumLevels > 1, MaxDelta < NumSlots
    PROVE  Spec => []WaitsForEarliest
BY ShortSleepsInv, PTL DEF TimelyInv

(* Sleeps within the range of the wheel's first level: none stays pending  *)
(* for a tick and twice the time the node may be kept busy after its       *)
(* deadline.  One MaxBusy is between the poll and the wait, whose length   *)
(* counts from its start, one between the end of the wait and the poll.    *)
THEOREM AllSleepsEndInTime ==
    ASSUME NumLevels > 1, MaxDelta < NumSlots
    PROVE  Spec => []SleepsEndInTime
<1>1. IInv /\ LoopTypes /\ TimelyInv => SleepsEndInTime
  <2>. SUFFICES ASSUME IInv, LoopTypes, TimelyInv, NEW h \in Pending
                PROVE  clock < deadline[h] + SubTicks + 2 * MaxBusy
    BY DEF SleepsEndInTime
  <2>1. /\ clock \in Nat /\ deadline[h] \in Nat
        /\ busy \in Nat /\ busy <= MaxBusy /\ MaxBusy \in Nat /\ SubTicks \in Nat
    BY NodeAssumption DEF IInv, SlabTypes, LoopTypes, Pending
  <2>2. clock < deadline[h] + SubTicks + MaxBusy + busy
    BY DEF TimelyInv, Overdue
  <2>. QED
    BY <2>1, <2>2
<1>. QED
  BY <1>1, ShortSleepsInv, PTL

------------------------------------------------------------------------------
(* The timers of the node are perfect timers.                              *)

\* The service's view of the node: the tick each running timer is due at.
DueAt == [h \in Handles |->
             IF h \in Pending \ handed THEN expireTime[wheelHandle[h]] ELSE Wheel!Vacant]

LEMMA DueAtIsDeadline ==
    /\ Service!vars = <<currentTime, DueAt>>
    /\ Service!Running = {h \in Handles : DueAt[h] # Wheel!Vacant}
    /\ Service!Vacant = Wheel!Vacant
BY DEF Service!vars, DueAt, Service!Running, Service!Vacant, Wheel!Vacant

LEMMA RunningIsPending ==
    ASSUME IInv
    PROVE  Service!Running = Pending \ handed
<1>1. \A h \in Pending \ handed : DueAt[h] \in Nat
  BY PendingTimer DEF DueAt, Pending
<1>. QED
  BY <1>1, DueAtIsDeadline DEF DueAt, Wheel!Vacant, Pending

\* A step that leaves the clock, what is running and its expire_times alone.
LEMMA SameService ==
    ASSUME IInv, currentTime' = currentTime, Pending' \ handed' = Pending \ handed,
           \A h \in Pending \ handed : expireTime'[wheelHandle'[h]] = expireTime[wheelHandle[h]]
    PROVE  UNCHANGED Service!vars
<1>1. DueAt' = DueAt
  BY DEF DueAt, Wheel!Vacant
<1>2. Service!vars' = <<currentTime, DueAt>>'
  BY DueAtIsDeadline DEF Service!vars, DueAt, Wheel!Vacant
<1>. QED
  BY <1>1, <1>2, DueAtIsDeadline

LEMMA SleepServes ==
    ASSUME IInv, NEW h \in Handles, NEW k \in Keys, NEW d \in Durations, Sleep(h, k, d)
    PROVE  [Service!Next]_(Service!vars)
<1>. DEFINE expire == TicksOf(clock + d)
<1>1. /\ expire \in Nat /\ currentTime \in Nat /\ handed' = handed
      /\ phase = "coroutine" /\ handed = {} /\ h \notin Pending
      /\ StartTimer(h, k, expire)
  BY NodeAssumption, TicksAreNatural, WheelTypes
     DEF Sleep, StartTimer, expireVars, IInv, SlabTypes, Progress, InUse, Pending
<1>. HIDE DEF expire
<1>2. CASE /\ Wheel!StartTimerAbsolute(k, expire)
           /\ wheelHandle' = [wheelHandle EXCEPT ![h] = k]
           /\ entry' = [entry EXCEPT ![h] = "pending"]
  <2>1. /\ k \notin Wheel!Live /\ UNCHANGED currentTime /\ expire > currentTime
        /\ expireTime' = [expireTime EXCEPT ![k] = currentTime + (expire - currentTime)]
    BY <1>2 DEF Wheel!StartTimerAbsolute, Wheel!Insert
  <2>2. expireTime'[k] = expire
    BY <1>1, <2>1, WheelTypes DEF IInv
  <2>3. Pending' = Pending \cup {h}
    BY <1>2 DEF Pending, IInv, SlabTypes
  <2>4. wheelHandle'[h] = k
    BY <1>2 DEF IInv, SlabTypes
  <2>5. \A g \in Pending : expireTime'[wheelHandle'[g]] = expireTime[wheelHandle[g]]
    <3>. SUFFICES ASSUME NEW g \in Pending
                  PROVE  expireTime'[wheelHandle'[g]] = expireTime[wheelHandle[g]]
      OBVIOUS
    <3>1. wheelHandle[g] \in Wheel!Live
      BY <1>1, PendingTimer
    <3>2. wheelHandle'[g] = wheelHandle[g]
      BY <1>1, <1>2 DEF IInv, SlabTypes, Pending
    <3>. QED
      BY <2>1, <3>1, <3>2, WheelTypes DEF IInv, Wheel!Live
  <2>6. DueAt' = [DueAt EXCEPT ![h] = expire]
    BY <1>1, <2>2, <2>3, <2>4, <2>5 DEF DueAt, Wheel!Vacant
  <2>7. h \notin Service!Running
    BY <1>1, RunningIsPending
  <2>8. DueAt'[h] = expire
    BY <1>1, <2>2, <2>3, <2>4 DEF DueAt
  <2>9. Service!Start(h)
    <3>1. DueAt'[h] \in Nat /\ DueAt'[h] >= currentTime
      BY <1>1, <2>1, <2>8
    <3>2. DueAt' = [DueAt EXCEPT ![h] = DueAt'[h]]
      BY <2>6, <2>8, Zenon
    <3>. QED
      BY <2>1, <2>7, <3>1, <3>2 DEF Service!Start, DueAt, Wheel!Vacant, Service!Vacant
  <2>. QED
    BY <2>9 DEF Service!Next
<1>3. CASE entry' = [entry EXCEPT ![h] = "ready"] /\ UNCHANGED <<wheelVars, wheelHandle>>
  <2>1. Pending' = Pending
    BY <1>1, <1>3 DEF Pending, IInv, SlabTypes
  <2>. QED
    BY <1>1, <1>3, <2>1, SameService DEF wheelVars
<1>. QED
  BY <1>1, <1>2, <1>3 DEF StartTimer

LEMMA DropSleepServes ==
    ASSUME IInv, NEW h \in Handles, DropSleep(h)
    PROVE  [Service!Next]_(Service!vars)
<1>1. /\ handed = {} /\ handed' = handed
      /\ entry' = [entry EXCEPT ![h] = "vacant"]
      /\ wheelHandle' = [wheelHandle EXCEPT ![h] = None]
  BY DEF DropSleep, StopTimer, expireVars, IInv, Progress
<1>2. Pending' = Pending \ {h}
  BY <1>1 DEF Pending, IInv, SlabTypes
<1>3. /\ UNCHANGED currentTime
      /\ \A g \in Pending' : expireTime'[wheelHandle'[g]] = expireTime[wheelHandle[g]]
  <2>1. \A g \in Pending' : wheelHandle'[g] = wheelHandle[g] /\ g \in Pending
    BY <1>1, <1>2 DEF IInv, SlabTypes, Pending
  <2>2. CASE wheelHandle[h] \in Wheel!Live
    <3>1. /\ UNCHANGED currentTime
          /\ expireTime' = [expireTime EXCEPT ![wheelHandle[h]] = Wheel!Vacant]
      BY <2>2 DEF DropSleep, StopTimer, Wheel!StopTimer
    <3>2. h \in Pending
      BY <2>2, TimersAssumption DEF IInv, HandlesAgree, Wheel!Live
    <3>3. \A g \in Pending' : wheelHandle[g] # wheelHandle[h] /\ wheelHandle[g] \in Keys
      BY <1>1, <1>2, <3>2 DEF IInv, HandlesAgree, Wheel!Live
    <3>. QED
      BY <2>1, <3>1, <3>3, WheelTypes DEF IInv
  <2>3. CASE wheelHandle[h] \notin Wheel!Live
    BY <2>1, <2>3 DEF DropSleep, StopTimer, wheelVars
  <2>. QED
    BY <2>2, <2>3
<1>4. CASE h \in Pending
  <2>1. DueAt' = [DueAt EXCEPT ![h] = Wheel!Vacant]
    BY <1>1, <1>2, <1>3 DEF DueAt
  <2>2. h \in Service!Running
    BY <1>1, <1>4, RunningIsPending
  <2>3. Service!Stop(h)
    BY <1>3, <2>1, <2>2 DEF Service!Stop, DueAt, Wheel!Vacant, Service!Vacant
  <2>. QED
    BY <2>3 DEF Service!Next
<1>5. CASE h \notin Pending
  BY <1>1, <1>2, <1>3, <1>5, SameService
<1>. QED
  BY <1>4, <1>5

LEMMA ExpireServes ==
    ASSUME NumLevels > 1, IInv, Short, Expire
    PROVE  [Service!Next]_(Service!vars)
<1>. USE DEF Expire
<1>1. CASE ExpireTick
  <2>1. /\ cascade = Wheel!Idle /\ currentTime' = currentTime + 1
        /\ UNCHANGED <<expireTime, entry, wheelHandle, handed>>
    BY <1>1 DEF ExpireTick, Wheel!BeginTick, slabVars
  <2>2. \A k \in Wheel!Live : expireTime[k] > currentTime
    BY <2>1, AnyAssumptions, Any!ShortIsOnTime, SameNextExpiration
       DEF IInv, WheelInv, Short, Wheel!Idle, Any!Idle
  <2>3. \A h \in Service!Running : currentTime - DueAt[h] < 0
    <3>. SUFFICES ASSUME NEW h \in Pending \ handed PROVE currentTime - DueAt[h] < 0
      BY RunningIsPending
    <3>1. DueAt[h] = expireTime[wheelHandle[h]] /\ wheelHandle[h] \in Wheel!Live
      BY PendingTimer DEF DueAt, Pending
    <3>2. DueAt[h] \in Nat /\ currentTime \in Nat
      BY <3>1, PendingTimer, WheelTypes DEF IInv
    <3>. QED
      BY <2>2, <3>1, <3>2
  <2>4. DueAt' = DueAt
    BY <2>1 DEF DueAt, Pending, Wheel!Vacant
  <2>5. Service!Advance
    BY <2>1, <2>3, <2>4 DEF Service!Advance, DueAt, Wheel!Vacant
  <2>. QED
    BY <2>5 DEF Service!Next
<1>2. ASSUME NEW l \in Wheel!Levels, ExpireLevel(l)
      PROVE  [Service!Next]_(Service!vars)
  <2>. DEFINE due == Wheel!Due(l)
              S == {context[k] : k \in due}
  <2>1. /\ due \subseteq Wheel!Live /\ due \subseteq Keys
        /\ \A k \in due : expireTime[k] <= currentTime
    BY LinkedIsLive DEF IInv, Wheel!Due, Wheel!Live
  <2>2. /\ UNCHANGED <<currentTime, entry, wheelHandle>>
        /\ handed' = handed \cup S
        /\ expireTime' = [k \in Keys |-> IF k \in due THEN Wheel!Vacant ELSE expireTime[k]]
    BY <1>2 DEF ExpireLevel, Wheel!ProcessLevel
  <2>. HIDE DEF due
  <2>3. Pending' = Pending
    BY <2>2 DEF Pending
  <2>4. S \subseteq Pending \ handed /\ \A k \in due : wheelHandle[context[k]] = k
    BY <2>1 DEF IInv, HandlesAgree
  <2>5. \A h \in Pending \ handed' : expireTime'[wheelHandle[h]] = expireTime[wheelHandle[h]]
    <3>. SUFFICES ASSUME NEW h \in Pending \ handed'
                  PROVE  expireTime'[wheelHandle[h]] = expireTime[wheelHandle[h]]
      OBVIOUS
    <3>1. wheelHandle[h] \in Wheel!Live /\ context[wheelHandle[h]] = h
      BY <2>2 DEF IInv, HandlesAgree
    <3>2. wheelHandle[h] \notin due /\ wheelHandle[h] \in Keys
      BY <2>2, <3>1 DEF Wheel!Live
    <3>. QED
      BY <2>2, <3>2
  <2>6. CASE S = {}
    BY <2>2, <2>3, <2>5, <2>6, SameService
  <2>7. CASE S # {}
    <3>1. PICK T \in SUBSET Handles : T = S
      BY <2>4 DEF Pending
    <3>. HIDE DEF S
    <3>2. T \subseteq Pending \ handed /\ T # {}
      BY <2>4, <2>7, <3>1
    <3>3. \A h \in T : h \in Service!Running /\ DueAt[h] <= currentTime
      BY <2>1, <2>4, <3>1, <3>2, RunningIsPending DEF DueAt, Pending, S
    <3>4. DueAt' = [h \in Handles |-> IF h \in T THEN Wheel!Vacant ELSE DueAt[h]]
      BY <2>2, <2>3, <2>5, <3>1 DEF DueAt, Wheel!Vacant
    <3>5. Service!Fire(T)
      BY <2>2, <3>2, <3>3, <3>4 DEF Service!Fire, DueAt, Wheel!Vacant, Service!Vacant
    <3>. QED
      BY <3>5 DEF Service!Next
  <2>. QED
    BY <2>6, <2>7
<1>. QED
  BY <1>1, <1>2

LEMMA OtherServes ==
    ASSUME IInv, RunCoroutine \/ Resume \/ Suspend \/ Event \/ PassTime \/ UNCHANGED vars
    PROVE  UNCHANGED Service!vars
<1>1. CASE RunCoroutine
  <2>1. /\ UNCHANGED <<currentTime, expireTime>> /\ handed' = {}
        /\ \A h \in Handles \ handed : wheelHandle'[h] = wheelHandle[h]
    BY <1>1 DEF RunCoroutine, MarkReady, wheelVars
  <2>2. Pending' = Pending \ handed
    BY <1>1 DEF RunCoroutine, MarkReady, Pending, InUse, IInv, SlabTypes
  <2>. QED
    BY <2>1, <2>2, SameService DEF Pending
<1>2. CASE Resume
  <2>1. /\ UNCHANGED <<currentTime, expireTime, entry, wheelHandle>>
        /\ handed' = {} /\ handed = {}
    BY <1>2 DEF Resume, BeginExpire, wheelVars, slabVars, IInv, Progress
  <2>. QED
    BY <2>1, SameService DEF Pending
<1>3. CASE Suspend \/ Event \/ PassTime \/ UNCHANGED vars
  <2>1. UNCHANGED <<currentTime, expireTime, entry, wheelHandle, handed>>
    BY <1>3 DEF Suspend, Event, PassTime, vars, timerVars, wheelVars, slabVars, expireVars
  <2>. QED
    BY <2>1, SameService DEF Pending
<1>. QED
  BY <1>1, <1>2, <1>3

(* Sleeps within the range of the wheel's first level: the node's timers   *)
(* are perfect timers.  The tick of a timer's expire_time does not pass    *)
(* without the wheel handing it out, once and to its own sleep.            *)
THEOREM NodeTimersArePerfect ==
    ASSUME NumLevels > 1, MaxDelta < NumSlots
    PROVE  Spec => ImplementsPerfectTimers
<1>1. Init => Service!Init
  BY DEF Init, InitTimers, Wheel!Init, Service!Init, Pending, Wheel!Vacant, Service!Vacant
<1>2. IInv /\ Short /\ [Next]_vars => [Service!Next]_(Service!vars)
  BY SleepServes, DropSleepServes, ExpireServes, OtherServes DEF Next
<1>. QED
  BY <1>1, <1>2, ShortSleepsInv, PTL DEF Spec, ImplementsPerfectTimers, Service!Spec
====
