---- MODULE TimerWheelProofs ----
(***************************************************************************)
(* Proofs about TimerWheel, for any number of levels, slots and timers.    *)
(***************************************************************************)
EXTENDS TimerWheel, TLAPS, WellFoundedInduction

-----------------------------------------------------------------------------
(* Arithmetic of the levels. *)

\* Every non-empty set of naturals has a least element: induction in the form
\* used below.
LEMMA LeastElement ==
    ASSUME NEW T, T \subseteq Nat, T # {}
    PROVE  \E m \in T : \A n \in T : m <= n
<1>1. PICK x \in T : \A y \in T : ~ (<<y, x>> \in OpToRel(<, Nat))
  BY NatLessThanWellFounded, WFMin
<1>2. \A y \in T : ~ (y < x)
  BY <1>1 DEF OpToRel
<1>. QED
  BY <1>2

\* Quotient and remainder, for divisors that are not numerals.
LEMMA DivMod ==
    ASSUME NEW a \in Int, NEW b \in Nat \ {0}
    PROVE  /\ a \div b \in Int
           /\ a % b \in 0 .. b - 1
           /\ a = b * (a \div b) + (a % b)
OBVIOUS

\* They are the only ones.
LEMMA DivModUnique ==
    ASSUME NEW b \in Nat \ {0}, NEW q \in Int, NEW r \in 0 .. b - 1
    PROVE  (b * q + r) \div b = q /\ (b * q + r) % b = r
<1> DEFINE a == b * q + r
<1>1. a \in Int
  OBVIOUS
<1>2. /\ a \div b \in Int
      /\ a % b \in 0 .. b - 1
      /\ a = b * (a \div b) + (a % b)
  BY <1>1, DivMod
<1> DEFINE d == a \div b
           m == a % b
<1>3. d \in Int /\ m \in 0 .. b - 1 /\ b * q + r = b * d + m
  BY <1>2
<1> HIDE DEF d, m
<1>4. CASE q < d
  <2>1. b * d >= b * (q + 1)
    BY <1>3, <1>4
  <2>2. b * (q + 1) = b * q + b
    OBVIOUS
  <2>. QED
    BY <1>3, <2>1, <2>2
<1>5. CASE d < q
  <2>1. b * q >= b * (d + 1)
    BY <1>3, <1>5
  <2>2. b * (d + 1) = b * d + b
    BY <1>3
  <2>. QED
    BY <1>3, <2>1, <2>2
<1>6. CASE d = q
  BY <1>3, <1>6 DEF d, m
<1>. QED
  BY <1>3, <1>4, <1>5, <1>6

\* A counter of ticks moves on at the multiples of its span only.
LEMMA DivOfPrevious ==
    ASSUME NEW t \in Int, NEW b \in Nat \ {0}
    PROVE  (t - 1) \div b = IF t % b = 0 THEN t \div b - 1 ELSE t \div b
<1> DEFINE d == t \div b
           m == t % b
<1>1. d \in Int /\ m \in 0 .. b - 1 /\ t = b * d + m
  BY DivMod
<1> HIDE DEF d, m
<1>2. CASE m = 0
  <2>1. t - 1 = b * (d - 1) + (b - 1)
    <3>1. b * (d - 1) = b * d - b
      BY <1>1
    <3>. QED
      BY <1>1, <1>2, <3>1
  <2>2. d - 1 \in Int /\ b - 1 \in 0 .. b - 1
    BY <1>1
  <2>3. (b * (d - 1) + (b - 1)) \div b = d - 1
    BY <2>2, DivModUnique
  <2>. QED
    BY <1>2, <2>1, <2>3 DEF d, m
<1>3. CASE m # 0
  <2>1. t - 1 = b * d + (m - 1) /\ m - 1 \in 0 .. b - 1
    BY <1>1, <1>3
  <2>2. (b * d + (m - 1)) \div b = d
    BY <1>1, <2>1, DivModUnique
  <2>. QED
    BY <1>3, <2>1, <2>2 DEF d, m
<1>. QED
  BY <1>2, <1>3

\* Digit by digit: t is a multiple of n * b if it is one of b and its quotient
\* is one of n.
LEMMA ModOfProduct ==
    ASSUME NEW t \in Int, NEW b \in Nat \ {0}, NEW n \in Nat \ {0}
    PROVE  t % (n * b) = 0 <=> t % b = 0 /\ (t \div b) % n = 0
<1> DEFINE q == t \div b
           m == t % b
           e == q \div n
           k == q % n
           c == n * b
<1>1. q \in Int /\ m \in 0 .. b - 1 /\ t = b * q + m
  BY DivMod
<1>2. e \in Int /\ k \in 0 .. n - 1 /\ q = n * e + k
  BY <1>1, DivMod
<1>3. c \in Nat \ {0}
  OBVIOUS
<1> HIDE DEF q, m, e, k
<1>4. b * q = c * e + b * k
  <2>1. b * (n * e + k) = b * (n * e) + b * k
    BY <1>2
  <2>2. b * (n * e) = c * e
    BY <1>2
  <2>. QED
    BY <1>2, <2>1, <2>2
<1>5. b * k + m \in 0 .. c - 1
  <2>1. b * k >= 0 /\ b * k <= b * (n - 1)
    BY <1>2
  <2>2. b * (n - 1) = c - b
    OBVIOUS
  <2>3. b * k \in Int
    BY <1>2
  <2> HIDE DEF c
  <2>. QED
    BY <1>1, <1>3, <2>1, <2>2, <2>3
<1>6. t % c = b * k + m
  <2>1. t = c * e + (b * k + m)
    <3>1. b * k \in Int /\ c * e \in Int /\ b * q \in Int
      BY <1>1, <1>2, <1>3
    <3>. QED
      BY <1>1, <1>4, <3>1
  <2> HIDE DEF c
  <2>. QED
    BY <1>2, <1>3, <1>5, <2>1, DivModUnique
<1>7. b * k + m = 0 <=> m = 0 /\ k = 0
  <2>1. k # 0 => b * k >= b
    BY <1>2
  <2>2. b * k \in Nat
    BY <1>2
  <2>3. k = 0 => b * k = 0
    BY <1>2
  <2>. QED
    BY <1>1, <1>2, <2>1, <2>2, <2>3
<1>. QED
  BY <1>6, <1>7 DEF q, m, k, e
\* A slot of every level covers a positive number of ticks.
LEMMA SpanPositive == \A l \in 0 .. NumLevels : Span(l) \in Nat \ {0}
<1>. DEFINE Bad == {l \in 0 .. NumLevels : Span(l) \notin Nat \ {0}}
<1>1. SUFFICES ASSUME Bad # {} PROVE FALSE
  OBVIOUS
<1>2. PICK m \in Bad : \A n \in Bad : m <= n
  <2>1. Bad \subseteq Nat
    BY WheelAssumption
  <2>. QED
    BY <1>1, <2>1, LeastElement
<1>3. m # 0
  BY <1>2, SpanAssumption
<1>4. m - 1 \in Levels /\ m - 1 \notin Bad
  BY <1>2, <1>3, WheelAssumption DEF Levels
<1>5. Span(m - 1) \in Nat \ {0} /\ Span((m - 1) + 1) = NumSlots * Span(m - 1)
  BY <1>4, SpanAssumption, WheelAssumption DEF Levels
<1>6. (m - 1) + 1 = m
  BY <1>2, WheelAssumption
<1>7. NumSlots * Span(m - 1) \in Nat \ {0}
  <2>. DEFINE x == Span(m - 1)
  <2>1. x \in Nat \ {0}
    BY <1>5
  <2>. HIDE DEF x
  <2>2. NumSlots * x \in Nat \ {0}
    BY <2>1, WheelAssumption
  <2>. QED
    BY <2>2 DEF x
<1>. QED
  BY <1>2, <1>5, <1>6, <1>7

\* start_timer_unchecked finds a level for every delta: the first that fits.
LEMMA LevelForChoice ==
    ASSUME NEW delta \in Nat
    PROVE  /\ LevelFor(delta) \in Levels
           /\ delta < Span(LevelFor(delta) + 1) \/ LevelFor(delta) = NumLevels - 1
           /\ \A j \in 0 .. LevelFor(delta) - 1 : delta >= Span(j + 1)
<1>. DEFINE T == {l \in Levels : delta < Span(l + 1) \/ l = NumLevels - 1}
<1>1. T \subseteq Nat /\ T # {}
  <2>1. NumLevels - 1 \in Levels /\ Levels \subseteq Nat
    BY WheelAssumption DEF Levels
  <2>. QED
    BY <2>1
<1>2. PICK m \in T : \A n \in T : m <= n
  BY <1>1, LeastElement
<1>3. ASSUME NEW j \in 0 .. m - 1 PROVE delta >= Span(j + 1)
  <2>1. j \in Levels /\ j \notin T /\ j + 1 \in 0 .. NumLevels
    BY <1>2, WheelAssumption DEF Levels
  <2>. QED
    BY <2>1, SpanPositive
<1>4. \E l \in Levels :
          /\ delta < Span(l + 1) \/ l = NumLevels - 1
          /\ \A j \in 0 .. l - 1 : delta >= Span(j + 1)
  BY <1>2, <1>3
<1>. QED
  BY <1>4, Zenon DEF LevelFor

\* A timer is always placed in a slot that exists.
LEMMA PlaceType ==
    ASSUME NEW delta \in Nat, position \in [Levels -> Slots]
    PROVE  Place(delta) \in Levels \X Slots
<1>. DEFINE l == LevelFor(delta)
<1>0. l \in Levels
  BY LevelForChoice
<1>. HIDE DEF l
<1>1. l \in Levels /\ Span(l) \in Nat \ {0} /\ position[l] \in Nat
  <2>1. l \in 0 .. NumLevels
    BY <1>0, WheelAssumption DEF Levels
  <2>. QED
    BY <1>0, <2>1, SpanPositive, WheelAssumption DEF Slots
<1>2. delta \div Span(l) \in Nat
  <2>. DEFINE s == Span(l)
  <2>1. s \in Nat \ {0}
    BY <1>1
  <2>. HIDE DEF s
  <2>2. delta \div s \in Nat
    BY <2>1
  <2>. QED
    BY <2>2 DEF s
<1>3. SlotFor(l, delta) \in Slots
  <2>. DEFINE d == delta \div Span(l)
  <2>1. d \in Nat
    BY <1>2
  <2>. HIDE DEF d
  <2>2. SaturatingPred(position[l] + d) \in Nat
    BY <1>1, <2>1 DEF SaturatingPred
  <2>3. SaturatingPred(position[l] + d) % NumSlots \in Slots
    BY <2>2, WheelAssumption DEF Slots
  <2>4. (position[l] + NumSlots - 1) % NumSlots \in Slots
    BY <1>1, WheelAssumption DEF Slots
  <2>. QED
    BY <2>3, <2>4 DEF SlotFor, d
<1>. QED
  BY <1>1, <1>3 DEF Place, l

-----------------------------------------------------------------------------
(* Types. *)

LEMMA InitTypeOK == Init => TypeOK
BY WheelAssumption DEF Init, TypeOK, Levels, Slots, Vacant, Idle

LEMMA InsertTypeOK ==
    ASSUME TypeOK, NEW k \in Keys, NEW delta \in Nat, Insert(k, delta)
    PROVE  TypeOK'
<1>1. Place(delta) \in Levels \X Slots
  BY PlaceType DEF TypeOK
<1>2. slots' \in [Levels \X Slots -> SUBSET Keys]
  BY <1>1 DEF TypeOK, Insert
<1>3. expireTime' \in [Keys -> Nat \cup {Vacant}]
  BY DEF TypeOK, Insert
<1>. QED
  BY <1>2, <1>3 DEF TypeOK, Insert

LEMMA ProcessLevelTypeOK ==
    ASSUME TypeOK, NEW l \in Levels, ProcessLevel(l)
    PROVE  TypeOK'
<1>1. position' \in [Levels -> Slots]
  <2>1. (position[l] + 1) % NumSlots \in Slots
    BY WheelAssumption DEF TypeOK, Slots
  <2>. QED
    BY <2>1 DEF TypeOK, ProcessLevel, NextPosition
<1>2. slots' \in [Levels \X Slots -> SUBSET Keys]
  <2>1. <<l, position[l]>> \in Levels \X Slots
    BY DEF TypeOK
  <2>2. \A q : Relinked(l, q) \subseteq Keys
    BY <2>1 DEF TypeOK, Relinked, Detached
  <2>. QED
    BY <2>2 DEF TypeOK, ProcessLevel
<1>3. expireTime' \in [Keys -> Nat \cup {Vacant}]
  BY DEF TypeOK, ProcessLevel
<1>4. cascade' \in 0 .. NumLevels
  BY WheelAssumption DEF TypeOK, ProcessLevel, CascadeTo, Levels, Idle
<1>. QED
  BY <1>1, <1>2, <1>3, <1>4 DEF TypeOK, ProcessLevel

LEMMA NextTypeOK == TypeOK /\ [Next]_vars => TypeOK'
<1>. SUFFICES ASSUME TypeOK, [Next]_vars PROVE TypeOK'
  OBVIOUS
<1>1. ASSUME NEW k \in Keys, NEW i \in Intervals, StartTimer(k, i)
      PROVE  TypeOK'
  BY <1>1, InsertTypeOK, WheelAssumption DEF StartTimer
<1>2. ASSUME NEW k \in Keys, NEW i \in Intervals,
             StartTimerAbsolute(k, currentTime + i)
      PROVE  TypeOK'
  <2>. DEFINE d == (currentTime + i) - currentTime
  <2>1. d \in Nat
    BY WheelAssumption DEF TypeOK
  <2>2. Insert(k, d)
    BY <1>2 DEF StartTimerAbsolute
  <2>. HIDE DEF d
  <2>. QED
    BY <2>1, <2>2, InsertTypeOK
<1>3. ASSUME NEW k \in Keys, StopTimer(k) PROVE TypeOK'
  BY <1>3 DEF StopTimer, TypeOK, Vacant
<1>4. ASSUME BeginTick PROVE TypeOK'
  BY <1>4, WheelAssumption DEF BeginTick, TypeOK
<1>5. ASSUME NEW l \in Levels, ProcessLevel(l) PROVE TypeOK'
  BY <1>5, ProcessLevelTypeOK
<1>6. ASSUME UNCHANGED vars PROVE TypeOK'
  BY <1>6 DEF vars, TypeOK
<1>. QED
  BY <1>1, <1>2, <1>3, <1>4, <1>5, <1>6 DEF Next

\* The variables of the wheel keep their types: positions stay inside the
\* levels, so no slot index computed by the code is out of bounds.
THEOREM TypeCorrect == Spec => []TypeOK
BY InitTypeOK, NextTypeOK, PTL DEF Spec

-----------------------------------------------------------------------------
(* Slab and lists. *)

LEMMA InsertOneSlot ==
    ASSUME TypeOK, OneSlotPerTimer,
           NEW k \in Keys, NEW delta \in Nat, Insert(k, delta)
    PROVE  OneSlotPerTimer'
<1>. DEFINE p == Place(delta)
<1>1. p \in Levels \X Slots
  BY PlaceType DEF TypeOK
<1>. HIDE DEF p
<1>2. slots' = [slots EXCEPT ![p] = @ \cup {k}]
  BY DEF Insert, p
<1>3. Live' = Live \cup {k}
  BY WheelAssumption DEF Insert, Live, TypeOK, Vacant
<1>4. \A q \in Levels \X Slots :
          slots'[q] = IF q = p THEN slots[q] \cup {k} ELSE slots[q]
  BY <1>1, <1>2 DEF TypeOK
<1>5. \A q \in Levels \X Slots : k \notin slots[q]
  BY DEF Insert, OneSlotPerTimer
<1>6. \A q \in Levels \X Slots : slots'[q] \subseteq Live'
  <2>1. \A q \in Levels \X Slots : slots[q] \subseteq Live
    BY DEF OneSlotPerTimer
  <2>. QED
    BY <1>3, <1>4, <2>1
<1>7. \A j \in Live' : \E q \in Levels \X Slots : j \in slots'[q]
  <2>1. k \in slots'[p]
    BY <1>1, <1>4
  <2>2. \A j \in Live : \E q \in Levels \X Slots : j \in slots'[q]
    BY <1>4 DEF OneSlotPerTimer
  <2>. QED
    BY <1>1, <1>3, <2>1, <2>2
<1>8. ASSUME NEW q \in Levels \X Slots, NEW r \in Levels \X Slots,
             NEW j, j \in slots'[q], j \in slots'[r]
      PROVE  q = r
  <2>1. CASE j = k
    BY <1>4, <1>5, <1>8, <2>1
  <2>2. CASE j # k
    <3>1. j \in slots[q] /\ j \in slots[r]
      BY <1>4, <1>8, <2>2
    <3>. QED
      BY <3>1 DEF OneSlotPerTimer
  <2>. QED
    BY <2>1, <2>2
<1>. QED
  BY <1>6, <1>7, <1>8 DEF OneSlotPerTimer

LEMMA StopTimerOneSlot ==
    ASSUME TypeOK, OneSlotPerTimer, NEW k \in Keys, StopTimer(k)
    PROVE  OneSlotPerTimer'
<1>1. Live' = Live \ {k}
  BY DEF StopTimer, Live, TypeOK, Vacant
<1>2. \A q \in Levels \X Slots : slots'[q] = slots[q] \ {k}
  BY DEF StopTimer
<1>. QED
  BY <1>1, <1>2 DEF OneSlotPerTimer

\* The timers detached from the processed slot are split between the caller
\* (the due ones) and exactly one slot each.
LEMMA ProcessLevelOneSlot ==
    ASSUME TypeOK, OneSlotPerTimer, NEW l \in Levels, ProcessLevel(l)
    PROVE  OneSlotPerTimer'
<1>. DEFINE here == <<l, position[l]>>
            goes(k) == Place(expireTime[k] - currentTime)
<1>1. here \in Levels \X Slots
  BY DEF TypeOK
<1>2. Detached(l) = slots[here] /\ Due(l) \subseteq Detached(l)
  BY DEF Detached, Due
<1>3. Live' = Live \ Due(l)
  BY DEF ProcessLevel, Live, TypeOK, Vacant
<1>4. \A q \in Levels \X Slots :
          slots'[q] = (IF q = here THEN {} ELSE slots[q]) \cup Relinked(l, q)
  BY DEF ProcessLevel
<1>5. \A q : Relinked(l, q) = {k \in Detached(l) \ Due(l) : goes(k) = q}
  BY DEF Relinked
<1>6. \A k \in Detached(l) \ Due(l) : goes(k) \in Levels \X Slots
  <2>. SUFFICES ASSUME NEW k \in Detached(l) \ Due(l)
                PROVE  goes(k) \in Levels \X Slots
    OBVIOUS
  <2>1. k \in Live
    BY <1>1, <1>2 DEF OneSlotPerTimer
  <2>2. ~ (expireTime[k] <= currentTime)
    BY DEF Due
  <2>3. expireTime[k] - currentTime \in Nat
    BY <2>1, <2>2 DEF TypeOK, Live, Vacant
  <2>. QED
    BY <2>3, PlaceType DEF TypeOK
<1>. HIDE DEF goes, here
<1>7. \A q \in Levels \X Slots : slots'[q] \subseteq Live'
  <2>1. \A q \in Levels \X Slots : slots[q] \subseteq Live
    BY DEF OneSlotPerTimer
  <2>2. \A q \in Levels \X Slots : q # here => slots[q] \cap Due(l) = {}
    BY <1>1, <1>2 DEF OneSlotPerTimer
  <2>. QED
    BY <1>1, <1>2, <1>3, <1>4, <1>5, <2>1, <2>2
<1>8. \A k \in Live' : \E q \in Levels \X Slots : k \in slots'[q]
  <2>. SUFFICES ASSUME NEW k \in Live'
                PROVE  \E q \in Levels \X Slots : k \in slots'[q]
    OBVIOUS
  <2>1. PICK q \in Levels \X Slots : k \in slots[q]
    BY <1>3 DEF OneSlotPerTimer
  <2>2. CASE q = here
    <3>1. k \in Detached(l) \ Due(l)
      BY <1>2, <1>3, <2>1, <2>2
    <3>. QED
      BY <1>4, <1>5, <1>6, <3>1
  <2>3. CASE q # here
    BY <1>4, <2>1, <2>3
  <2>. QED
    BY <2>2, <2>3
<1>9. \A q, r \in Levels \X Slots : slots'[q] \cap slots'[r] # {} => q = r
  <2>1. \A q, r \in Levels \X Slots : slots[q] \cap slots[r] # {} => q = r
    BY DEF OneSlotPerTimer
  <2>. QED
    BY <1>1, <1>2, <1>4, <1>5, <2>1
<1>. QED
  BY <1>7, <1>8, <1>9 DEF OneSlotPerTimer

LEMMA NextOneSlot == TypeOK /\ OneSlotPerTimer /\ [Next]_vars => OneSlotPerTimer'
<1>. SUFFICES ASSUME TypeOK, OneSlotPerTimer, [Next]_vars PROVE OneSlotPerTimer'
  OBVIOUS
<1>1. ASSUME NEW k \in Keys, NEW i \in Intervals, StartTimer(k, i)
      PROVE  OneSlotPerTimer'
  BY <1>1, InsertOneSlot, WheelAssumption DEF StartTimer
<1>2. ASSUME NEW k \in Keys, NEW i \in Intervals,
             StartTimerAbsolute(k, currentTime + i)
      PROVE  OneSlotPerTimer'
  <2>. DEFINE d == (currentTime + i) - currentTime
  <2>1. d \in Nat
    BY WheelAssumption DEF TypeOK
  <2>2. Insert(k, d)
    BY <1>2 DEF StartTimerAbsolute
  <2>. HIDE DEF d
  <2>. QED
    BY <2>1, <2>2, InsertOneSlot
<1>3. ASSUME NEW k \in Keys, StopTimer(k) PROVE OneSlotPerTimer'
  BY <1>3, StopTimerOneSlot
<1>4. ASSUME BeginTick PROVE OneSlotPerTimer'
  BY <1>4 DEF BeginTick, OneSlotPerTimer, Live
<1>5. ASSUME NEW l \in Levels, ProcessLevel(l) PROVE OneSlotPerTimer'
  BY <1>5, ProcessLevelOneSlot
<1>6. ASSUME UNCHANGED vars PROVE OneSlotPerTimer'
  BY <1>6 DEF vars, OneSlotPerTimer, Live
<1>. QED
  BY <1>1, <1>2, <1>3, <1>4, <1>5, <1>6 DEF Next

\* Whatever sequence of starts, stops and ticks the wheel goes through, the
\* slab and the slot lists agree: each running timer is linked exactly once.
THEOREM OneSlotAlways == Spec => []OneSlotPerTimer
<1>1. Init => OneSlotPerTimer
  BY DEF Init, OneSlotPerTimer, Live
<1>. QED
  BY <1>1, InitTypeOK, NextTypeOK, NextOneSlot, PTL DEF Spec

-----------------------------------------------------------------------------
(* Level 0 is exact.  A wheel of one level parks timers beyond its range in  *)
(* level 0 too, so the statement needs a second level.                       *)

\* The slot chosen for a delta within level 0 is delta - 1 slots ahead.
LEMMA OffsetOfPlaced ==
    ASSUME NEW p \in Slots, NEW d \in 1 .. NumSlots - 1
    PROVE  (((p + d - 1) % NumSlots) - p) % NumSlots = d - 1
<1>1. (p + d - 1) % NumSlots =
          IF p + d - 1 >= NumSlots THEN p + d - 1 - NumSlots ELSE p + d - 1
  BY WheelAssumption DEF Slots
<1>2. CASE p + d - 1 >= NumSlots
  <2>1. (((p + d - 1) % NumSlots) - p) = d - 1 - NumSlots
    BY <1>1, <1>2, WheelAssumption DEF Slots
  <2>2. (d - 1 - NumSlots) % NumSlots = d - 1
    BY WheelAssumption
  <2>. QED
    BY <2>1, <2>2
<1>3. CASE ~ (p + d - 1 >= NumSlots)
  <2>1. (((p + d - 1) % NumSlots) - p) = d - 1
    BY <1>1, <1>3, WheelAssumption DEF Slots
  <2>2. (d - 1) % NumSlots = d - 1
    BY WheelAssumption
  <2>. QED
    BY <2>1, <2>2
<1>. QED
  BY <1>2, <1>3

\* Advancing a position brings every other slot one step closer.
LEMMA OffsetAfterAdvance ==
    ASSUME NEW p \in Slots, NEW s \in Slots
    PROVE  /\ (s - p) % NumSlots \in Slots
           /\ s = p => (s - p) % NumSlots = 0
           /\ s # p => (s - ((p + 1) % NumSlots)) % NumSlots
                           = ((s - p) % NumSlots) - 1
<1>1. (p + 1) % NumSlots = IF p + 1 = NumSlots THEN 0 ELSE p + 1
  BY WheelAssumption DEF Slots
<1>2. (s - p) % NumSlots = IF s >= p THEN s - p ELSE s - p + NumSlots
  BY WheelAssumption DEF Slots
<1>3. ASSUME s # p
      PROVE  (s - ((p + 1) % NumSlots)) % NumSlots = ((s - p) % NumSlots) - 1
  <2>1. CASE p + 1 = NumSlots
    <3>1. s % NumSlots = s
      BY WheelAssumption DEF Slots
    <3>. QED
      BY <1>1, <1>2, <1>3, <2>1, <3>1, WheelAssumption DEF Slots
  <2>2. CASE p + 1 # NumSlots
    <3>1. (s - (p + 1)) % NumSlots =
              IF s >= p + 1 THEN s - (p + 1) ELSE s - (p + 1) + NumSlots
      BY <2>2, WheelAssumption DEF Slots
    <3>. QED
      BY <1>1, <1>2, <1>3, <2>2, <3>1, WheelAssumption DEF Slots
  <2>. QED
    BY <2>1, <2>2
<1>. QED
  BY <1>2, <1>3, WheelAssumption DEF Slots

\* What start_timer_unchecked puts in level 0 is due within the level, and
\* goes to the slot of its tick.
LEMMA PlacedInLevelZero ==
    ASSUME NumLevels > 1, TypeOK, NEW d \in Nat \ {0}, NEW s \in Slots,
           Place(d) = <<0, s>>
    PROVE  d = Offset(0, s) + 1
<1>1. LevelFor(d) = 0 /\ s = SlotFor(0, d)
  BY DEF Place
<1>2. Span(0) = 1 /\ Span(0 + 1) = NumSlots
  <2>1. 0 \in Levels
    BY WheelAssumption DEF Levels
  <2>. QED
    BY <2>1, SpanAssumption, WheelAssumption
<1>3. d < NumSlots /\ d < Span(0 + 1)
  <2>1. d < Span(LevelFor(d) + 1) \/ LevelFor(d) = NumLevels - 1
    BY LevelForChoice
  <2>. QED
    BY <1>1, <1>2, <2>1, WheelAssumption
<1>4. position[0] \in Slots
  BY WheelAssumption DEF TypeOK, Levels
<1>5. s = (position[0] + d - 1) % NumSlots
  <2>1. d \div Span(0) = d
    BY <1>2
  <2>2. SaturatingPred(position[0] + d) = position[0] + d - 1
    BY <1>4, WheelAssumption DEF SaturatingPred, Slots
  <2>. QED
    BY <1>1, <1>3, <2>1, <2>2 DEF SlotFor
<1>6. d \in 1 .. NumSlots - 1
  BY <1>3, WheelAssumption
<1>7. (s - position[0]) % NumSlots = d - 1
  BY <1>4, <1>5, <1>6, OffsetOfPlaced
<1>. QED
  BY <1>7 DEF Offset

\* LevelZeroExact, one timer at a time.
LevelZeroTimer(s, k) ==
    /\ expireTime[k] > LevelClock(0) =>
          expireTime[k] - LevelClock(0) = Offset(0, s) + 1
    /\ 0 \notin Intervals => expireTime[k] > LevelClock(0)

LEMMA InsertLevelZero ==
    ASSUME NumLevels > 1, TypeOK, OneSlotPerTimer, LevelZeroExact, cascade = Idle,
           NEW k \in Keys, NEW delta \in Nat, Insert(k, delta),
           0 \notin Intervals => delta > 0
    PROVE  LevelZeroExact'
<1>. DEFINE p == Place(delta)
<1>1. p \in Levels \X Slots
  BY PlaceType DEF TypeOK
<1>2. slots' = [slots EXCEPT ![p] = @ \cup {k}]
  BY DEF Insert
<1>3. \A s \in Slots : slots'[<<0, s>>] =
          IF <<0, s>> = p THEN slots[<<0, s>>] \cup {k} ELSE slots[<<0, s>>]
  <2>. HIDE DEF p
  <2>1. \A s \in Slots : <<0, s>> \in Levels \X Slots
    BY WheelAssumption DEF Levels
  <2>. QED
    BY <1>1, <1>2, <2>1 DEF TypeOK
<1>4. LevelClock(0) = currentTime /\ LevelClock(0)' = currentTime
  BY WheelAssumption DEF LevelClock, Idle, Insert
<1>5. \A s \in Slots : Offset(0, s)' = Offset(0, s)
  BY DEF Insert, Offset
<1>. SUFFICES ASSUME NEW s \in Slots, NEW j \in slots'[<<0, s>>]
              PROVE  LevelZeroTimer(s, j)'
  BY DEF LevelZeroExact, LevelZeroTimer
<1>6. CASE j = k
  <2>1. expireTime'[k] = currentTime + delta
    BY DEF Insert, TypeOK
  <2>2. k \notin slots[<<0, s>>]
    <3>1. <<0, s>> \in Levels \X Slots
      BY WheelAssumption DEF Levels
    <3>. QED
      BY <3>1 DEF Insert, OneSlotPerTimer
  <2>3. Place(delta) = <<0, s>>
    BY <1>3, <1>6, <2>2
  <2>4. currentTime \in Nat
    BY DEF TypeOK
  <2>5. delta > 0 => delta = Offset(0, s) + 1
    BY <2>3, PlacedInLevelZero
  <2>. QED
    BY <1>4, <1>5, <1>6, <2>1, <2>4, <2>5 DEF LevelZeroTimer
<1>7. CASE j # k
  <2>1. j \in slots[<<0, s>>]
    BY <1>3, <1>7
  <2>2. expireTime'[j] = expireTime[j]
    BY <1>7 DEF Insert, TypeOK
  <2>. QED
    BY <1>4, <1>5, <2>1, <2>2 DEF LevelZeroExact, LevelZeroTimer
<1>. QED
  BY <1>6, <1>7

\* Processing level 0 hands out its whole current slot: nothing is linked
\* again, and every other timer of the level comes one tick closer.
LEMMA ProcessLevelZero ==
    ASSUME NumLevels > 1, TypeOK, OneSlotPerTimer, LevelZeroExact, ProcessLevel(0)
    PROVE  LevelZeroExact'
<1>1. 0 \in Levels /\ position[0] \in Slots /\ currentTime \in Nat
  BY WheelAssumption DEF TypeOK, Levels
<1>. DEFINE p == position[0]
<1>2. LevelClock(0) = currentTime - 1 /\ LevelClock(0)' = currentTime
  BY WheelAssumption DEF LevelClock, ProcessLevel, CascadeTo, Idle
<1>3. \A s \in Slots : <<0, s>> \in Levels \X Slots
  BY <1>1
<1>4. \A s \in Slots : \A k \in slots[<<0, s>>] :
          k \in Keys /\ expireTime[k] \in Nat
  BY <1>3 DEF OneSlotPerTimer, Live, TypeOK, Vacant
<1>5. \A k \in slots[<<0, p>>] : expireTime[k] <= currentTime
  <2>1. Offset(0, p) = 0
    BY <1>1, OffsetAfterAdvance DEF Offset
  <2>. QED
    BY <1>1, <1>2, <1>4, <2>1 DEF LevelZeroExact
<1>6. Detached(0) \ Due(0) = {}
  BY <1>5 DEF Detached, Due
<1>7. \A q : Relinked(0, q) = {}
  BY <1>6 DEF Relinked
<1>8. \A s \in Slots : slots'[<<0, s>>] =
          IF s = p THEN {} ELSE slots[<<0, s>>]
  BY <1>3, <1>7 DEF ProcessLevel
<1>. SUFFICES ASSUME NEW s \in Slots, NEW k \in slots'[<<0, s>>]
              PROVE  LevelZeroTimer(s, k)'
  BY DEF LevelZeroExact, LevelZeroTimer
<1>9. s # p /\ k \in slots[<<0, s>>]
  BY <1>8
<1>10. expireTime'[k] = expireTime[k]
  <2>1. k \in Live'
    <3>1. OneSlotPerTimer'
      BY <1>1, ProcessLevelOneSlot
    <3>. QED
      BY <1>3, <3>1 DEF OneSlotPerTimer
  <2>. QED
    BY <1>4, <1>9, <2>1 DEF ProcessLevel, Live
<1>11. Offset(0, s)' = Offset(0, s) - 1 /\ Offset(0, s) \in Slots
  <2>1. position'[0] = (p + 1) % NumSlots
    BY <1>1 DEF ProcessLevel, NextPosition, TypeOK
  <2>. QED
    BY <1>1, <1>9, <2>1, OffsetAfterAdvance DEF Offset
<1>12. Offset(0, s) \in Nat /\ expireTime[k] \in Nat
  BY <1>4, <1>9, <1>11, WheelAssumption DEF Slots
<1>13. expireTime[k] > currentTime - 1 =>
          expireTime[k] = currentTime + Offset(0, s)
  BY <1>1, <1>2, <1>9, <1>12 DEF LevelZeroExact
<1>14. 0 \notin Intervals => expireTime[k] > currentTime - 1
  BY <1>2, <1>9 DEF LevelZeroExact
<1>15. Offset(0, s) # 0
  BY <1>1, <1>9, WheelAssumption DEF Offset, Slots
<1>. QED
  BY <1>1, <1>2, <1>10, <1>11, <1>12, <1>13, <1>14, <1>15 DEF LevelZeroTimer

\* Processing a coarser level only adds to level 0, at the slots of the ticks.
LEMMA ProcessCoarserLevel ==
    ASSUME NumLevels > 1, TypeOK, OneSlotPerTimer, LevelZeroExact,
           NEW l \in Levels, l # 0, ProcessLevel(l)
    PROVE  LevelZeroExact'
<1>1. 0 \in Levels /\ l > 0 /\ currentTime \in Nat
  BY WheelAssumption DEF TypeOK, Levels
<1>2. LevelClock(0) = currentTime /\ LevelClock(0)' = currentTime
  BY <1>1, WheelAssumption DEF LevelClock, ProcessLevel, CascadeTo, Idle, Levels
<1>3. \A s \in Slots : Offset(0, s)' = Offset(0, s)
  <2>1. position'[0] = position[0]
    BY <1>1 DEF ProcessLevel, TypeOK
  <2>. QED
    BY <2>1 DEF Offset
<1>4. \A s \in Slots : <<0, s>> \in Levels \X Slots
  BY <1>1
<1>5. \A s \in Slots : slots'[<<0, s>>] = slots[<<0, s>>] \cup Relinked(l, <<0, s>>)
  <2>1. \A s \in Slots : <<0, s>> # <<l, position[l]>>
    BY <1>1
  <2>. QED
    BY <1>4, <2>1 DEF ProcessLevel
<1>. SUFFICES ASSUME NEW s \in Slots, NEW k \in slots'[<<0, s>>]
              PROVE  LevelZeroTimer(s, k)'
  BY DEF LevelZeroExact, LevelZeroTimer
<1>6. k \in Live' /\ expireTime'[k] = expireTime[k] /\ expireTime[k] \in Nat
  <2>1. OneSlotPerTimer' /\ TypeOK'
    BY ProcessLevelOneSlot, ProcessLevelTypeOK
  <2>2. k \in Live'
    BY <1>4, <2>1 DEF OneSlotPerTimer
  <2>3. expireTime'[k] = expireTime[k]
    BY <2>2 DEF ProcessLevel, Live
  <2>. QED
    BY <2>1, <2>2, <2>3 DEF TypeOK, Live, Vacant
<1>7. CASE k \in slots[<<0, s>>]
  BY <1>2, <1>3, <1>6, <1>7 DEF LevelZeroExact, LevelZeroTimer
<1>8. CASE k \in Relinked(l, <<0, s>>)
  <2>. DEFINE d == expireTime[k] - currentTime
  <2>1. Place(d) = <<0, s>> /\ k \in Detached(l) \ Due(l)
    BY <1>8 DEF Relinked
  <2>2. d \in Nat \ {0}
    BY <1>1, <1>6, <2>1 DEF Due
  <2>3. d = Offset(0, s) + 1
    <3>. HIDE DEF d
    <3>. QED
      BY <2>1, <2>2, PlacedInLevelZero
  <2>. QED
    BY <1>1, <1>2, <1>3, <1>6, <2>2, <2>3 DEF LevelZeroTimer
<1>. QED
  BY <1>5, <1>7, <1>8

LEMMA NextLevelZero ==
    ASSUME NumLevels > 1, TypeOK, OneSlotPerTimer, LevelZeroExact, [Next]_vars
    PROVE  LevelZeroExact'
<1>1. ASSUME NEW k \in Keys, NEW i \in Intervals, StartTimer(k, i)
      PROVE  LevelZeroExact'
  BY <1>1, InsertLevelZero, WheelAssumption DEF StartTimer
<1>2. ASSUME NEW k \in Keys, NEW i \in Intervals,
             StartTimerAbsolute(k, currentTime + i)
      PROVE  LevelZeroExact'
  <2>. DEFINE d == (currentTime + i) - currentTime
  <2>1. d \in Nat /\ d > 0
    BY <1>2, WheelAssumption DEF TypeOK, StartTimerAbsolute
  <2>2. Insert(k, d) /\ cascade = Idle
    BY <1>2 DEF StartTimerAbsolute
  <2>. HIDE DEF d
  <2>. QED
    BY <2>1, <2>2, InsertLevelZero
<1>3. ASSUME NEW j \in Keys, StopTimer(j) PROVE LevelZeroExact'
  <2>1. \A s \in Slots : slots'[<<0, s>>] = slots[<<0, s>>] \ {j}
    BY <1>3, WheelAssumption DEF StopTimer, Levels
  <2>2. \A k : k # j /\ k \in Keys => expireTime'[k] = expireTime[k]
    BY <1>3 DEF StopTimer, TypeOK
  <2>3. LevelClock(0)' = LevelClock(0) /\ \A s \in Slots : Offset(0, s)' = Offset(0, s)
    BY <1>3 DEF StopTimer, LevelClock, Offset
  <2>4. \A s \in Slots : slots[<<0, s>>] \subseteq Keys
    BY WheelAssumption DEF TypeOK, Levels
  <2>. QED
    BY <2>1, <2>2, <2>3, <2>4 DEF LevelZeroExact
<1>4. ASSUME BeginTick PROVE LevelZeroExact'
  <2>1. LevelClock(0)' = LevelClock(0)
    BY <1>4, WheelAssumption DEF BeginTick, LevelClock, Idle, TypeOK
  <2>. QED
    BY <1>4, <2>1 DEF BeginTick, LevelZeroExact, Offset
<1>5. ASSUME NEW l \in Levels, ProcessLevel(l) PROVE LevelZeroExact'
  BY <1>5, ProcessLevelZero, ProcessCoarserLevel
<1>6. ASSUME UNCHANGED vars PROVE LevelZeroExact'
  BY <1>6 DEF vars, LevelZeroExact, LevelClock, Offset
<1>. QED
  BY <1>1, <1>2, <1>3, <1>4, <1>5, <1>6 DEF Next

\* In a wheel of at least two levels a timer that is in level 0 fires in the
\* very tick of its expire_time, whether it was started there or cascaded down;
\* the only exception is a timer started with interval 0.
THEOREM LevelZeroAlwaysExact ==
    ASSUME NumLevels > 1
    PROVE  Spec => []LevelZeroExact
<1>1. Init => LevelZeroExact
  BY WheelAssumption DEF Init, LevelZeroExact, Levels
<1>2. TypeOK /\ OneSlotPerTimer /\ LevelZeroExact /\ [Next]_vars => LevelZeroExact'
  BY NextLevelZero
<1>. QED
  BY <1>1, <1>2, TypeCorrect, OneSlotAlways, PTL DEF Spec

-----------------------------------------------------------------------------
(* The positions are the digits of the clock. *)

\* A multiple of a level's span is a multiple of the spans of finer levels.
LEMMA CoarserMultiple ==
    ASSUME NEW t \in Int, NEW i \in Levels, NEW l \in Levels, i <= l,
           t % Span(l) = 0
    PROVE  t % Span(i) = 0
<1>. DEFINE Multiples == {j \in i .. l : t % Span(j) = 0}
<1>1. Multiples \subseteq Nat /\ l \in Multiples /\ i \in Nat /\ l \in Nat
  BY WheelAssumption DEF Levels
<1>2. PICK m \in Multiples : \A n \in Multiples : m <= n
  BY <1>1, LeastElement
<1>3. CASE m = i
  BY <1>2, <1>3
<1>4. CASE m # i
  <2>1. m - 1 \in Levels /\ m - 1 \in i .. l /\ (m - 1) + 1 = m
    BY <1>1, <1>2, <1>4, WheelAssumption DEF Levels
  <2>2. Span(m - 1) \in Nat \ {0} /\ Span(m) = NumSlots * Span(m - 1)
    <3>1. m - 1 \in 0 .. NumLevels
      BY <2>1, WheelAssumption DEF Levels
    <3>2. Span((m - 1) + 1) = NumSlots * Span(m - 1)
      BY <2>1, SpanAssumption
    <3>. QED
      BY <2>1, <3>1, <3>2, SpanPositive
  <2>3. t % Span(m - 1) = 0
    <3>. DEFINE b == Span(m - 1)
    <3>1. b \in Nat \ {0} /\ t % (NumSlots * b) = 0
      BY <1>2, <2>2
    <3>. HIDE DEF b
    <3>2. t % b = 0
      BY <3>1, ModOfProduct, WheelAssumption
    <3>. QED
      BY <3>2 DEF b
  <2>4. m - 1 \in Multiples
    BY <2>1, <2>3
  <2>. QED
    BY <1>1, <1>2, <2>4
<1>. QED
  BY <1>3, <1>4

\* Where a level stands after it was processed at a multiple of its span.
LEMMA DigitAdvances ==
    ASSUME NEW q \in Int, NEW p \in Slots, p = (q - 1) % NumSlots
    PROVE  (p + 1) % NumSlots = q % NumSlots
<1>. DEFINE n == NumSlots
           d == (q - 1) \div n
<1>1. n \in Nat \ {0} /\ q - 1 \in Int
  BY WheelAssumption
<1>. HIDE DEF n
<1>2. d \in Int /\ p \in 0 .. n - 1 /\ q - 1 = n * d + p
  <2>1. /\ (q - 1) \div n \in Int
        /\ (q - 1) % n \in 0 .. n - 1
        /\ q - 1 = n * ((q - 1) \div n) + ((q - 1) % n)
    BY <1>1, DivMod
  <2>. QED
    BY <2>1 DEF n
<1>. HIDE DEF d
<1>3. CASE p + 1 = n
  <2>1. q = n * (d + 1) + 0
    <3>1. n * (d + 1) = n * d + n /\ n * d \in Int
      BY <1>1, <1>2
    <3>. QED
      BY <1>1, <1>2, <1>3, <3>1
  <2>2. q % n = 0
    <3>1. d + 1 \in Int /\ 0 \in 0 .. n - 1
      BY <1>1, <1>2
    <3>2. (n * (d + 1) + 0) % n = 0
      BY <1>1, <3>1, DivModUnique
    <3>. QED
      BY <2>1, <3>2
  <2>3. (p + 1) % n = 0
    BY <1>1, <1>3
  <2>. QED
    BY <2>2, <2>3 DEF n
<1>4. CASE p + 1 # n
  <2>1. q = n * d + (p + 1) /\ p + 1 \in 0 .. n - 1
    <3>1. n * d \in Int
      BY <1>1, <1>2
    <3>. QED
      BY <1>1, <1>2, <1>4, <3>1
  <2>2. q % n = p + 1
    <3>1. (n * d + (p + 1)) % n = p + 1
      BY <1>1, <1>2, <2>1, DivModUnique
    <3>. QED
      BY <2>1, <3>1
  <2>3. (p + 1) % n = p + 1
    BY <1>1, <2>1
  <2>. QED
    BY <2>2, <2>3 DEF n
<1>. QED
  BY <1>3, <1>4

\* Processing level l moves its clock on and leaves every other level's
\* quotient alone: either level l + 1 is still to come, or the tick is no
\* multiple of the spans above l.
LEMMA ClocksAfterProcess ==
    ASSUME TypeOK, PositionsTrackTime, NEW l \in Levels, ProcessLevel(l)
    PROVE  /\ currentTime % Span(l) = 0
           /\ LevelClock(l) = currentTime - 1
           /\ LevelClock(l)' = currentTime
           /\ NextPosition(position[l]) = (currentTime \div Span(l)) % NumSlots
           /\ cascade' \in Levels => currentTime % Span(cascade') = 0
           /\ \A j \in Levels \ {l} :
                LevelClock(j)' \div Span(j) = LevelClock(j) \div Span(j)
<1>. DEFINE t == currentTime
            q == t \div Span(l)
<1>0. /\ t \in Int /\ t' = t /\ l \in Nat /\ cascade = l
      /\ position[l] \in Slots
  BY WheelAssumption DEF TypeOK, ProcessLevel, Levels
<1>1. \A j \in Levels : j \in Nat /\ j < NumLevels /\ Span(j) \in Nat \ {0}
  BY SpanPositive, WheelAssumption DEF Levels
<1>2. t % Span(l) = 0
  BY <1>0 DEF PositionsTrackTime
<1>3. LevelClock(l) = t - 1
  BY <1>0 DEF LevelClock
<1>4. cascade' = CascadeTo(l, NextPosition(position[l]))
  BY DEF ProcessLevel
<1>5. LevelClock(l)' = t
  BY <1>0, <1>1, <1>4 DEF LevelClock, CascadeTo, Idle
<1>6. q \in Int /\ (t - 1) \div Span(l) = q - 1
  <2>. DEFINE b == Span(l)
  <2>1. b \in Nat \ {0} /\ t % b = 0
    BY <1>1, <1>2
  <2>. HIDE DEF b, t
  <2>2. t \div b \in Int /\ (t - 1) \div b = (t \div b) - 1
    BY <1>0, <2>1, DivMod, DivOfPrevious
  <2>. QED
    BY <2>2 DEF b
<1>. HIDE DEF q
<1>7. NextPosition(position[l]) = q % NumSlots
  <2>1. position[l] = (q - 1) % NumSlots
    BY <1>3, <1>6 DEF PositionsTrackTime
  <2>. QED
    BY <1>0, <1>6, <2>1, DigitAdvances DEF NextPosition
<1>8. ASSUME NEW m \in Levels, m = l + 1
      PROVE  t % Span(m) = 0 <=> NextPosition(position[l]) = 0
  <2>. DEFINE b == Span(l)
  <2>1. b \in Nat \ {0} /\ t % b = 0 /\ Span(m) = NumSlots * b
    BY <1>1, <1>2, <1>8, SpanAssumption
  <2>2. q = t \div b
    BY DEF q
  <2>. HIDE DEF b, t
  <2>3. t % (NumSlots * b) = 0 <=> (t \div b) % NumSlots = 0
    BY <1>0, <2>1, ModOfProduct, WheelAssumption
  <2>. QED
    BY <1>7, <2>1, <2>2, <2>3
<1>9. ASSUME cascade' \in Levels PROVE t % Span(cascade') = 0
  <2>1. cascade' = l + 1 /\ NextPosition(position[l]) = 0
    BY <1>1, <1>4, <1>9, WheelAssumption DEF CascadeTo, Idle, Levels
  <2>. QED
    BY <1>8, <1>9, <2>1
<1>10. ASSUME NEW j \in Levels \ {l}
       PROVE  LevelClock(j)' \div Span(j) = LevelClock(j) \div Span(j)
  <2>1. CASE j < l
    <3>1. LevelClock(j)' = t
      BY <1>0, <1>1, <1>4, <2>1 DEF LevelClock, CascadeTo, Idle
    <3>2. LevelClock(j) = t
      BY <1>0, <2>1 DEF LevelClock
    <3>. QED
      BY <3>1, <3>2
  <2>2. CASE j > l /\ cascade' = l + 1
    <3>1. LevelClock(j)' = t - 1 /\ LevelClock(j) = t - 1
      BY <1>0, <1>1, <2>2 DEF LevelClock
    <3>. QED
      BY <3>1
  <2>3. CASE j > l /\ cascade' # l + 1
    <3>1. l + 1 \in Levels /\ l + 1 <= j
      BY <1>0, <1>1, <2>3, WheelAssumption DEF Levels
    <3>2. NextPosition(position[l]) # 0 /\ cascade' = Idle
      BY <1>1, <1>4, <2>3, <3>1, WheelAssumption DEF CascadeTo, Levels
    <3>3. t % Span(l + 1) # 0
      BY <1>8, <3>1, <3>2
    <3>4. t % Span(j) # 0
      BY <1>0, <3>1, <3>3, CoarserMultiple
    <3>5. (t - 1) \div Span(j) = t \div Span(j)
      <4>. DEFINE b == Span(j)
      <4>1. b \in Nat \ {0} /\ t % b # 0
        BY <1>1, <3>4
      <4>. HIDE DEF b, t
      <4>2. (t - 1) \div b = t \div b
        BY <1>0, <4>1, DivOfPrevious
      <4>. QED
        BY <4>2 DEF b
    <3>6. LevelClock(j) = t - 1 /\ LevelClock(j)' = t
      BY <1>0, <1>1, <2>3, <3>2 DEF LevelClock, Idle
    <3>. QED
      BY <3>5, <3>6
  <2>4. j < l \/ j > l
    BY <1>0, <1>1
  <2>. QED
    BY <2>1, <2>2, <2>3, <2>4
<1>. QED
  BY <1>2, <1>3, <1>5, <1>7, <1>9, <1>10 DEF q

LEMMA NextPositions == TypeOK /\ PositionsTrackTime /\ [Next]_vars => PositionsTrackTime'
<1>. SUFFICES ASSUME TypeOK, PositionsTrackTime, [Next]_vars
              PROVE  PositionsTrackTime'
  OBVIOUS
<1>1. ASSUME UNCHANGED <<currentTime, position, cascade>> PROVE PositionsTrackTime'
  BY <1>1 DEF PositionsTrackTime, LevelClock
<1>2. ASSUME BeginTick PROVE PositionsTrackTime'
  <2>1. \A l \in Levels : LevelClock(l)' = LevelClock(l)
    BY <1>2, WheelAssumption DEF BeginTick, LevelClock, Idle, Levels, TypeOK
  <2>2. cascade' = 0 /\ currentTime' % Span(0) = 0
    BY <1>2, SpanAssumption DEF BeginTick, TypeOK
  <2>3. position' = position
    BY <1>2 DEF BeginTick
  <2>. QED
    BY <2>1, <2>2, <2>3 DEF PositionsTrackTime
<1>3. ASSUME NEW l \in Levels, ProcessLevel(l) PROVE PositionsTrackTime'
  <2>1. \A j \in Levels : position'[j] =
            IF j = l THEN NextPosition(position[l]) ELSE position[j]
    BY <1>3 DEF ProcessLevel, TypeOK
  <2>2. currentTime' = currentTime
    BY <1>3 DEF ProcessLevel
  <2>. QED
    BY <1>3, <2>1, <2>2, ClocksAfterProcess DEF PositionsTrackTime
<1>. QED
  BY <1>1, <1>2, <1>3 DEF Next, vars, StartTimer, StartTimerAbsolute, Insert, StopTimer

\* The positions are the digits of current_time in base NUM_SLOTS, and
\* process_level calls itself on the next level exactly at the carries.
THEOREM PositionsAlwaysTrackTime == Spec => []PositionsTrackTime
<1>1. Init => PositionsTrackTime
  <2>. SUFFICES ASSUME Init, NEW l \in Levels
                PROVE  position[l] = (LevelClock(l) \div Span(l)) % NumSlots
    BY WheelAssumption DEF Init, PositionsTrackTime, Levels, Idle
  <2>1. LevelClock(l) = 0 /\ position[l] = 0
    BY WheelAssumption DEF Init, LevelClock, Idle, Levels
  <2>2. 0 \div Span(l) = 0
    <3>. DEFINE b == Span(l)
    <3>1. b \in Nat \ {0}
      BY SpanPositive, WheelAssumption DEF Levels
    <3>. HIDE DEF b
    <3>2. 0 \div b = 0
      BY <3>1
    <3>. QED
      BY <3>2 DEF b
  <2>. QED
    BY <2>1, <2>2, WheelAssumption
<1>. QED
  BY <1>1, InitTypeOK, NextTypeOK, NextPositions, PTL DEF Spec
-----------------------------------------------------------------------------
(* The wheel implements the timer service: no timer waits longer for its     *)
(* slot than one revolution of the wheel takes.                              *)

LEMMA SpanMonotone ==
    ASSUME NEW l \in 0 .. NumLevels
    PROVE  Span(l) <= Span(NumLevels)
<1>. DEFINE Above == {j \in l .. NumLevels : Span(l) <= Span(j)}
            Missing == (l .. NumLevels) \ Above
<1>1. l \in Nat /\ l \in Above /\ Missing \subseteq Nat
  BY SpanPositive, WheelAssumption
<1>2. SUFFICES ASSUME Missing # {} PROVE FALSE
  BY <1>1, WheelAssumption
<1>3. PICK m \in Missing : \A n \in Missing : m <= n
  BY <1>1, <1>2, LeastElement
<1>4. m - 1 \in Above /\ m - 1 \in Levels /\ (m - 1) + 1 = m
  BY <1>1, <1>3, WheelAssumption DEF Levels
<1>5. Span(m) = NumSlots * Span(m - 1) /\ Span(m - 1) \in Nat \ {0} /\ Span(l) \in Nat
  <2>1. m - 1 \in 0 .. NumLevels
    BY <1>4, WheelAssumption DEF Levels
  <2>. QED
    BY <1>4, <2>1, SpanAssumption, SpanPositive
<1>6. Span(l) <= Span(m)
  <2>. DEFINE b == Span(m - 1)
              a == Span(l)
  <2>1. b \in Nat \ {0} /\ a \in Nat /\ a <= b /\ Span(m) = NumSlots * b
    BY <1>4, <1>5
  <2>. HIDE DEF a, b
  <2>2. b <= NumSlots * b /\ NumSlots * b \in Nat
    BY <2>1, WheelAssumption
  <2>. QED
    BY <2>1, <2>2 DEF a
<1>. QED
  BY <1>3, <1>6

\* The tick at which slot s of level l is processed next.
Turn(l, s) == ((LevelClock(l) \div Span(l)) + 1 + Offset(l, s)) * Span(l)

\* Whatever is linked in a slot has been due for at most Lateness ticks when the
\* slot's turn comes.
TurnsInTime ==
    \A l \in Levels, s \in Slots : \A k \in slots[<<l, s>>] :
        Turn(l, s) <= expireTime[k] + Lateness

LEMMA LatenessBounds ==
    /\ Lateness \in Int
    /\ Lateness <= Span(NumLevels)
    /\ Span(NumLevels) <= Lateness + 1
    /\ 0 \in Intervals => Lateness = Span(NumLevels)
<1>1. Span(NumLevels) \in Nat
  BY SpanPositive, WheelAssumption
<1>2. Lateness = IF 0 \in Intervals THEN Span(NumLevels) ELSE Span(NumLevels) - 1
  BY DEF Lateness, Span
<1>. QED
  BY <1>1, <1>2

\* A slot's turn comes after the level's clock, within a revolution.
LEMMA TurnBounds ==
    ASSUME NEW c \in Int, NEW b \in Nat \ {0}, NEW o \in Slots
    PROVE  LET turn == ((c \div b) + 1 + o) * b
           IN  turn \in Int /\ turn > c /\ turn <= c + NumSlots * b
<1>. DEFINE d == c \div b
            m == c % b
            n == NumSlots
<1>1. d \in Int /\ m \in 0 .. b - 1 /\ c = b * d + m
  BY DivMod
<1>2. o \in 0 .. n - 1 /\ n \in Nat \ {0}
  BY WheelAssumption DEF Slots
<1>. HIDE DEF d, m, n
<1>3. (d + 1 + o) * b = b * d + b + b * o
  BY <1>1, <1>2
<1>4. b * o >= 0 /\ b * o <= b * (n - 1)
  BY <1>2
<1>5. b * (n - 1) = n * b - b
  BY <1>2
<1>6. b * d \in Int /\ b * o \in Int /\ n * b \in Int
  BY <1>1, <1>2
<1>. QED
  BY <1>1, <1>3, <1>4, <1>5, <1>6 DEF d, n

LEMMA RevolutionBounds ==
    ASSUME NEW l \in Levels, NEW c \in Int, NEW p \in Slots, NEW s \in Slots
    PROVE  LET turn == ((c \div Span(l)) + 1 + ((s - p) % NumSlots)) * Span(l)
           IN  turn \in Int /\ turn > c /\ turn <= c + Span(NumLevels)
<1>1. /\ Span(l) \in Nat \ {0} /\ NumSlots * Span(l) = Span(l + 1)
      /\ Span(l + 1) \in Nat /\ Span(l + 1) <= Span(NumLevels)
      /\ Span(NumLevels) \in Nat
  <2>1. l \in 0 .. NumLevels /\ l + 1 \in 0 .. NumLevels /\ NumLevels \in 0 .. NumLevels
    BY WheelAssumption DEF Levels
  <2>. QED
    BY <2>1, SpanPositive, SpanMonotone, SpanAssumption
<1>2. (s - p) % NumSlots \in Slots
  BY OffsetAfterAdvance
<1>. DEFINE b == Span(l)
            o == (s - p) % NumSlots
            turn == ((c \div b) + 1 + o) * b
<1>3. b \in Nat \ {0} /\ o \in Slots
  BY <1>1, <1>2
<1>. HIDE DEF b, o
<1>4. turn \in Int /\ turn > c /\ turn <= c + NumSlots * b
  BY <1>3, TurnBounds
<1>5. NumSlots * b <= Span(NumLevels) /\ NumSlots * b \in Int
  BY <1>1 DEF b
<1>6. turn <= c + Span(NumLevels)
  <2>. HIDE DEF turn
  <2>. QED
    BY <1>1, <1>4, <1>5
<1>. QED
  BY <1>4, <1>6 DEF b, o

LEMMA TurnWithinRevolution ==
    ASSUME TypeOK, NEW l \in Levels, NEW s \in Slots
    PROVE  /\ LevelClock(l) \in Int /\ LevelClock(l) <= currentTime
           /\ Turn(l, s) \in Int
           /\ Turn(l, s) > LevelClock(l)
           /\ Turn(l, s) <= currentTime + Span(NumLevels)
<1>1. LevelClock(l) \in Int /\ LevelClock(l) <= currentTime /\ currentTime \in Int
  BY WheelAssumption DEF TypeOK, LevelClock, Levels
<1>2. position[l] \in Slots
  BY DEF TypeOK
<1>3. Span(NumLevels) \in Nat
  BY SpanPositive, WheelAssumption
<1>4. /\ Turn(l, s) \in Int
      /\ Turn(l, s) > LevelClock(l)
      /\ Turn(l, s) <= LevelClock(l) + Span(NumLevels)
  BY <1>1, <1>2, RevolutionBounds DEF Turn, Offset
<1>. QED
  BY <1>1, <1>3, <1>4

LEMMA InsertInTime ==
    ASSUME TypeOK, OneSlotPerTimer, TurnsInTime,
           NEW k \in Keys, NEW delta \in Intervals, Insert(k, delta)
    PROVE  TurnsInTime'
<1>0. delta \in Nat
  BY WheelAssumption
<1>. DEFINE p == Place(delta)
<1>1. p \in Levels \X Slots
  BY <1>0, PlaceType DEF TypeOK
<1>2. slots' = [slots EXCEPT ![p] = @ \cup {k}]
  BY DEF Insert
<1>. HIDE DEF p
<1>3. ASSUME NEW l \in Levels, NEW s \in Slots PROVE Turn(l, s)' = Turn(l, s)
  BY DEF Insert, Turn, LevelClock, Offset
<1>. SUFFICES ASSUME NEW l \in Levels, NEW s \in Slots, NEW j \in slots'[<<l, s>>]
              PROVE  Turn(l, s)' <= expireTime'[j] + Lateness
  BY DEF TurnsInTime
<1>4. CASE j = k
  <2>1. expireTime'[k] = currentTime + delta /\ currentTime \in Nat
    BY DEF Insert, TypeOK
  <2>2. Span(NumLevels) \in Nat
    BY SpanPositive, WheelAssumption
  <2>3. Turn(l, s) \in Int /\ Turn(l, s) <= currentTime + Span(NumLevels)
    BY TurnWithinRevolution
  <2>. QED
    BY <1>0, <1>3, <1>4, <2>1, <2>2, <2>3, LatenessBounds
<1>5. CASE j # k
  <2>1. j \in slots[<<l, s>>]
    BY <1>1, <1>2, <1>5 DEF TypeOK
  <2>2. expireTime'[j] = expireTime[j]
    BY <1>5 DEF Insert, TypeOK
  <2>. QED
    BY <1>3, <2>1, <2>2 DEF TurnsInTime
<1>. QED
  BY <1>4, <1>5

LEMMA ProcessLevelInTime ==
    ASSUME TypeOK, OneSlotPerTimer, PositionsTrackTime, TurnsInTime,
           NEW l \in Levels, ProcessLevel(l)
    PROVE  TurnsInTime'
<1>. SUFFICES ASSUME NEW i \in Levels, NEW s \in Slots, NEW k \in slots'[<<i, s>>]
              PROVE  Turn(i, s)' <= expireTime'[k] + Lateness
  BY DEF TurnsInTime
<1>1. <<i, s>> \in Levels \X Slots /\ position[l] \in Slots
  BY DEF TypeOK
<1>2. TypeOK' /\ OneSlotPerTimer'
  BY ProcessLevelTypeOK, ProcessLevelOneSlot
<1>3. k \in Live' /\ expireTime'[k] = expireTime[k] /\ expireTime[k] \in Nat
  <2>1. k \in Live'
    BY <1>1, <1>2 DEF OneSlotPerTimer
  <2>2. expireTime'[k] = expireTime[k]
    BY <2>1 DEF ProcessLevel, Live
  <2>. QED
    BY <1>2, <2>1, <2>2 DEF TypeOK, Live, Vacant
<1>4. CASE k \in Relinked(l, <<i, s>>)
  <2>1. expireTime[k] > currentTime /\ currentTime \in Nat
    BY <1>3, <1>4 DEF Relinked, Due, TypeOK
  <2>2. Turn(i, s)' \in Int /\ Turn(i, s)' <= currentTime' + Span(NumLevels)
    <3>1. LevelClock(i)' \in Int /\ LevelClock(i)' <= currentTime' /\ currentTime' \in Int
      <4>1. currentTime' \in Nat
        BY <1>2 DEF TypeOK
      <4>2. LevelClock(i)' \in {currentTime', currentTime' - 1}
        BY DEF LevelClock
      <4>. QED
        BY <4>1, <4>2
    <3>2. PICK c \in Int, p \in Slots : c = LevelClock(i)' /\ p = position'[i]
      BY <1>2, <3>1 DEF TypeOK
    <3>0. Turn(i, s)' = ((c \div Span(i)) + 1 + ((s - p) % NumSlots)) * Span(i)
      BY <3>2 DEF Turn, Offset
    <3>3. Turn(i, s)' \in Int /\ Turn(i, s)' <= c + Span(NumLevels)
      BY <3>0, RevolutionBounds
    <3>4. Span(NumLevels) \in Nat
      BY SpanPositive, WheelAssumption
    <3>. QED
      BY <3>1, <3>2, <3>3, <3>4
  <2>3. currentTime' = currentTime
    BY DEF ProcessLevel
  <2>4. Span(NumLevels) \in Nat
    BY SpanPositive, WheelAssumption
  <2>. QED
    BY <1>3, <2>1, <2>2, <2>3, <2>4, LatenessBounds
<1>5. CASE k \notin Relinked(l, <<i, s>>)
  <2>1. <<i, s>> # <<l, position[l]>> /\ k \in slots[<<i, s>>]
    BY <1>1, <1>5 DEF ProcessLevel
  <2>2. Turn(i, s)' = Turn(i, s)
    <3>1. CASE i # l
      <4>1. LevelClock(i)' \div Span(i) = LevelClock(i) \div Span(i)
        BY <3>1, ClocksAfterProcess
      <4>2. Offset(i, s)' = Offset(i, s)
        BY <3>1 DEF ProcessLevel, Offset, TypeOK
      <4>. QED
        BY <4>1, <4>2 DEF Turn
    <3>2. CASE i = l
      <4>. DEFINE t == currentTime
                  b == Span(l)
      <4>1. b \in Nat \ {0} /\ t \in Int /\ t % b = 0
        <5>1. l \in 0 .. NumLevels
          BY WheelAssumption DEF Levels
        <5>. QED
          BY <5>1, SpanPositive, ClocksAfterProcess DEF TypeOK
      <4>2. LevelClock(l) = t - 1 /\ LevelClock(l)' = t
        BY ClocksAfterProcess
      <4>3. s # position[l]
        BY <2>1, <3>2
      <4>4. position'[l] = (position[l] + 1) % NumSlots
        BY DEF ProcessLevel, NextPosition, TypeOK
      <4>5. Offset(l, s)' = Offset(l, s) - 1 /\ Offset(l, s) \in Slots
        BY <1>1, <4>3, <4>4, OffsetAfterAdvance DEF Offset
      <4>. DEFINE o == Offset(l, s)
                  u == Offset(l, s)'
      <4>6. Turn(l, s) = (((t - 1) \div b) + 1 + o) * b
        BY <4>2 DEF Turn
      <4>7. Turn(l, s)' = ((t \div b) + 1 + u) * b
        BY <4>2 DEF Turn
      <4>8. u = o - 1 /\ o \in Int
        BY <4>5, WheelAssumption DEF Slots
      <4>. HIDE DEF t, b, o, u
      <4>9. (t - 1) \div b = (t \div b) - 1 /\ t \div b \in Int
        BY <4>1, DivMod, DivOfPrevious
      <4>10. ((t - 1) \div b) + 1 + o = (t \div b) + 1 + u
        BY <4>8, <4>9
      <4>. QED
        BY <3>2, <4>6, <4>7, <4>10
    <3>. QED
      BY <3>1, <3>2
  <2>. QED
    BY <1>3, <2>1, <2>2 DEF TurnsInTime
<1>. QED
  BY <1>4, <1>5

LEMMA NextInTime ==
    ASSUME TypeOK, OneSlotPerTimer, PositionsTrackTime, TurnsInTime, [Next]_vars
    PROVE  TurnsInTime'
<1>1. ASSUME NEW k \in Keys, NEW i \in Intervals, StartTimer(k, i)
      PROVE  TurnsInTime'
  BY <1>1, InsertInTime, WheelAssumption DEF StartTimer
<1>2. ASSUME NEW k \in Keys, NEW i \in Intervals,
             StartTimerAbsolute(k, currentTime + i)
      PROVE  TurnsInTime'
  <2>. DEFINE d == (currentTime + i) - currentTime
  <2>1. d = i
    <3>1. currentTime \in Int /\ i \in Int
      BY WheelAssumption DEF TypeOK
    <3>. QED
      BY <3>1
  <2>2. Insert(k, d)
    BY <1>2 DEF StartTimerAbsolute
  <2>. HIDE DEF d
  <2>3. d \in Intervals
    BY <2>1
  <2>. QED
    BY <2>2, <2>3, InsertInTime
<1>3. ASSUME NEW j \in Keys, StopTimer(j) PROVE TurnsInTime'
  <2>1. \A l \in Levels, s \in Slots : slots'[<<l, s>>] = slots[<<l, s>>] \ {j}
    BY <1>3 DEF StopTimer
  <2>2. \A k : k # j /\ k \in Keys => expireTime'[k] = expireTime[k]
    BY <1>3 DEF StopTimer, TypeOK
  <2>3. \A l \in Levels, s \in Slots : Turn(l, s)' = Turn(l, s)
    BY <1>3 DEF StopTimer, Turn, LevelClock, Offset
  <2>4. \A l \in Levels, s \in Slots : slots[<<l, s>>] \subseteq Keys
    BY DEF TypeOK
  <2>. QED
    BY <2>1, <2>2, <2>3, <2>4 DEF TurnsInTime
<1>4. ASSUME BeginTick PROVE TurnsInTime'
  <2>1. \A l \in Levels : LevelClock(l)' = LevelClock(l)
    BY <1>4, WheelAssumption DEF BeginTick, LevelClock, Idle, Levels, TypeOK
  <2>2. \A l \in Levels, s \in Slots : Turn(l, s)' = Turn(l, s)
    BY <1>4, <2>1 DEF BeginTick, Turn, Offset
  <2>. QED
    BY <1>4, <2>2 DEF BeginTick, TurnsInTime
<1>5. ASSUME NEW l \in Levels, ProcessLevel(l) PROVE TurnsInTime'
  BY <1>5, ProcessLevelInTime
<1>6. ASSUME UNCHANGED vars PROVE TurnsInTime'
  BY <1>6 DEF vars, TurnsInTime, Turn, LevelClock, Offset
<1>. QED
  BY <1>1, <1>2, <1>3, <1>4, <1>5, <1>6 DEF Next

\* Each step of the wheel is a step of the timer service or leaves its clock
\* and its deadlines alone.
LEMMA StepIsServiceStep ==
    ASSUME TypeOK, OneSlotPerTimer, TurnsInTime, [Next]_vars
    PROVE  [Service!Next]_(Service!vars)
<1>. USE DEF Service!vars, Service!Next, Service!Running, Service!Vacant
<1>1. ASSUME NEW k \in Keys, NEW delta \in Nat, Insert(k, delta)
      PROVE  Service!Start(k)
  <2>1. expireTime'[k] = currentTime + delta /\ currentTime \in Nat
    BY <1>1 DEF Insert, TypeOK
  <2>2. k \notin Service!Running /\ UNCHANGED currentTime
    BY <1>1 DEF Insert, Live, Vacant
  <2>3. expireTime' = [expireTime EXCEPT ![k] = expireTime'[k]]
    BY <1>1, <2>1 DEF Insert
  <2>. QED
    BY <2>1, <2>2, <2>3 DEF Service!Start
<1>2. ASSUME NEW k \in Keys, NEW i \in Intervals, StartTimer(k, i)
      PROVE  Service!Next
  BY <1>1, <1>2, WheelAssumption DEF StartTimer
<1>3. ASSUME NEW k \in Keys, NEW i \in Intervals,
             StartTimerAbsolute(k, currentTime + i)
      PROVE  Service!Next
  <2>. DEFINE d == (currentTime + i) - currentTime
  <2>1. d \in Nat
    BY WheelAssumption DEF TypeOK
  <2>2. Insert(k, d)
    BY <1>3 DEF StartTimerAbsolute
  <2>. HIDE DEF d
  <2>. QED
    BY <1>1, <2>1, <2>2
<1>4. ASSUME NEW k \in Keys, StopTimer(k) PROVE Service!Next
  <2>1. Service!Stop(k)
    BY <1>4 DEF StopTimer, Live, Vacant, Service!Stop
  <2>. QED
    BY <2>1
<1>5. ASSUME BeginTick PROVE Service!Next
  <2>1. ASSUME NEW k \in Service!Running
        PROVE  currentTime - expireTime[k] < Lateness
    <3>1. k \in Live /\ expireTime[k] \in Nat /\ currentTime \in Nat
      BY DEF Live, Vacant, TypeOK
    <3>2. PICK l \in Levels, s \in Slots : k \in slots[<<l, s>>]
      BY <3>1 DEF OneSlotPerTimer
    <3>3. Turn(l, s) \in Int /\ Turn(l, s) > LevelClock(l)
      BY TurnWithinRevolution
    <3>4. LevelClock(l) = currentTime
      BY <1>5, WheelAssumption DEF BeginTick, LevelClock, Idle, Levels
    <3>5. Turn(l, s) <= expireTime[k] + Lateness
      BY <3>2 DEF TurnsInTime
    <3>. QED
      BY <3>1, <3>3, <3>4, <3>5, LatenessBounds
  <2>2. currentTime' = currentTime + 1 /\ UNCHANGED expireTime
    BY <1>5 DEF BeginTick
  <2>3. Service!Advance
    BY <2>1, <2>2 DEF Service!Advance
  <2>. QED
    BY <2>3
<1>6. ASSUME NEW l \in Levels, ProcessLevel(l) PROVE [Service!Next]_(Service!vars)
  <2>1. expireTime' = [k \in Keys |-> IF k \in Due(l) THEN Vacant ELSE expireTime[k]]
    BY <1>6 DEF ProcessLevel
  <2>2. UNCHANGED currentTime
    BY <1>6 DEF ProcessLevel
  <2>3. Due(l) \subseteq Live /\ \A k \in Due(l) : expireTime[k] <= currentTime
    <3>1. <<l, position[l]>> \in Levels \X Slots
      BY DEF TypeOK
    <3>. QED
      BY <3>1 DEF Due, Detached, OneSlotPerTimer
  <2>4. CASE Due(l) = {}
    <3>1. expireTime' = expireTime
      BY <2>1, <2>4 DEF TypeOK
    <3>. QED
      BY <2>2, <3>1
  <2>5. CASE Due(l) # {}
    <3>1. Due(l) \in SUBSET Keys
      BY <2>3 DEF Live
    <3>2. Service!Fire(Due(l))
      BY <2>1, <2>2, <2>3, <2>5 DEF Service!Fire, Live, Vacant
    <3>. QED
      BY <3>1, <3>2
  <2>. QED
    BY <2>4, <2>5
<1>7. ASSUME UNCHANGED vars PROVE [Service!Next]_(Service!vars)
  BY <1>7 DEF vars
<1>. QED
  BY <1>2, <1>3, <1>4, <1>5, <1>6, <1>7 DEF Next

\* The wheel gives the timer service, for any number of levels and slots: no
\* timer fires early, twice, or after it was stopped, and none is late by a
\* revolution of the whole wheel, unless it was started with interval 0.
THEOREM WheelIsATimerService == Spec => ImplementsTimerService
<1>1. Init => Service!Init
  BY DEF Init, Service!Init, Vacant, Service!Vacant
<1>2. Init => TurnsInTime
  BY DEF Init, TurnsInTime
<1>3. /\ TypeOK /\ OneSlotPerTimer /\ PositionsTrackTime /\ TurnsInTime
      /\ [Next]_vars
      => TurnsInTime'
  BY NextInTime
<1>4. TypeOK /\ OneSlotPerTimer /\ TurnsInTime /\ [Next]_vars
      => [Service!Next]_(Service!vars)
  BY StepIsServiceStep
<1>5. Spec => []TurnsInTime
  BY <1>2, <1>3, TypeCorrect, OneSlotAlways, PositionsAlwaysTrackTime, PTL DEF Spec
<1>. QED
  BY <1>1, <1>4, <1>5, TypeCorrect, OneSlotAlways, PTL
  DEF Spec, ImplementsTimerService, Service!Spec
-----------------------------------------------------------------------------
(* next_expiration, when level 0 holds a timer. *)

LEMMA OffsetInjective ==
    ASSUME NEW p \in Slots, NEW s \in Slots, NEW r \in Slots,
           (s - p) % NumSlots = (r - p) % NumSlots
    PROVE  s = r
<1>1. (s - p) % NumSlots = IF s >= p THEN s - p ELSE s - p + NumSlots
  BY WheelAssumption DEF Slots
<1>2. (r - p) % NumSlots = IF r >= p THEN r - p ELSE r - p + NumSlots
  BY WheelAssumption DEF Slots
<1>. QED
  BY <1>1, <1>2, WheelAssumption DEF Slots

\* The scan ends at the occupied slot of level 0 that is processed first.
\* The scan of next_expiration finds a slot when there is one: the order of the
\* levels, and of the slots from the current position on, has a least element.
LEMMA ScanFindsSlot ==
    ASSUME TypeOK, NEW q0 \in Levels \X Slots, slots[q0] # {}
    PROVE  LET occupied == {q \in Levels \X Slots : slots[q] # {}}
               first == CHOOSE q \in occupied : \A r \in occupied \ {q} : Before(q, r)
           IN  first \in occupied
<1>. DEFINE occupied == {q \in Levels \X Slots : slots[q] # {}}
            used == {l \in Levels : \E s \in Slots : slots[<<l, s>>] # {}}
<1>1. \A l \in Levels : l \in Nat /\ position[l] \in Slots
  BY WheelAssumption DEF TypeOK, Levels
<1>2. PICK m \in used : \A n \in used : m <= n
  <2>1. used \subseteq Nat
    BY <1>1
  <2>2. used # {}
    <3>1. PICK l \in Levels, v \in Slots : q0 = <<l, v>>
      OBVIOUS
    <3>2. l \in used
      BY <3>1
    <3>. QED
      BY <3>2
  <2>. HIDE DEF used
  <2>. QED
    BY <2>1, <2>2, LeastElement
<1>. DEFINE offsets == {Offset(m, r) : r \in {u \in Slots : slots[<<m, u>>] # {}}}
<1>3. m \in Levels /\ \A r \in Slots : Offset(m, r) \in Nat
  BY <1>1, OffsetAfterAdvance, WheelAssumption DEF Offset, Slots
<1>4. PICK o \in offsets : \A n \in offsets : o <= n
  <2>1. offsets \subseteq Nat /\ offsets # {}
    BY <1>3
  <2>. HIDE DEF offsets
  <2>. QED
    BY <2>1, LeastElement
<1>5. PICK u \in Slots : slots[<<m, u>>] # {} /\ o = Offset(m, u)
  BY <1>4
<1>6. <<m, u>> \in occupied
  BY <1>3, <1>5
<1>7. ASSUME NEW r \in occupied \ {<<m, u>>} PROVE Before(<<m, u>>, r)
  <2>1. PICK l \in Levels, v \in Slots : r = <<l, v>> /\ slots[<<l, v>>] # {}
    OBVIOUS
  <2>2. m <= l
    BY <1>2, <2>1
  <2>3. CASE l = m
    <3>1. Offset(m, u) <= Offset(m, v)
      BY <1>4, <1>5, <2>1, <2>3
    <3>2. u # v
      BY <1>7, <2>1, <2>3
    <3>3. Offset(m, u) # Offset(m, v)
      BY <1>1, <1>3, <3>2, OffsetInjective DEF Offset
    <3>. QED
      BY <1>3, <2>1, <2>3, <3>1, <3>3 DEF Before
  <2>4. CASE l # m
    BY <1>1, <1>3, <2>1, <2>2, <2>4 DEF Before
  <2>. QED
    BY <2>3, <2>4
<1>. HIDE DEF occupied
<1>. QED
  <2>1. \E q \in occupied : \A r \in occupied \ {q} : Before(q, r)
    BY <1>6, <1>7
  <2>2. (CHOOSE q \in occupied : \A r \in occupied \ {q} : Before(q, r)) \in occupied
    BY <2>1, Zenon
  <2>. QED
    BY <2>2 DEF occupied

\* next_expiration is None just when no timer is running, and otherwise the
\* expire_time of one that is.
LEMMA NextExpirationOfSome ==
    ASSUME TypeOK, OneSlotPerTimer
    PROVE  /\ Live = {} => NextExpiration = Vacant
           /\ Live # {} => \E k \in Live : NextExpiration = expireTime[k]
<1>. DEFINE occupied == {q \in Levels \X Slots : slots[q] # {}}
            first == CHOOSE q \in occupied : \A r \in occupied \ {q} : Before(q, r)
            times == {expireTime[k] : k \in slots[first]}
<1>1. Live = {} => occupied = {}
  BY DEF OneSlotPerTimer
<1>2. ASSUME Live # {} PROVE occupied # {}
  BY <1>2 DEF OneSlotPerTimer
<1>3. ASSUME Live # {} PROVE \E k \in Live : NextExpiration = expireTime[k]
  <2>1. first \in occupied
    BY <1>2, <1>3, ScanFindsSlot
  <2>2. slots[first] # {} /\ slots[first] \subseteq Live
    <3>. HIDE DEF first
    <3>. QED
      BY <2>1 DEF OneSlotPerTimer
  <2>. HIDE DEF first
  <2>3. times \subseteq Nat /\ times # {}
    BY <2>2 DEF Live, TypeOK, Vacant
  <2>4. NextExpiration = CHOOSE t \in times : \A u \in times : t <= u
    BY <1>2, <1>3 DEF NextExpiration, first
  <2>. HIDE DEF times
  <2>5. PICK t \in times : \A u \in times : t <= u
    BY <2>3, LeastElement
  <2>6. NextExpiration \in times
    BY <2>4, <2>5, Zenon
  <2>. QED
    BY <2>2, <2>6 DEF times
<1>. QED
  BY <1>1, <1>3 DEF NextExpiration

LEMMA FirstOccupied ==
    ASSUME TypeOK, NEW s \in Slots, slots[<<0, s>>] # {}
    PROVE  LET occupied == {q \in Levels \X Slots : slots[q] # {}}
               first == CHOOSE q \in occupied : \A r \in occupied \ {q} : Before(q, r)
           IN  \E f \in Slots :
                  /\ first = <<0, f>> /\ slots[<<0, f>>] # {}
                  /\ \A r \in Slots \ {f} :
                        slots[<<0, r>>] # {} => Offset(0, f) < Offset(0, r)
<1>. DEFINE occupied == {q \in Levels \X Slots : slots[q] # {}}
            first == CHOOSE q \in occupied : \A r \in occupied \ {q} : Before(q, r)
            offsets == {Offset(0, r) : r \in {u \in Slots : slots[<<0, u>>] # {}}}
<1>1. 0 \in Levels /\ position[0] \in Slots /\ \A l \in Levels : l \in Nat
  BY WheelAssumption DEF TypeOK, Levels
<1>2. \A r \in Slots : Offset(0, r) \in Nat
  BY <1>1, OffsetAfterAdvance, WheelAssumption DEF Offset, Slots
<1>3. PICK m \in offsets : \A n \in offsets : m <= n
  <2>1. offsets \subseteq Nat /\ offsets # {}
    BY <1>2
  <2>. HIDE DEF offsets
  <2>. QED
    BY <2>1, LeastElement
<1>4. PICK u \in Slots : slots[<<0, u>>] # {} /\ m = Offset(0, u)
  BY <1>3
<1>5. \A r \in Slots \ {u} : slots[<<0, r>>] # {} => Offset(0, u) < Offset(0, r)
  <2>. SUFFICES ASSUME NEW r \in Slots \ {u}, slots[<<0, r>>] # {}
                PROVE  Offset(0, u) < Offset(0, r)
    OBVIOUS
  <2>1. Offset(0, u) <= Offset(0, r)
    BY <1>3, <1>4
  <2>2. Offset(0, u) # Offset(0, r)
    BY <1>1, OffsetInjective DEF Offset
  <2>. QED
    BY <1>2, <2>1, <2>2
<1>6. <<0, u>> \in occupied /\ \A r \in occupied \ {<<0, u>>} : Before(<<0, u>>, r)
  <2>1. <<0, u>> \in occupied
    BY <1>1, <1>4
  <2>2. ASSUME NEW r \in occupied \ {<<0, u>>} PROVE Before(<<0, u>>, r)
    <3>1. PICK l \in Levels, v \in Slots : r = <<l, v>> /\ slots[<<l, v>>] # {}
      OBVIOUS
    <3>2. CASE l = 0
      BY <1>5, <2>2, <3>1, <3>2 DEF Before
    <3>3. CASE l # 0
      BY <1>1, <3>1, <3>3 DEF Before
    <3>. QED
      BY <3>2, <3>3
  <2>. QED
    BY <2>1, <2>2
<1>7. first \in occupied /\ \A r \in occupied \ {first} : Before(first, r)
  <2>. HIDE DEF occupied
  <2>. QED
    BY <1>6, Zenon
<1>8. first = <<0, u>>
  <2>. SUFFICES ASSUME first # <<0, u>> PROVE FALSE
    OBVIOUS
  <2>. HIDE DEF first
  <2>1. Before(first, <<0, u>>) /\ Before(<<0, u>>, first)
    BY <1>6, <1>7
  <2>2. PICK l \in Levels, v \in Slots : first = <<l, v>>
    BY <1>7
  <2>3. Offset(0, u) \in Nat /\ (l = 0 => Offset(l, v) \in Nat) /\ l \in Nat
    BY <1>1, <1>2, <2>2
  <2>. QED
    BY <2>1, <2>2, <2>3 DEF Before
<1>. QED
  BY <1>4, <1>5, <1>8

LEMMA EarliestOfLevelZero ==
    ASSUME NumLevels > 1, 0 \notin Intervals, TypeOK, OneSlotPerTimer, LevelZeroExact
    PROVE  NextExpirationOfLevelZero
<1>. DEFINE fine == UNION {slots[<<0, s>>] : s \in Slots}
            occupied == {q \in Levels \X Slots : slots[q] # {}}
            first == CHOOSE q \in occupied : \A r \in occupied \ {q} : Before(q, r)
            times == {expireTime[k] : k \in slots[first]}
<1>. SUFFICES ASSUME cascade = Idle, fine # {}
              PROVE  /\ \E k \in fine : expireTime[k] = NextExpiration
                     /\ \A k \in fine : NextExpiration <= expireTime[k]
  BY DEF NextExpirationOfLevelZero
<1>1. PICK s \in Slots : slots[<<0, s>>] # {}
  OBVIOUS
<1>2. PICK f \in Slots :
          /\ first = <<0, f>> /\ slots[<<0, f>>] # {}
          /\ \A r \in Slots \ {f} :
                slots[<<0, r>>] # {} => Offset(0, f) < Offset(0, r)
  BY <1>1, FirstOccupied
<1>3. 0 \in Levels /\ first \in occupied
  <2>1. 0 \in Levels
    BY WheelAssumption DEF Levels
  <2>2. <<0, f>> \in occupied
    BY <1>2, <2>1
  <2>. HIDE DEF first, occupied
  <2>. QED
    BY <1>2, <2>1, <2>2
<1>4. LevelClock(0) \in Int /\ \A r \in Slots : Offset(0, r) \in Nat
  <2>1. LevelClock(0) \in {currentTime, currentTime - 1} /\ currentTime \in Nat
    BY DEF LevelClock, TypeOK
  <2>2. position[0] \in Slots
    BY <1>3 DEF TypeOK
  <2>. QED
    BY <2>1, <2>2, OffsetAfterAdvance, WheelAssumption DEF Offset, Slots
<1>5. \A r \in Slots : \A k \in slots[<<0, r>>] :
          expireTime[k] \in Nat /\ expireTime[k] = LevelClock(0) + Offset(0, r) + 1
  <2>. SUFFICES ASSUME NEW r \in Slots, NEW k \in slots[<<0, r>>]
                PROVE  /\ expireTime[k] \in Nat
                       /\ expireTime[k] = LevelClock(0) + Offset(0, r) + 1
    OBVIOUS
  <2>1. expireTime[k] \in Nat
    BY <1>3 DEF OneSlotPerTimer, Live, TypeOK, Vacant
  <2>2. expireTime[k] - LevelClock(0) = Offset(0, r) + 1
    BY DEF LevelZeroExact
  <2>. QED
    BY <1>4, <2>1, <2>2
<1>6. times \subseteq Nat /\ times # {}
  <2>1. times = {expireTime[k] : k \in slots[<<0, f>>]}
    BY <1>2
  <2>. HIDE DEF times
  <2>. QED
    BY <1>2, <1>5, <2>1
<1>7. PICK t \in times : \A u \in times : t <= u
  <2>. HIDE DEF times
  <2>. QED
    BY <1>6, LeastElement
<1>8. NextExpiration \in times /\ \A u \in times : NextExpiration <= u
  <2>1. NextExpiration = CHOOSE e \in times : \A u \in times : e <= u
    BY <1>3 DEF NextExpiration
  <2>. HIDE DEF times
  <2>. QED
    BY <1>7, <2>1, Zenon
<1>9. PICK j \in slots[<<0, f>>] : NextExpiration = expireTime[j]
  BY <1>2, <1>8
<1>10. ASSUME NEW k \in fine PROVE NextExpiration <= expireTime[k]
  <2>1. PICK r \in Slots : k \in slots[<<0, r>>]
    OBVIOUS
  <2>2. Offset(0, f) <= Offset(0, r)
    BY <1>2, <1>4, <2>1
  <2>. QED
    BY <1>4, <1>5, <1>9, <2>1, <2>2
<1>. QED
  BY <1>9, <1>10

\* In a wheel of at least two levels on which no timer is started with interval
\* 0, next_expiration is the earliest timer of level 0 when there is one: the
\* scan from the current position meets it first, whatever the coarser levels
\* hold.
THEOREM NextExpirationIsEarliest ==
    ASSUME NumLevels > 1, 0 \notin Intervals
    PROVE  Spec => []NextExpirationOfLevelZero
<1>1. TypeOK /\ OneSlotPerTimer /\ LevelZeroExact => NextExpirationOfLevelZero
  BY EarliestOfLevelZero
<1>. QED
  BY <1>1, TypeCorrect, OneSlotAlways, LevelZeroAlwaysExact, PTL

------------------------------------------------------------------------------
(* A wheel whose timers all are within the range of level 0.               *)

OnlyLevelZero == \A q \in Levels \X Slots : q[1] # 0 => slots[q] = {}

LEMMA ShortGoesToLevelZero ==
    ASSUME NumLevels > 1, TypeOK, NEW delta \in Nat, delta < NumSlots
    PROVE  \E s \in Slots : Place(delta) = <<0, s>>
<1>1. LevelFor(delta) \in Levels /\ LevelFor(delta) \in Nat
  BY LevelForChoice, WheelAssumption DEF Levels
<1>2. Span(0 + 1) = NumSlots
  BY SpanAssumption, WheelAssumption DEF Levels
<1>3. LevelFor(delta) = 0
  <2>. SUFFICES ASSUME LevelFor(delta) > 0 PROVE FALSE
    BY <1>1
  <2>1. 0 \in 0 .. LevelFor(delta) - 1
    BY <1>1
  <2>2. delta >= Span(0 + 1)
    BY <2>1, LevelForChoice
  <2>. QED
    BY <1>2, <2>2, WheelAssumption
<1>4. Place(delta) \in Levels \X Slots
  BY PlaceType DEF TypeOK
<1>. QED
  BY <1>3, <1>4 DEF Place

LEMMA InsertShort ==
    ASSUME NumLevels > 1, TypeOK, OnlyLevelZero,
           NEW k \in Keys, NEW delta \in Nat, delta < NumSlots, Insert(k, delta)
    PROVE  OnlyLevelZero'
<1>1. PICK s \in Slots : Place(delta) = <<0, s>>
  BY ShortGoesToLevelZero
<1>. QED
  BY <1>1 DEF Insert, OnlyLevelZero, TypeOK

LEMMA StopShort ==
    ASSUME OnlyLevelZero, NEW k \in Keys, StopTimer(k)
    PROVE  OnlyLevelZero'
BY DEF StopTimer, OnlyLevelZero

\* Level 0 hands out all it detaches, and no other level has anything.
LEMMA ProcessShort ==
    ASSUME NumLevels > 1, 0 \notin Intervals, TypeOK, OneSlotPerTimer, LevelZeroExact,
           OnlyLevelZero, NEW l \in Levels, ProcessLevel(l)
    PROVE  OnlyLevelZero'
<1>1. position[l] \in Slots /\ currentTime \in Nat
  BY DEF TypeOK
<1>2. Detached(l) \subseteq Due(l)
  <2>1. CASE l = 0
    <3>1. LevelClock(0) = currentTime - 1
      BY <2>1, WheelAssumption DEF LevelClock, ProcessLevel, TypeOK
    <3>2. Offset(0, position[0]) = 0
      BY <1>1, <2>1, OffsetAfterAdvance DEF Offset
    <3>3. ASSUME NEW k \in slots[<<0, position[0]>>] PROVE expireTime[k] <= currentTime
      <4>1. expireTime[k] > LevelClock(0) /\ expireTime[k] - LevelClock(0) = 0 + 1
        BY <1>1, <2>1, <3>2, <3>3 DEF LevelZeroExact
      <4>2. expireTime[k] \in Int
        BY <1>1, <2>1 DEF TypeOK, Vacant
      <4>. QED
        BY <1>1, <3>1, <4>1, <4>2
    <3>. QED
      BY <2>1, <3>3 DEF Detached, Due
  <2>2. CASE l # 0
    BY <1>1, <2>2 DEF Detached, OnlyLevelZero
  <2>. QED
    BY <2>1, <2>2
<1>3. \A q \in Levels \X Slots : Relinked(l, q) = {}
  BY <1>2 DEF Relinked
<1>. QED
  BY <1>3 DEF ProcessLevel, OnlyLevelZero

\* Between ticks every timer is ahead, by a revolution of level 0 at most, and
\* next_expiration is the earliest.
LEMMA ShortIsOnTime ==
    ASSUME NumLevels > 1, 0 \notin Intervals, TypeOK, OneSlotPerTimer, LevelZeroExact,
           OnlyLevelZero, cascade = Idle
    PROVE  \A k \in Live :
               /\ expireTime[k] > currentTime
               /\ expireTime[k] <= currentTime + NumSlots
               /\ NextExpiration <= expireTime[k]
<1>. SUFFICES ASSUME NEW k \in Live
              PROVE  /\ expireTime[k] > currentTime
                     /\ expireTime[k] <= currentTime + NumSlots
                     /\ NextExpiration <= expireTime[k]
  OBVIOUS
<1>1. PICK s \in Slots : k \in slots[<<0, s>>]
  <2>1. PICK q \in Levels \X Slots : k \in slots[q]
    BY DEF OneSlotPerTimer
  <2>2. q[1] = 0
    BY <2>1 DEF OnlyLevelZero
  <2>. QED
    BY <2>1, <2>2
<1>2. currentTime \in Nat /\ expireTime[k] \in Nat /\ 0 \in Levels /\ position[0] \in Slots
  BY WheelAssumption DEF Live, TypeOK, Vacant, Levels
<1>3. LevelClock(0) = currentTime
  BY WheelAssumption DEF LevelClock, Idle
<1>4. Offset(0, s) \in Slots
  BY <1>2, OffsetAfterAdvance DEF Offset
<1>5. expireTime[k] > currentTime /\ expireTime[k] - currentTime = Offset(0, s) + 1
  BY <1>1, <1>3 DEF LevelZeroExact
<1>6. NextExpiration <= expireTime[k]
  BY <1>1, EarliestOfLevelZero DEF NextExpirationOfLevelZero
<1>7. Offset(0, s) \in Nat /\ Offset(0, s) < NumSlots
  BY <1>4, WheelAssumption DEF Slots
<1>. QED
  BY <1>2, <1>5, <1>6, <1>7, WheelAssumption
====
