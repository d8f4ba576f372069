---------------------------- MODULE VppVecProofs ----------------------------
(***************************************************************************)
(* The bookkeeping of a vector's length, spare capacity and allocation is  *)
(* right, and the vector implements the array of GrowableArray, for every  *)
(* set of elements, any width of grow_elts and any allocator.              *)
(***************************************************************************)
EXTENDS VppVec, SequenceTheorems, TLAPS

(* What the bookkeeping needs of the types. *)
Numbers == /\ elems \in Seq(Elem \cup {Uninit})
           /\ grow \in 0..GrowMax
           /\ alloc \in Nat
           /\ given \in Seq(Elem)

USE VecAssumption DEF VecAssumption

(* set_len leaves no more spare capacity than there was, if it fits. *)
LEMMA GrowForLenFits ==
  ASSUME NEW c \in Nat, NEW n \in Nat
  PROVE  /\ GrowForLen(c, n) \in 0..GrowMax
         /\ n <= c => n + GrowForLen(c, n) <= c
         /\ n <= c /\ c - n > 0 => GrowForLen(c, n) > 0
BY DEF GrowForLen

LEMMA Spare ==
  ASSUME NEW n \in Nat, NEW a \in Nat, n <= a
  PROVE  SpareAfterAlloc(n, a) \in 0..GrowMax /\ n + SpareAfterAlloc(n, a) <= a
BY DEF SpareAfterAlloc, Smaller

LEMMA AllocationFits ==
  ASSUME NEW n \in Nat, alloc \in Nat
  PROVE  /\ \A a \in Allocations(n) : a \in Nat /\ n <= a
         /\ \A a \in Reallocations(n) : a \in Nat /\ n <= a
BY DEF Allocations, Reallocations

(* After reserve the header promises no more than the allocation has. *)
LEMMA ReserveFits ==
  ASSUME Numbers, NEW more \in Nat, NEW a \in Nat, len + more <= a
  PROVE  /\ GrowAfterReserve(more, a) \in 0..GrowMax
         /\ len + GrowAfterReserve(more, a) <= a
         /\ more > 0 => GrowAfterReserve(more, a) > 0
<1>1. len \in Nat
  BY DEF Numbers, len
<1>2. SpareAfterAlloc(len + more, a) \in 0..GrowMax
      /\ len + more + SpareAfterAlloc(len + more, a) <= a
  BY <1>1, Spare
<1> DEFINE c == len + more + SpareAfterAlloc(len + more, a)
<1>3. c \in Nat /\ len <= c /\ c <= a /\ (more > 0 => c - len > 0)
  BY <1>1, <1>2
<1>4. /\ GrowForLen(c, len) \in 0..GrowMax
      /\ len + GrowForLen(c, len) <= c
      /\ c - len > 0 => GrowForLen(c, len) > 0
  BY <1>1, <1>3, GrowForLenFits
<1>. QED
  BY <1>1, <1>3, <1>4 DEF GrowAfterReserve

LEMMA WithCapacityFits ==
  ASSUME NEW n \in Nat, NEW a \in Nat, n <= a
  PROVE  GrowWithCapacity(n, a) \in 0..GrowMax /\ GrowWithCapacity(n, a) <= a
<1>1. SpareAfterAlloc(n, a) \in 0..GrowMax /\ n + SpareAfterAlloc(n, a) <= a
  BY Spare
<1> DEFINE c == n + SpareAfterAlloc(n, a)
<1>2. c \in Nat /\ c <= a
  BY <1>1
<1>3. GrowForLen(c, 0) \in 0..GrowMax /\ 0 + GrowForLen(c, 0) <= c
  BY <1>2, GrowForLenFits
<1>. QED
  BY <1>2, <1>3 DEF GrowWithCapacity

(* The room that push, insert_mut and CollectNext write to. *)
LEMMA RoomFits ==
  ASSUME TypeOK, ~null => CapacityIsAllocated, ~past, phase # "iter", NEW r \in Room
  PROVE  r.a \in Nat /\ r.g \in 1..GrowMax /\ len + r.g <= r.a
<1>1. Numbers /\ len \in Nat
  BY DEF TypeOK, Numbers, len
<1>2. CASE len = Capacity
  <2>1. PICK a \in Reallocations(len + 1) : r = [a |-> a, g |-> GrowAfterReserve(1, a)]
    BY <1>2 DEF Room
  <2>2. a \in Nat /\ len + 1 <= a
    BY <1>1, <2>1, AllocationFits DEF Numbers
  <2>3. /\ GrowAfterReserve(1, a) \in 0..GrowMax
        /\ len + GrowAfterReserve(1, a) <= a
        /\ GrowAfterReserve(1, a) > 0
    BY <1>1, <2>2, ReserveFits
  <2>. QED
    BY <1>1, <2>1, <2>2, <2>3
<1>3. CASE len # Capacity
  <2>1. r = [a |-> alloc, g |-> grow]
    BY <1>3 DEF Room
  <2>2. ~null /\ grow # 0
    BY <1>1, <1>3 DEF Capacity, TypeOK, len
  <2>3. len + grow <= alloc
    BY <2>2 DEF CapacityIsAllocated, Capacity
  <2>. QED
    BY <1>1, <2>1, <2>2, <2>3 DEF Numbers
<1>. QED
  BY <1>2, <1>3

Stored == Elem \cup {Uninit}

(* What the operations make of the elements. *)
LEMMA Filled ==
  ASSUME NEW n \in Nat, NEW f, f \in [1..n -> Stored]
  PROVE  f \in Seq(Stored) /\ Len(f) = n
OBVIOUS

LEMMA WithoutLast ==
  ASSUME NEW s \in Seq(Stored), s # <<>>
  PROVE  SubSeq(s, 1, Len(s) - 1) \in Seq(Stored) /\ Len(SubSeq(s, 1, Len(s) - 1)) = Len(s) - 1
<1>1. Len(s) \in Nat \ {0} /\ \A i \in 1..Len(s) : s[i] \in Stored
  BY LenProperties, EmptySeq
<1> DEFINE n == Len(s) - 1
<1>2. 1 \in Int /\ n \in Nat /\ n + 1 = Len(s) /\ \A i \in 1..n : s[i] \in Stored
  BY <1>1
<1> HIDE DEF n
<1>3. /\ SubSeq(s, 1, n) \in Seq(Stored)
      /\ Len(SubSeq(s, 1, n)) = IF 1 <= n THEN n - 1 + 1 ELSE 0
  BY <1>2, SubSeqProperties
<1>4. Len(SubSeq(s, 1, n)) = n
  BY <1>2, <1>3
<1>. QED
  BY <1>3, <1>4 DEF n

LEMMA WithoutOne ==
  ASSUME NEW s \in Seq(Stored), NEW i \in 1..Len(s)
  PROVE  LET t == SubSeq(s, 1, i - 1) \o SubSeq(s, i + 1, Len(s))
         IN t \in Seq(Stored) /\ Len(t) = Len(s) - 1
<1> DEFINE before == SubSeq(s, 1, i - 1)
           after == SubSeq(s, i + 1, Len(s))
<1>1. Len(s) \in Nat /\ \A k \in 1..Len(s) : s[k] \in Stored
  BY LenProperties
<1>2. before \in Seq(Stored) /\ Len(before) = i - 1
  BY <1>1, SubSeqProperties
<1>3. after \in Seq(Stored) /\ Len(after) = Len(s) - i
  BY <1>1, SubSeqProperties
<1> HIDE DEF before, after
<1>4. before \o after \in Seq(Stored) /\ Len(before \o after) = Len(before) + Len(after)
  BY <1>2, <1>3, ConcatProperties
<1>5. Len(before) + Len(after) = Len(s) - 1
  BY <1>1, <1>2, <1>3
<1>. QED
  BY <1>4, <1>5 DEF before, after

LEMMA WithOneMore ==
  ASSUME NEW s \in Seq(Stored), NEW i \in 1..(Len(s) + 1), NEW x \in Stored,
         NEW up \in [1..(Len(s) - i + 1) -> Stored]
  PROVE  LET t == SubSeq(s, 1, i - 1) \o <<x>> \o up
         IN t \in Seq(Stored) /\ Len(t) = Len(s) + 1
<1> DEFINE before == SubSeq(s, 1, i - 1)
<1>1. Len(s) \in Nat /\ \A k \in 1..Len(s) : s[k] \in Stored
  BY LenProperties
<1>2. before \in Seq(Stored) /\ Len(before) = i - 1
  BY <1>1, SubSeqProperties
<1>3. up \in Seq(Stored) /\ Len(up) = Len(s) - i + 1
  <2>1. Len(s) - i + 1 \in Nat
    BY <1>1
  <2>. QED
    BY <2>1, Filled
<1>4. <<x>> \in Seq(Stored) /\ Len(<<x>>) = 1
  OBVIOUS
<1> HIDE DEF before
<1> DEFINE longer == before \o <<x>>
<1>5. longer \in Seq(Stored) /\ Len(longer) = Len(before) + Len(<<x>>)
  BY <1>2, <1>4, ConcatProperties
<1> HIDE DEF longer
<1>6. longer \o up \in Seq(Stored) /\ Len(longer \o up) = Len(longer) + Len(up)
  BY <1>3, <1>5, ConcatProperties
<1>7. Len(longer) + Len(up) = Len(s) + 1
  BY <1>1, <1>2, <1>3, <1>4, <1>5
<1>. QED
  BY <1>6, <1>7 DEF longer, before

LEMMA WithFilled ==
  ASSUME NEW s \in Seq(Stored), NEW n \in Nat, NEW f \in [1..n -> Stored]
  PROVE  s \o f \in Seq(Stored) /\ Len(s \o f) = Len(s) + n
<1>1. f \in Seq(Stored) /\ Len(f) = n
  BY Filled
<1>. QED
  BY <1>1, ConcatProperties

LEMMA WrittenStored ==
  ASSUME NEW i \in Nat, NEW a \in Nat, NEW x \in Stored
  PROVE  Written(i, a, x) \in Stored
BY DEF Written, Stored

LEMMA WrapFits ==
  ASSUME NEW g \in 0..GrowMax
  PROVE  /\ WrapUp(g) \in 0..GrowMax
         /\ WrapDown(g) \in 0..GrowMax
         /\ WrapUp(g) <= g + 1
         /\ g > 0 => WrapDown(g) = g - 1
BY DEF WrapUp, WrapDown

(* The room is there to count, full vector or not. *)
LEMMA RoomCounted ==
  ASSUME Numbers, NEW r \in Room
  PROVE  r.a \in Nat /\ r.g \in 0..GrowMax
<1>1. len \in Nat
  BY DEF Numbers, len
<1>2. CASE len = Capacity
  <2>1. PICK a \in Reallocations(len + 1) : r = [a |-> a, g |-> GrowAfterReserve(1, a)]
    BY <1>2 DEF Room
  <2>2. a \in Nat /\ len + 1 <= a
    BY <1>1, <2>1, AllocationFits DEF Numbers
  <2>3. GrowAfterReserve(1, a) \in 0..GrowMax
    BY <1>1, <2>2, ReserveFits
  <2>. QED
    BY <2>1, <2>2, <2>3
<1>3. CASE len # Capacity
  BY <1>3 DEF Room, Numbers
<1>. QED
  BY <1>2, <1>3

LEMMA AppendOneStep ==
  ASSUME Numbers, NEW x \in Elem, AppendOne(x)
  PROVE  elems' \in Seq(Stored) /\ grow' \in 0..GrowMax /\ alloc' \in Nat /\ null' = FALSE
<1>1. PICK r \in Room : /\ alloc' = r.a
                        /\ grow' = WrapDown(r.g)
                        /\ elems' = Append(elems, Written(len + 1, r.a, x))
  BY DEF AppendOne
<1>2. r.a \in Nat /\ r.g \in 0..GrowMax /\ len \in Nat
  BY RoomCounted DEF Numbers, len
<1>3. Written(len + 1, r.a, x) \in Stored
  BY <1>2, WrittenStored DEF Stored
<1>4. elems' \in Seq(Stored)
  BY <1>1, <1>3, AppendProperties DEF Numbers, Stored
<1>. QED
  BY <1>1, <1>2, <1>4, WrapFits DEF AppendOne

LEMMA InsertedOne ==
  ASSUME elems \in Seq(Stored), NEW i \in 1..(len + 1), NEW x \in Elem, NEW a \in Nat
  PROVE  LET t == SubSeq(elems, 1, i - 1) \o <<Written(i, a, x)>>
                    \o [k \in 1..(len - i + 1) |-> Written(i + k, a, elems[i + k - 1])]
         IN t \in Seq(Stored) /\ Len(t) = len + 1
<1> DEFINE up == [k \in 1..(len - i + 1) |-> Written(i + k, a, elems[i + k - 1])]
<1>1. len \in Nat /\ \A k \in 1..len : elems[k] \in Stored
  BY LenProperties DEF len
<1>2. Written(i, a, x) \in Stored
  BY <1>1, WrittenStored DEF Stored
<1>3. ASSUME NEW k \in 1..(len - i + 1)
      PROVE  Written(i + k, a, elems[i + k - 1]) \in Stored
  <2>1. i + k - 1 \in 1..len /\ i + k \in Nat
    BY <1>1
  <2>. QED
    BY <1>1, <2>1, WrittenStored
<1>4. up \in [1..(Len(elems) - i + 1) -> Stored]
  BY <1>3 DEF len
<1>5. i \in 1..(Len(elems) + 1)
  BY DEF len
<1> HIDE DEF up
<1>6. LET t == SubSeq(elems, 1, i - 1) \o <<Written(i, a, x)>> \o up
      IN t \in Seq(Stored) /\ Len(t) = Len(elems) + 1
  BY <1>2, <1>4, <1>5, WithOneMore
<1>. QED
  BY <1>6 DEF up, len

LEMMA TypeInit == Init => TypeOK
<1> SUFFICES ASSUME Init PROVE TypeOK
  OBVIOUS
<1>1. elems \in Seq(Elem \cup {Uninit}) /\ given \in Seq(Elem)
  BY EmptySeq DEF Init
<1>2. grow \in 0..GrowMax /\ alloc \in Nat
  BY DEF Init
<1>. QED
  BY <1>1, <1>2 DEF Init, TypeOK, Phases

LEMMA TypeStep == TypeOK /\ [Next]_vars => TypeOK'
<1> SUFFICES ASSUME TypeOK, [Next]_vars PROVE TypeOK'
  OBVIOUS
<1>1. Numbers /\ len \in Nat /\ elems \in Seq(Stored)
  BY DEF TypeOK, Numbers, len, Stored
<1> USE DEF TypeOK, Phases
<1>2. ASSUME NEW n \in 0..MaxLen, WithCapacity(n) PROVE TypeOK'
  <2>1. PICK a \in Allocations(n) : alloc' = a /\ grow' = GrowWithCapacity(n, a)
    BY <1>2 DEF WithCapacity
  <2>2. a \in Nat /\ n <= a
    BY <1>1, <2>1, AllocationFits DEF Numbers
  <2>. QED
    <3>1. alloc' \in Nat /\ grow' \in 0..GrowMax
      BY <2>1, <2>2, WithCapacityFits
    <3>2. elems' \in Seq(Stored)
      BY <1>2, EmptySeq DEF WithCapacity
    <3>. QED
      BY <1>2, <3>1, <3>2 DEF WithCapacity, Stored
<1>3. ASSUME NEW more \in 0..MaxLen, Reserve(more) PROVE TypeOK'
  <2>1. PICK a \in Reallocations(len + more) : alloc' = a /\ grow' = GrowAfterReserve(more, a)
    BY <1>3 DEF Reserve
  <2>2. a \in Nat /\ len + more <= a
    BY <1>1, <2>1, AllocationFits DEF Numbers
  <2>. QED
    <3>1. alloc' \in Nat /\ grow' \in 0..GrowMax
      BY <1>1, <2>1, <2>2, ReserveFits
    <3>. QED
      BY <1>3, <3>1 DEF Reserve
<1>4. ASSUME NEW x \in Elem, Push(x) PROVE TypeOK'
  BY <1>1, <1>4, AppendOneStep DEF Push, Stored
<1>5. ASSUME NEW i \in 1..(len + 1), NEW x \in Elem, InsertMut(i, x) PROVE TypeOK'
  <2>1. PICK r \in Room :
          /\ alloc' = r.a
          /\ grow' = WrapDown(r.g)
          /\ elems' = SubSeq(elems, 1, i - 1) \o <<Written(i, r.a, x)>>
                        \o [k \in 1..(len - i + 1) |-> Written(i + k, r.a, elems[i + k - 1])]
    BY <1>5 DEF InsertMut
  <2>2. r.a \in Nat /\ r.g \in 0..GrowMax
    BY <1>1, RoomCounted
  <2>3. elems' \in Seq(Stored)
    BY <1>1, <2>1, <2>2, InsertedOne
  <2>. QED
    BY <1>5, <2>1, <2>2, <2>3, WrapFits DEF InsertMut, Stored
<1>6. ASSUME NEW i \in 1..len, Remove(i) PROVE TypeOK'
  <2>1. elems' \in Seq(Stored)
    BY <1>1, <1>6, WithoutOne DEF Remove, len
  <2>2. grow' \in 0..GrowMax /\ ~null
    BY <1>1, <1>6, WrapFits DEF Remove, Numbers, len
  <2>. QED
    BY <1>6, <2>1, <2>2 DEF Remove, Stored
<1>7. CASE Pop
  <2>1. elems' \in Seq(Stored)
    BY <1>1, <1>7, WithoutLast DEF Pop, len
  <2>. QED
    BY <1>7, <2>1, WrapFits DEF Pop, Stored
<1>8. CASE Clear
  BY <1>1, <1>8 DEF Clear, Smaller
<1>9. ASSUME NEW n \in 0..MaxLen, NEW x \in Elem, ExtendWith(n, x) PROVE TypeOK'
  <2>1. PICK a \in Reallocations(len + n) :
          /\ alloc' = a
          /\ elems' = elems \o [k \in 1..n |-> Written(len + k, a, x)]
          /\ grow' = GrowForLen(len + GrowAfterReserve(n, a), len + n)
          /\ past' = (past \/ PastCapacity(len + GrowAfterReserve(n, a), len + n))
    BY <1>9 DEF ExtendWith
  <2>2. a \in Nat /\ len + n <= a
    BY <1>1, <2>1, AllocationFits DEF Numbers
  <2>3. GrowAfterReserve(n, a) \in 0..GrowMax
    BY <1>1, <2>2, ReserveFits
  <2>4. grow' \in 0..GrowMax
    <3>1. len + GrowAfterReserve(n, a) \in Nat /\ len + n \in Nat
      BY <1>1, <2>3
    <3>. QED
      BY <2>1, <3>1, GrowForLenFits
  <2>5. [k \in 1..n |-> Written(len + k, a, x)] \in [1..n -> Stored]
    BY <1>1, <2>2, WrittenStored DEF Stored
  <2>6. elems' \in Seq(Stored)
    <3>1. n \in Nat
      OBVIOUS
    <3>. QED
      BY <1>1, <2>1, <2>5, <3>1, WithFilled
  <2>7. past' \in BOOLEAN
    BY <2>1 DEF PastCapacity
  <2>. QED
    BY <1>9, <2>1, <2>2, <2>4, <2>6, <2>7 DEF ExtendWith, Stored
<1>10. ASSUME NEW s \in Slices, BeginExtend(s) PROVE TypeOK'
  BY <1>10 DEF BeginExtend, Slices
<1>11. ASSUME NEW s \in Slices, BeginCopy(s) PROVE TypeOK'
  BY <1>11 DEF BeginCopy, Slices
<1>12. ASSUME NEW more \in 0..(Len(given) - 1), ExtendNext(more) PROVE TypeOK'
  <2>1. PICK r \in IF len = Capacity
                   THEN {[a |-> a, g |-> GrowAfterReserve(more + 1, a)] :
                           a \in Reallocations(len + more + 1)}
                   ELSE {[a |-> alloc, g |-> grow]} :
          /\ alloc' = r.a
          /\ elems' = Append(elems, Written(len + 1, r.a, Head(given)))
          /\ grow' = GrowForLen(len + r.g, len + 1)
          /\ past' = (past \/ PastCapacity(len + r.g, len + 1))
    BY <1>12 DEF ExtendNext
  <2>2. r.a \in Nat /\ r.g \in 0..GrowMax
    <3>1. CASE len = Capacity
      <4>1. PICK a \in Reallocations(len + more + 1) :
              r = [a |-> a, g |-> GrowAfterReserve(more + 1, a)]
        BY <2>1, <3>1
      <4>2. len + more + 1 = len + (more + 1) /\ more + 1 \in Nat
        BY <1>1
      <4>3. a \in Nat /\ len + (more + 1) <= a
        BY <1>1, <4>1, <4>2, AllocationFits DEF Numbers
      <4>4. GrowAfterReserve(more + 1, a) \in 0..GrowMax
        BY <1>1, <4>2, <4>3, ReserveFits
      <4>. QED
        BY <4>1, <4>3, <4>4
    <3>2. CASE len # Capacity
      BY <1>1, <2>1, <3>2 DEF Numbers
    <3>. QED
      BY <3>1, <3>2
  <2>3. Head(given) \in Stored /\ given' \in Seq(Elem)
    BY <1>12, HeadTailProperties DEF ExtendNext, Stored
  <2>4. Written(len + 1, r.a, Head(given)) \in Stored
    BY <1>1, <2>2, <2>3, WrittenStored
  <2>5. elems' \in Seq(Stored)
    BY <1>1, <2>1, <2>4, AppendProperties
  <2>6. grow' \in 0..GrowMax
    <3>1. len + r.g \in Nat /\ len + 1 \in Nat
      BY <1>1, <2>2
    <3>. QED
      BY <2>1, <3>1, GrowForLenFits
  <2>7. past' \in BOOLEAN
    BY <2>1 DEF PastCapacity
  <2>. QED
    BY <1>12, <2>1, <2>2, <2>3, <2>5, <2>6, <2>7 DEF ExtendNext, Stored
<1>13. ASSUME NEW s \in Slices, NEW size \in {0, Len(s)}, BeginCollect(s, size) PROVE TypeOK'
  <2>1. s \in Seq(Elem) /\ size \in Nat
    BY DEF Slices
  <2>2. PICK a \in Allocations(size) : alloc' = a /\ grow' = GrowWithCapacity(size, a)
    BY <1>13 DEF BeginCollect
  <2>3. a \in Nat /\ size <= a
    BY <1>1, <2>1, <2>2, AllocationFits DEF Numbers
  <2>. QED
    <3>1. alloc' \in Nat /\ grow' \in 0..GrowMax
      BY <2>1, <2>2, <2>3, WithCapacityFits
    <3>2. elems' \in Seq(Stored)
      BY <1>13, EmptySeq DEF BeginCollect
    <3>. QED
      BY <1>13, <2>1, <3>1, <3>2 DEF BeginCollect, Stored
<1>14. CASE CollectNext
  <2>1. Head(given) \in Elem /\ given' \in Seq(Elem)
    BY <1>14, HeadTailProperties DEF CollectNext
  <2>. QED
    BY <1>1, <1>14, <2>1, AppendOneStep DEF CollectNext, Stored
<1>15. CASE EndOfIterator
  BY <1>15 DEF EndOfIterator
<1>16. CASE ToVppVec
  <2> DEFINE n == Len(given)
  <2>1. n \in Nat /\ \A k \in 1..n : given[k] \in Elem
    BY LenProperties
  <2>2. PICK a \in Allocations(n) :
          LET slots == GrowWithCapacity(n, a)
          IN /\ alloc' = a
             /\ elems' = [k \in 1..n |-> IF k <= slots THEN Written(k, a, given[k]) ELSE Uninit]
             /\ grow' = GrowForLen(slots, n)
             /\ past' = (past \/ PastCapacity(slots, n))
    BY <1>16 DEF ToVppVec
  <2>3. a \in Nat /\ n <= a
    BY <1>1, <2>1, <2>2, AllocationFits DEF Numbers
  <2>4. GrowWithCapacity(n, a) \in 0..GrowMax
    BY <2>1, <2>3, WithCapacityFits
  <2>5. grow' \in 0..GrowMax
    <3>1. grow' = GrowForLen(GrowWithCapacity(n, a), n)
      BY <2>2
    <3>2. GrowWithCapacity(n, a) \in Nat
      BY <2>4
    <3>. QED
      BY <2>1, <3>1, <3>2, GrowForLenFits
  <2>6. past' \in BOOLEAN
    BY <2>2 DEF PastCapacity
  <2>7. elems' \in [1..n -> Stored]
    <3>1. \A k \in 1..n : Written(k, a, given[k]) \in Stored
      BY <2>1, <2>3, WrittenStored DEF Stored
    <3>. QED
      BY <2>2, <3>1 DEF Stored
  <2>8. elems' \in Seq(Stored)
    BY <2>1, <2>7, Filled
  <2>9. given' \in Seq(Elem) /\ alloc' \in Nat
    BY <1>16, <2>2, <2>3, EmptySeq DEF ToVppVec
  <2>. QED
    BY <1>16, <2>5, <2>6, <2>8, <2>9 DEF ToVppVec, Stored
<1>17. CASE IntoIter
  BY <1>17 DEF IntoIter
<1>18. CASE IterNext
  <2>1. elems' \in Seq(Stored)
    <3>1. elems # <<>> /\ elems' \in {Tail(elems), SubSeq(elems, 1, Len(elems) - 1)}
      BY <1>18 DEF IterNext, len
    <3>2. Tail(elems) \in Seq(Stored)
      BY <1>1, <3>1, HeadTailProperties
    <3>3. SubSeq(elems, 1, Len(elems) - 1) \in Seq(Stored)
      BY <1>1, <3>1, WithoutLast
    <3>. QED
      BY <3>1, <3>2, <3>3
  <2>2. ~null
    BY <1>18 DEF IterNext
  <2>. QED
    BY <1>18, <2>1, <2>2 DEF IterNext, Stored
<1>19. CASE Drop
  BY <1>19 DEF Drop
<1>20. CASE UNCHANGED vars
  BY <1>20 DEF vars
<1>. QED
  BY <1>2, <1>3, <1>4, <1>5, <1>6, <1>7, <1>8, <1>9, <1>10, <1>11, <1>12, <1>13, <1>14,
     <1>15, <1>16, <1>17, <1>18, <1>19, <1>20 DEF Next

THEOREM TypeCorrect == Spec => []TypeOK
<1>. QED
  BY TypeInit, TypeStep, PTL DEF Spec
-----------------------------------------------------------------------------
(* Capacity.  past and the end of a vector's use are the exceptions of     *)
(* CapacityIsAllocated; neither ends but by Drop.                          *)
LEMMA CapacityInit == Init => CapacityIsAllocated
BY DEF Init, CapacityIsAllocated, Capacity

LEMMA AppendOneCapacity ==
  ASSUME TypeOK, CapacityIsAllocated, ~past, phase # "iter", NEW x \in Elem, AppendOne(x)
  PROVE  Capacity' <= alloc'
<1>1. PICK r \in Room : /\ alloc' = r.a
                        /\ grow' = WrapDown(r.g)
                        /\ elems' = Append(elems, Written(len + 1, r.a, x))
  BY DEF AppendOne
<1>2. r.a \in Nat /\ r.g \in 1..GrowMax /\ len + r.g <= r.a /\ len \in Nat
  BY RoomFits DEF TypeOK, len
<1>3. len' = len + 1
  BY <1>1 DEF TypeOK, len
<1>4. grow' = r.g - 1
  <2>1. r.g \in 0..GrowMax /\ r.g > 0
    BY <1>2
  <2>. QED
    BY <1>1, <2>1, WrapFits
<1>5. null' = FALSE
  BY DEF AppendOne
<1>. QED
  BY <1>1, <1>2, <1>3, <1>4, <1>5 DEF Capacity

LEMMA CapacityStep ==
  TypeOK /\ CapacityIsAllocated /\ [Next]_vars => CapacityIsAllocated'
<1> SUFFICES ASSUME TypeOK, CapacityIsAllocated, [Next]_vars, ~past', phase' # "iter"
             PROVE  Capacity' <= alloc'
  BY DEF CapacityIsAllocated
<1>1. /\ Numbers /\ Numbers' /\ len \in Nat /\ len' \in Nat /\ elems \in Seq(Stored)
      /\ null' => Capacity' = 0
  BY TypeStep DEF TypeOK, Numbers, len, Stored, Capacity
<1>2. CASE null'
  BY <1>1, <1>2 DEF Numbers
<1> SUFFICES ASSUME ~null' PROVE len' + grow' <= alloc'
  BY <1>2 DEF Capacity
<1>3. ASSUME NEW n \in 0..MaxLen, WithCapacity(n) PROVE len' + grow' <= alloc'
  <2>1. PICK a \in Allocations(n) : alloc' = a /\ grow' = GrowWithCapacity(n, a)
    BY <1>3 DEF WithCapacity
  <2>2. a \in Nat /\ n <= a /\ len' = 0
    BY <1>1, <1>3, <2>1, AllocationFits DEF Numbers, WithCapacity, len
  <2>. QED
    BY <2>1, <2>2, WithCapacityFits
<1>4. ASSUME NEW more \in 0..MaxLen, Reserve(more) PROVE len' + grow' <= alloc'
  <2>1. PICK a \in Reallocations(len + more) : alloc' = a /\ grow' = GrowAfterReserve(more, a)
    BY <1>4 DEF Reserve
  <2>2. a \in Nat /\ len + more <= a /\ len' = len
    BY <1>1, <1>4, <2>1, AllocationFits DEF Numbers, Reserve, len
  <2>. QED
    BY <1>1, <2>1, <2>2, ReserveFits
<1>5. ASSUME NEW x \in Elem, Push(x) PROVE len' + grow' <= alloc'
  <2>1. ~past /\ phase # "iter" /\ AppendOne(x)
    BY <1>5 DEF Push, InUse
  <2>. QED
    BY <2>1, AppendOneCapacity DEF Capacity
<1>6. ASSUME NEW i \in 1..(len + 1), NEW x \in Elem, InsertMut(i, x)
      PROVE  len' + grow' <= alloc'
  <2>1. PICK r \in Room :
          /\ alloc' = r.a
          /\ grow' = WrapDown(r.g)
          /\ elems' = SubSeq(elems, 1, i - 1) \o <<Written(i, r.a, x)>>
                        \o [k \in 1..(len - i + 1) |-> Written(i + k, r.a, elems[i + k - 1])]
    BY <1>6 DEF InsertMut
  <2>2. ~past /\ phase # "iter"
    BY <1>6 DEF InsertMut, InUse
  <2>3. r.a \in Nat /\ r.g \in 1..GrowMax /\ len + r.g <= r.a
    BY <2>1, <2>2, RoomFits
  <2>4. grow' = r.g - 1
    <3>1. r.g \in 0..GrowMax /\ r.g > 0
      BY <2>3
    <3>. QED
      BY <2>1, <3>1, WrapFits
  <2>5. len' = len + 1
    BY <1>1, <2>1, <2>3, InsertedOne DEF len
  <2>. QED
    BY <1>1, <2>1, <2>3, <2>4, <2>5
<1>7. ASSUME NEW i \in 1..len, Remove(i) PROVE len' + grow' <= alloc'
  <2>1. len' = len - 1
    BY <1>1, <1>7, WithoutOne DEF Remove, len
  <2>2. grow' <= grow + 1 /\ alloc' = alloc
    BY <1>1, <1>7, WrapFits DEF Remove, Numbers
  <2>3. len + grow <= alloc
    BY <1>7 DEF Remove, InUse, CapacityIsAllocated, Capacity
  <2>4. grow \in Nat /\ grow' \in Nat /\ alloc \in Nat /\ alloc' \in Nat
    BY <1>1 DEF Numbers
  <2>5. len \in Nat /\ len' \in Nat
    BY <1>1
  <2>. QED
    BY <2>1, <2>2, <2>3, <2>4, <2>5 DEF len
<1>8. CASE Pop
  <2>1. len' = len - 1
    BY <1>1, <1>8, WithoutLast DEF Pop, len
  <2>2. grow' <= grow + 1 /\ alloc' = alloc
    BY <1>1, <1>8, WrapFits DEF Pop, Numbers
  <2>3. len + grow <= alloc
    BY <1>8 DEF Pop, InUse, CapacityIsAllocated, Capacity
  <2>4. grow \in Nat /\ grow' \in Nat /\ alloc \in Nat /\ alloc' \in Nat
    BY <1>1 DEF Numbers
  <2>5. len \in Nat /\ len' \in Nat
    BY <1>1
  <2>. QED
    BY <2>1, <2>2, <2>3, <2>4, <2>5 DEF len
<1>9. CASE Clear
  <2>1. len' = 0 /\ alloc' = alloc /\ grow' = Smaller(len + grow, GrowMax)
    BY <1>9 DEF Clear, len
  <2>2. len + grow <= alloc
    BY <1>9 DEF Clear, InUse, CapacityIsAllocated, Capacity
  <2>. QED
    BY <1>1, <2>1, <2>2 DEF Numbers, Smaller
<1>10. ASSUME NEW n \in 0..MaxLen, NEW x \in Elem, ExtendWith(n, x)
       PROVE  len' + grow' <= alloc'
  <2>1. PICK a \in Reallocations(len + n) :
          /\ alloc' = a
          /\ elems' = elems \o [k \in 1..n |-> Written(len + k, a, x)]
          /\ grow' = GrowForLen(len + GrowAfterReserve(n, a), len + n)
          /\ past' = (past \/ PastCapacity(len + GrowAfterReserve(n, a), len + n))
    BY <1>10 DEF ExtendWith
  <2>2. a \in Nat /\ len + n <= a
    BY <1>1, <2>1, AllocationFits DEF Numbers
  <2> DEFINE c == len + GrowAfterReserve(n, a)
  <2>3. c \in Nat /\ c <= a
    <3>1. n \in Nat
      OBVIOUS
    <3>2. GrowAfterReserve(n, a) \in 0..GrowMax /\ len + GrowAfterReserve(n, a) <= a
      BY <1>1, <2>2, <3>1, ReserveFits
    <3>. QED
      BY <1>1, <3>2
  <2>4. len + n \in Nat /\ len + n <= c
    <3>1. ~PastCapacity(c, len + n)
      BY <2>1
    <3> HIDE DEF c
    <3>. QED
      BY <1>1, <2>3, <3>1 DEF PastCapacity
  <2>5. len' = len + n
    <3>1. n \in Nat /\ [k \in 1..n |-> Written(len + k, a, x)] \in [1..n -> Stored]
      BY <1>1, <2>2, WrittenStored DEF Stored
    <3>. QED
      BY <1>1, <2>1, <3>1, WithFilled DEF len
  <2>6. len + n + grow' <= c
    <3> HIDE DEF c
    <3>. QED
      BY <2>1, <2>3, <2>4, GrowForLenFits DEF c
  <2>. QED
    BY <1>1, <2>1, <2>3, <2>5, <2>6 DEF Numbers
<1>11. ASSUME NEW s \in Slices, BeginExtend(s) PROVE len' + grow' <= alloc'
  BY <1>11 DEF BeginExtend, InUse, CapacityIsAllocated, Capacity, len
<1>12. ASSUME NEW s \in Slices, BeginCopy(s) PROVE len' + grow' <= alloc'
  BY <1>12 DEF BeginCopy
<1>13. ASSUME NEW more \in 0..(Len(given) - 1), ExtendNext(more) PROVE len' + grow' <= alloc'
  <2>1. PICK r \in IF len = Capacity
                   THEN {[a |-> a, g |-> GrowAfterReserve(more + 1, a)] :
                           a \in Reallocations(len + more + 1)}
                   ELSE {[a |-> alloc, g |-> grow]} :
          /\ alloc' = r.a
          /\ elems' = Append(elems, Written(len + 1, r.a, Head(given)))
          /\ grow' = GrowForLen(len + r.g, len + 1)
          /\ past' = (past \/ PastCapacity(len + r.g, len + 1))
    BY <1>13 DEF ExtendNext
  <2>2. ~past /\ phase # "iter" /\ ~PastCapacity(len + r.g, len + 1)
    BY <1>13, <2>1 DEF ExtendNext
  <2>3. r.a \in Nat /\ r.g \in Nat /\ len + r.g <= r.a
    <3>1. CASE len = Capacity
      <4>1. PICK a \in Reallocations(len + more + 1) :
              r = [a |-> a, g |-> GrowAfterReserve(more + 1, a)]
        BY <2>1, <3>1
      <4>2. len + more + 1 = len + (more + 1) /\ more + 1 \in Nat
        BY <1>1
      <4>3. a \in Nat /\ len + (more + 1) <= a
        BY <1>1, <4>1, <4>2, AllocationFits DEF Numbers
      <4>4. GrowAfterReserve(more + 1, a) \in 0..GrowMax
            /\ len + GrowAfterReserve(more + 1, a) <= a
        BY <1>1, <4>2, <4>3, ReserveFits
      <4>. QED
        BY <4>1, <4>3, <4>4
    <3>2. CASE len # Capacity
      <4>1. r = [a |-> alloc, g |-> grow] /\ ~null
        BY <1>1, <2>1, <3>2 DEF Capacity, TypeOK, len
      <4>. QED
        BY <1>1, <2>2, <4>1 DEF Numbers, CapacityIsAllocated, Capacity
    <3>. QED
      BY <3>1, <3>2
  <2>4. len' = len + 1
    BY <1>1, <2>1, AppendProperties DEF len
  <2>5. len + 1 + grow' <= len + r.g
    <3> DEFINE c == len + r.g
               d == len + 1
    <3>1. c \in Nat /\ d \in Nat /\ d <= c
      BY <1>1, <2>2, <2>3 DEF PastCapacity
    <3>2. grow' = GrowForLen(c, d)
      BY <2>1
    <3> HIDE DEF c, d
    <3>3. d + grow' <= c
      BY <3>1, <3>2, GrowForLenFits
    <3>. QED
      BY <3>3 DEF c, d
  <2>. QED
    BY <1>1, <2>1, <2>3, <2>4, <2>5 DEF Numbers
<1>14. ASSUME NEW s \in Slices, NEW size \in {0, Len(s)}, BeginCollect(s, size)
       PROVE  len' + grow' <= alloc'
  <2>1. size \in Nat
    BY DEF Slices
  <2>2. PICK a \in Allocations(size) : alloc' = a /\ grow' = GrowWithCapacity(size, a)
    BY <1>14 DEF BeginCollect
  <2>3. a \in Nat /\ size <= a /\ len' = 0
    BY <1>1, <1>14, <2>1, <2>2, AllocationFits DEF Numbers, BeginCollect, len
  <2>. QED
    BY <2>1, <2>2, <2>3, WithCapacityFits
<1>15. CASE CollectNext
  <2>1. ~past /\ phase # "iter" /\ AppendOne(Head(given)) /\ Head(given) \in Elem
    BY <1>1, <1>15, HeadTailProperties DEF CollectNext, Numbers
  <2>. QED
    BY <2>1, AppendOneCapacity DEF Capacity
<1>16. CASE EndOfIterator
  BY <1>16 DEF EndOfIterator, CapacityIsAllocated, Capacity, len
<1>17. CASE ToVppVec
  <2> DEFINE n == Len(given)
  <2>1. PICK a \in Allocations(n) :
          LET slots == GrowWithCapacity(n, a)
          IN /\ alloc' = a
             /\ elems' = [k \in 1..n |-> IF k <= slots THEN Written(k, a, given[k]) ELSE Uninit]
             /\ grow' = GrowForLen(slots, n)
             /\ past' = (past \/ PastCapacity(slots, n))
    BY <1>17 DEF ToVppVec
  <2>2. n \in Nat
    BY <1>1 DEF Numbers
  <2>3. a \in Nat /\ n <= a
    BY <1>1, <2>1, <2>2, AllocationFits DEF Numbers
  <2> DEFINE slots == GrowWithCapacity(n, a)
  <2>4. slots \in Nat /\ slots <= a
    BY <2>2, <2>3, WithCapacityFits
  <2>5. n <= slots
    <3>1. ~PastCapacity(slots, n)
      BY <2>1
    <3> HIDE DEF n, slots
    <3>. QED
      BY <2>2, <2>4, <3>1 DEF PastCapacity
  <2>6. len' = n
    BY <1>1, <2>1, <2>2 DEF Numbers, len
  <2>7. n + grow' <= slots
    <3>1. grow' = GrowForLen(slots, n)
      BY <2>1
    <3> HIDE DEF n, slots
    <3>. QED
      BY <2>2, <2>4, <2>5, <3>1, GrowForLenFits
  <2>. QED
    BY <1>1, <2>1, <2>4, <2>6, <2>7 DEF Numbers
<1>18. CASE IntoIter
  BY <1>18 DEF IntoIter
<1>19. CASE IterNext
  BY <1>19 DEF IterNext
<1>20. CASE Drop
  BY <1>20 DEF Drop
<1>21. CASE UNCHANGED vars
  BY <1>21 DEF vars, CapacityIsAllocated, Capacity, len
<1>. QED
  BY <1>3, <1>4, <1>5, <1>6, <1>7, <1>8, <1>9, <1>10, <1>11, <1>12, <1>13, <1>14,
     <1>15, <1>16, <1>17, <1>18, <1>19, <1>20, <1>21 DEF Next

(* No vector claims room it does not have, whatever the width of grow_elts *)
(* and however much more than asked the allocator gives.                   *)
THEOREM CapacityAlwaysAllocated == Spec => []CapacityIsAllocated
<1>1. Init => TypeOK /\ CapacityIsAllocated
  BY TypeInit, CapacityInit
<1>2. TypeOK /\ CapacityIsAllocated /\ [Next]_vars => (TypeOK /\ CapacityIsAllocated)'
  BY TypeStep, CapacityStep
<1>. QED
  BY <1>1, <1>2, PTL DEF Spec
-----------------------------------------------------------------------------
(* The vector implements the array of GrowableArray.                       *)

(* A slice or an iterator is at hand only while it is being used. *)
Sources == /\ phase = "copy" => elems = <<>>
           /\ phase \in {"vec", "iter"} => given = <<>>

ArrayInv == TypeOK /\ CapacityIsAllocated /\ Sources

LEMMA SourcesStep == TypeOK /\ Sources /\ [Next]_vars => Sources'
<1> SUFFICES ASSUME TypeOK, Sources, [Next]_vars PROVE Sources'
  OBVIOUS
<1> USE DEF Sources, InUse
<1>1. ASSUME NEW n \in 0..MaxLen, WithCapacity(n) \/ Reserve(n) PROVE Sources'
  BY <1>1 DEF WithCapacity, Reserve
<1>2. ASSUME NEW x \in Elem, Push(x) PROVE Sources'
  BY <1>2 DEF Push
<1>3. ASSUME NEW i \in 1..(len + 1), NEW x \in Elem, InsertMut(i, x) PROVE Sources'
  BY <1>3 DEF InsertMut
<1>4. ASSUME NEW i \in 1..len, Remove(i) PROVE Sources'
  BY <1>4 DEF Remove
<1>5. CASE Pop \/ Clear
  BY <1>5 DEF Pop, Clear
<1>6. ASSUME NEW n \in 0..MaxLen, NEW x \in Elem, ExtendWith(n, x) PROVE Sources'
  BY <1>6 DEF ExtendWith
<1>7. ASSUME NEW s \in Slices, BeginExtend(s) \/ BeginCopy(s) PROVE Sources'
  BY <1>7 DEF BeginExtend, BeginCopy
<1>8. ASSUME NEW more \in 0..(Len(given) - 1), ExtendNext(more) PROVE Sources'
  BY <1>8 DEF ExtendNext
<1>9. ASSUME NEW s \in Slices, NEW size \in {0, Len(s)}, BeginCollect(s, size) PROVE Sources'
  BY <1>9 DEF BeginCollect
<1>10. CASE CollectNext \/ EndOfIterator \/ ToVppVec
  BY <1>10 DEF CollectNext, EndOfIterator, ToVppVec
<1>11. CASE IntoIter \/ IterNext \/ Drop
  BY <1>11 DEF IntoIter, IterNext, Drop
<1>12. CASE UNCHANGED vars
  BY <1>12 DEF vars
<1>. QED
  BY <1>1, <1>2, <1>3, <1>4, <1>5, <1>6, <1>7, <1>8, <1>9, <1>10, <1>11, <1>12 DEF Next

(* Once the length was set past the capacity, nothing takes that back. *)
LEMMA PastStays == past /\ [Next]_vars => past'
<1> SUFFICES ASSUME past, [Next]_vars PROVE past'
  OBVIOUS
<1>. QED
  BY DEF Next, vars, WithCapacity, Reserve, Push, InsertMut, Remove, Pop, Clear, ExtendWith,
         BeginExtend, BeginCopy, ExtendNext, BeginCollect, CollectNext, EndOfIterator,
         ToVppVec, IntoIter, IterNext, Drop
-----------------------------------------------------------------------------
(* What the operations do to the elements is what an array's would do.     *)

LEMMA SuffixIsSubSeq ==
  ASSUME NEW s \in Seq(Stored), NEW i \in 1..(Len(s) + 1)
  PROVE  [k \in 1..(Len(s) - i + 1) |-> s[i + k - 1]] = SubSeq(s, i, Len(s))
<1> DEFINE n == Len(s) - i + 1
           up == [k \in 1..n |-> s[i + k - 1]]
           sub == SubSeq(s, i, Len(s))
<1>1. n \in Nat /\ Len(s) \in Nat /\ \A k \in 1..Len(s) : s[k] \in Stored
  BY LenProperties
<1>2. up \in Seq(Stored) /\ Len(up) = n
  <2>1. \A k \in 1..n : s[i + k - 1] \in Stored
    BY <1>1
  <2>2. up \in [1..n -> Stored]
    BY <2>1
  <2> HIDE DEF up, n
  <2>. QED
    BY <1>1, <2>2, Filled
<1>3. /\ sub \in Seq(Stored)
      /\ Len(sub) = IF i <= Len(s) THEN Len(s) - i + 1 ELSE 0
      /\ \A k \in 1..(Len(s) - i + 1) : sub[k] = s[i + k - 1]
  BY <1>1, SubSeqProperties
<1>4. Len(sub) = n
  BY <1>1, <1>3
<1>5. \A k \in 1..n : up[k] = sub[k]
  BY <1>3
<1> HIDE DEF up, sub, n
<1>6. up = sub
  BY <1>2, <1>3, <1>4, <1>5, SeqEqual
<1>. QED
  BY <1>6 DEF up, sub, n

LEMMA AppendIsInsert ==
  ASSUME NEW s \in Seq(Stored), NEW x \in Stored
  PROVE  Append(s, x) = SubSeq(s, 1, Len(s) + 1 - 1) \o <<x>> \o SubSeq(s, Len(s) + 1, Len(s))
<1>1. Len(s) \in Nat /\ Len(s) + 1 - 1 = Len(s)
  BY LenProperties
<1>2. SubSeq(s, 1, Len(s) + 1 - 1) = s
  BY <1>1, SubSeqFull
<1>3. SubSeq(s, Len(s) + 1, Len(s)) = <<>>
  BY <1>1, SubSeqEmpty
<1>4. Append(s, x) = s \o <<x>> /\ Append(s, x) \in Seq(Stored)
  BY AppendIsConcat, AppendProperties
<1>. QED
  BY <1>2, <1>3, <1>4, ConcatEmptySeq

LEMMA EndsAreRemoved ==
  ASSUME NEW s \in Seq(Stored), s # <<>>
  PROVE  /\ Len(s) \in 1..Len(s)
         /\ 1 \in 1..Len(s)
         /\ SubSeq(s, 1, Len(s) - 1)
              = SubSeq(s, 1, Len(s) - 1) \o SubSeq(s, Len(s) + 1, Len(s))
         /\ Tail(s) = SubSeq(s, 1, 1 - 1) \o SubSeq(s, 1 + 1, Len(s))
<1>1. Len(s) \in Nat \ {0}
  BY EmptySeq
<1>2. SubSeq(s, Len(s) + 1, Len(s)) = <<>>
  BY <1>1, SubSeqEmpty
<1>3. SubSeq(s, 1, 0) = <<>>
  BY SubSeqEmpty
<1>4. Tail(s) = SubSeq(s, 2, Len(s)) /\ Tail(s) \in Seq(Stored)
  BY TailIsSubSeq, HeadTailProperties
<1>5. SubSeq(s, 1, Len(s) - 1) \in Seq(Stored)
  BY WithoutLast
<1>6. SubSeq(s, 1, Len(s) - 1) \o <<>> = SubSeq(s, 1, Len(s) - 1)
  BY <1>5, ConcatEmptySeq
<1>7. <<>> \o Tail(s) = Tail(s)
  BY <1>4, ConcatEmptySeq
<1>8. 1 - 1 = 0 /\ 1 + 1 = 2
  OBVIOUS
<1>9. Tail(s) = SubSeq(s, 1, 1 - 1) \o SubSeq(s, 1 + 1, Len(s))
  BY <1>3, <1>4, <1>7, <1>8
<1>10. SubSeq(s, 1, Len(s) - 1) = SubSeq(s, 1, Len(s) - 1) \o SubSeq(s, Len(s) + 1, Len(s))
  BY <1>2, <1>6
<1>. QED
  BY <1>1, <1>9, <1>10

LEMMA PushedOne ==
  ASSUME TypeOK, CapacityIsAllocated, ~past, phase # "iter", NEW x \in Elem, AppendOne(x)
  PROVE  elems' = Append(elems, x)
<1>1. PICK r \in Room : elems' = Append(elems, Written(len + 1, r.a, x))
  BY DEF AppendOne
<1>2. r.a \in Nat /\ r.g \in 1..GrowMax /\ len + r.g <= r.a
  BY RoomFits
<1>3. len \in Nat
  BY DEF TypeOK, len
<1>4. len + 1 <= r.a
  BY <1>2, <1>3
<1>. QED
  BY <1>1, <1>4 DEF Written

LEMMA InsertedAt ==
  ASSUME TypeOK, CapacityIsAllocated, ~past, NEW i \in 1..(len + 1), NEW x \in Elem,
         InsertMut(i, x)
  PROVE  elems' = SubSeq(elems, 1, i - 1) \o <<x>> \o SubSeq(elems, i, Len(elems))
<1>1. PICK r \in Room :
        elems' = SubSeq(elems, 1, i - 1) \o <<Written(i, r.a, x)>>
                   \o [k \in 1..(len - i + 1) |-> Written(i + k, r.a, elems[i + k - 1])]
  BY DEF InsertMut
<1>2. r.a \in Nat /\ r.g \in 1..GrowMax /\ len + r.g <= r.a
  BY RoomFits DEF InsertMut, InUse
<1>3. len \in Nat /\ elems \in Seq(Stored)
  BY DEF TypeOK, len, Stored
<1>4. len + 1 <= r.a
  BY <1>2, <1>3
<1>5. Written(i, r.a, x) = x
  BY <1>2, <1>3, <1>4 DEF Written
<1>6. \A k \in 1..(len - i + 1) : Written(i + k, r.a, elems[i + k - 1]) = elems[i + k - 1]
  BY <1>2, <1>3, <1>4 DEF Written
<1>7. [k \in 1..(len - i + 1) |-> Written(i + k, r.a, elems[i + k - 1])]
        = [k \in 1..(Len(elems) - i + 1) |-> elems[i + k - 1]]
  BY <1>6 DEF len
<1>8. i \in 1..(Len(elems) + 1)
  BY DEF len
<1>. QED
  BY <1>1, <1>3, <1>5, <1>7, <1>8, SuffixIsSubSeq

(* extend_with, as long as the room that reserve left is enough. *)
LEMMA Cloned ==
  ASSUME TypeOK, NEW n \in Nat, NEW x \in Elem, NEW a \in Nat, len + n <= a,
         elems' = elems \o [k \in 1..n |-> Written(len + k, a, x)]
  PROVE  /\ Len(elems') = Len(elems) + n
         /\ SubSeq(elems', 1, Len(elems)) = elems
         /\ \A i \in (Len(elems) + 1)..Len(elems') : elems'[i] = x
<1> DEFINE f == [k \in 1..n |-> Written(len + k, a, x)]
<1>1. len \in Nat /\ elems \in Seq(Stored) /\ len = Len(elems)
  BY DEF TypeOK, len, Stored
<1>2. f \in [1..n -> Stored] /\ \A k \in 1..n : f[k] = x
  BY <1>1 DEF Written, Stored
<1> HIDE DEF f
<1>3. f \in Seq(Stored) /\ Len(f) = n
  BY <1>2, Filled
<1>4. /\ elems' \in Seq(Stored)
      /\ Len(elems') = Len(elems) + n
      /\ \A i \in 1..(Len(elems) + n) :
           elems'[i] = IF i <= Len(elems) THEN elems[i] ELSE f[i - Len(elems)]
  <2>1. elems' = elems \o f
    BY DEF f
  <2>2. /\ elems \o f \in Seq(Stored)
        /\ Len(elems \o f) = Len(elems) + Len(f)
        /\ \A i \in 1..(Len(elems) + Len(f)) :
             (elems \o f)[i] = IF i <= Len(elems) THEN elems[i] ELSE f[i - Len(elems)]
    BY <1>1, <1>3, ConcatProperties
  <2>. QED
    BY <1>3, <2>1, <2>2
<1>5. SubSeq(elems', 1, Len(elems)) = elems
  <2> DEFINE t == SubSeq(elems', 1, Len(elems))
  <2>1. \A i \in 1..Len(elems) : elems'[i] = elems[i] /\ elems[i] \in Stored
    BY <1>1, <1>4, LenProperties
  <2>2. /\ t \in Seq(Stored)
        /\ Len(t) = IF 1 <= Len(elems) THEN Len(elems) - 1 + 1 ELSE 0
        /\ \A i \in 1..(Len(elems) - 1 + 1) : t[i] = elems'[1 + i - 1]
    BY <1>1, <2>1, SubSeqProperties
  <2>3. Len(t) = Len(elems)
    BY <1>1, <2>2
  <2>4. \A i \in 1..Len(t) : t[i] = elems[i]
    BY <1>1, <2>1, <2>2, <2>3
  <2> HIDE DEF t
  <2>5. t = elems
    BY <1>1, <2>2, <2>3, <2>4, SeqEqual
  <2>. QED
    BY <2>5 DEF t
<1>6. ASSUME NEW i \in (Len(elems) + 1)..Len(elems') PROVE elems'[i] = x
  <2>1. i - Len(elems) \in 1..n /\ ~(i <= Len(elems)) /\ i \in 1..(Len(elems) + n)
    BY <1>1, <1>4
  <2>. QED
    BY <1>2, <1>4, <2>1
<1>. QED
  BY <1>4, <1>5, <1>6

(* Room is forgotten only when there is more of it than grow_elts counts. *)
LEMMA ForgotTooMuch ==
  ASSUME NEW c \in Nat, NEW n \in Nat, NEW k \in Nat, n + k <= c, GrowForLen(c, n) < k
  PROVE  k > GrowMax
BY DEF GrowForLen
-----------------------------------------------------------------------------
LEMMA StepIsArrayStep ==
  ASSUME ArrayInv, ~past, Next
  PROVE  [Array!Next]_(Array!vars)
<1>1. /\ TypeOK /\ CapacityIsAllocated /\ Numbers
      /\ elems \in Seq(Stored) /\ len \in Nat /\ len = Len(elems)
  BY DEF ArrayInv, TypeOK, Numbers, len, Stored
<1>2. Sources
  BY DEF ArrayInv
<1> USE DEF InUse
<1>3. ASSUME NEW n \in 0..MaxLen, WithCapacity(n) PROVE [Array!Next]_(Array!vars)
  BY <1>3 DEF WithCapacity, Array!Next, Array!Keep, Array!Empty
<1>4. ASSUME NEW n \in 0..MaxLen, Reserve(n) PROVE [Array!Next]_(Array!vars)
  BY <1>4 DEF Reserve, Array!vars
<1>5. ASSUME NEW x \in Elem, Push(x) PROVE [Array!Next]_(Array!vars)
  <2>1. elems' = Append(elems, x) /\ UNCHANGED given /\ ~past'
    BY <1>1, <1>5, PushedOne DEF Push
  <2>2. elems' = SubSeq(elems, 1, Len(elems) + 1 - 1) \o <<x>>
                   \o SubSeq(elems, Len(elems) + 1, Len(elems))
    BY <1>1, <2>1, AppendIsInsert DEF Stored
  <2>3. Len(elems) + 1 \in 1..(Len(elems) + 1)
    BY <1>1
  <2>4. Array!InsertAt
    <3> DEFINE at == Len(elems) + 1
    <3>1. /\ at \in 1..(Len(elems) + 1)
          /\ elems' = SubSeq(elems, 1, at - 1) \o <<x>> \o SubSeq(elems, at, Len(elems))
      BY <2>2, <2>3
    <3> HIDE DEF at
    <3>. QED
      BY <2>1, <3>1 DEF Array!InsertAt
  <2>. QED
    BY <2>1, <2>4 DEF Array!Next, Array!Keep
<1>6. ASSUME NEW i \in 1..(len + 1), NEW x \in Elem, InsertMut(i, x)
      PROVE  [Array!Next]_(Array!vars)
  <2>1. elems' = SubSeq(elems, 1, i - 1) \o <<x>> \o SubSeq(elems, i, Len(elems))
    BY <1>1, <1>6, InsertedAt
  <2>2. UNCHANGED given /\ ~past' /\ i \in 1..(Len(elems) + 1)
    BY <1>1, <1>6 DEF InsertMut
  <2>3. Array!InsertAt
    BY <2>1, <2>2 DEF Array!InsertAt
  <2>. QED
    BY <2>2, <2>3 DEF Array!Next, Array!Keep
<1>7. ASSUME NEW i \in 1..len, Remove(i) PROVE [Array!Next]_(Array!vars)
  <2>1. Array!RemoveAt /\ ~past'
    BY <1>1, <1>7 DEF Remove, Array!RemoveAt
  <2>. QED
    BY <2>1 DEF Array!Next, Array!Keep
<1>8. CASE Pop
  <2>1. Len(elems) \in 1..Len(elems)
        /\ elems' = SubSeq(elems, 1, Len(elems) - 1) \o SubSeq(elems, Len(elems) + 1, Len(elems))
    BY <1>1, <1>8, EndsAreRemoved DEF Pop
  <2>2. Array!RemoveAt /\ ~past'
    BY <1>8, <2>1 DEF Pop, Array!RemoveAt
  <2>. QED
    BY <2>2 DEF Array!Next, Array!Keep
<1>9. CASE Clear
  BY <1>9 DEF Clear, Array!Next, Array!Keep, Array!Empty
<1>10. ASSUME NEW n \in 0..MaxLen, NEW x \in Elem, ExtendWith(n, x)
       PROVE  [Array!Next]_(Array!vars)
  <2>1. PICK a \in Reallocations(len + n) :
          /\ alloc' = a
          /\ elems' = elems \o [k \in 1..n |-> Written(len + k, a, x)]
          /\ grow' = GrowForLen(len + GrowAfterReserve(n, a), len + n)
          /\ past' = (past \/ PastCapacity(len + GrowAfterReserve(n, a), len + n))
    BY <1>10 DEF ExtendWith
  <2>2. n \in Nat /\ a \in Nat /\ len + n <= a
    BY <1>1, <2>1, AllocationFits DEF Numbers
  <2>3. /\ Len(elems') = Len(elems) + n
        /\ SubSeq(elems', 1, Len(elems)) = elems
        /\ \A i \in (Len(elems) + 1)..Len(elems') : elems'[i] = x
    BY <1>1, <2>1, <2>2, Cloned
  <2>4. CASE ~past'
    <3>1. Array!AppendClones
      BY <1>1, <1>10, <2>2, <2>3 DEF ExtendWith, Array!AppendClones
    <3>. QED
      BY <2>4, <3>1 DEF Array!Next, Array!Keep
  <2>5. CASE past'
    <3> DEFINE spare == SpareAfterAlloc(len + n, a)
               c == len + n + spare
    <3>1. spare \in Nat
      BY <1>1, <2>2, Spare
    <3>2. GrowAfterReserve(n, a) \in Nat
      BY <1>1, <2>2, ReserveFits
    <3>3. GrowAfterReserve(n, a) < n
      <4>1. len + n > len + GrowAfterReserve(n, a)
        BY <2>1, <2>5 DEF PastCapacity
      <4>. QED
        BY <1>1, <2>2, <3>2, <4>1
    <3>4. c \in Nat /\ len + n <= c /\ GrowAfterReserve(n, a) = GrowForLen(c, len)
      BY <1>1, <2>2, <3>1 DEF GrowAfterReserve
    <3> HIDE DEF c
    <3>5. n > GrowMax
      BY <1>1, <2>2, <3>3, <3>4, ForgotTooMuch
    <3>6. Len(elems') > GrowMax
      BY <1>1, <2>2, <2>3, <3>5
    <3>. QED
      BY <2>5, <3>6 DEF Array!Next, Array!Lose
  <2>. QED
    BY <2>4, <2>5
<1>11. ASSUME NEW s \in Slices, BeginExtend(s) \/ BeginCopy(s)
       PROVE  [Array!Next]_(Array!vars)
  <2>1. s \in Seq(Elem)
    BY DEF Slices
  <2>2. Array!Give /\ ~past'
    BY <1>2, <1>11, <2>1 DEF BeginExtend, BeginCopy, Sources, Array!Give
  <2>. QED
    BY <2>2 DEF Array!Next, Array!Keep
<1>12. ASSUME NEW more \in 0..(Len(given) - 1), ExtendNext(more)
       PROVE  [Array!Next]_(Array!vars)
  <2>1. PICK r \in IF len = Capacity
                   THEN {[a |-> a, g |-> GrowAfterReserve(more + 1, a)] :
                           a \in Reallocations(len + more + 1)}
                   ELSE {[a |-> alloc, g |-> grow]} :
          /\ alloc' = r.a
          /\ elems' = Append(elems, Written(len + 1, r.a, Head(given)))
          /\ grow' = GrowForLen(len + r.g, len + 1)
          /\ past' = (past \/ PastCapacity(len + r.g, len + 1))
    BY <1>12 DEF ExtendNext
  <2>2. r.a \in Nat /\ r.g \in 1..GrowMax /\ len + r.g <= r.a
    <3>1. CASE len = Capacity
      <4>1. PICK a \in Reallocations(len + more + 1) :
              r = [a |-> a, g |-> GrowAfterReserve(more + 1, a)]
        BY <2>1, <3>1
      <4>2. len + more + 1 = len + (more + 1) /\ more + 1 \in Nat /\ more + 1 > 0
        BY <1>1
      <4>3. a \in Nat /\ len + (more + 1) <= a
        BY <1>1, <4>1, <4>2, AllocationFits DEF Numbers
      <4>4. /\ GrowAfterReserve(more + 1, a) \in 0..GrowMax
            /\ len + GrowAfterReserve(more + 1, a) <= a
            /\ GrowAfterReserve(more + 1, a) > 0
        BY <1>1, <4>2, <4>3, ReserveFits
      <4>. QED
        BY <4>1, <4>3, <4>4
    <3>2. CASE len # Capacity
      <4>1. r = [a |-> alloc, g |-> grow] /\ ~null /\ grow # 0 /\ phase # "iter"
        BY <1>1, <1>12, <2>1, <3>2 DEF Capacity, TypeOK, len, ExtendNext
      <4>2. len + grow <= alloc
        BY <1>1, <4>1 DEF CapacityIsAllocated, Capacity
      <4>. QED
        BY <1>1, <4>1, <4>2 DEF Numbers
    <3>. QED
      BY <3>1, <3>2
  <2>3. ~past' /\ Written(len + 1, r.a, Head(given)) = Head(given)
    <3>1. len + 1 <= len + r.g /\ len + 1 <= r.a
      BY <1>1, <2>2
    <3>2. ~(len + 1 > len + r.g)
      BY <1>1, <2>2
    <3>3. ~past'
      BY <2>1, <3>2 DEF PastCapacity
    <3>. QED
      BY <3>1, <3>3 DEF Written
  <2>4. Array!TakeGiven
    BY <1>12, <2>1, <2>3 DEF ExtendNext, Array!TakeGiven
  <2>. QED
    BY <2>3, <2>4 DEF Array!Next, Array!Keep
<1>13. ASSUME NEW s \in Slices, NEW size \in {0, Len(s)}, BeginCollect(s, size)
       PROVE  [Array!Next]_(Array!vars)
  <2>1. s \in Seq(Elem)
    BY DEF Slices
  <2>2. Array!Give /\ ~past'
    BY <1>2, <1>13, <2>1 DEF BeginCollect, Sources, Array!Give
  <2>. QED
    BY <2>2 DEF Array!Next, Array!Keep
<1>14. CASE CollectNext
  <2>1. Head(given) \in Elem
    BY <1>1, <1>14, HeadTailProperties DEF CollectNext, Numbers
  <2>2. elems' = Append(elems, Head(given)) /\ ~past'
    BY <1>1, <1>14, <2>1, PushedOne DEF CollectNext
  <2>3. Array!TakeGiven
    BY <1>14, <2>2 DEF CollectNext, Array!TakeGiven
  <2>. QED
    BY <2>2, <2>3 DEF Array!Next, Array!Keep
<1>15. CASE EndOfIterator
  BY <1>15 DEF EndOfIterator, Array!vars
<1>16. CASE ToVppVec
  <2> DEFINE n == Len(given)
  <2>1. n \in Nat /\ given \in Seq(Elem) /\ given \in [1..n -> Elem]
    BY <1>1, LenProperties DEF Numbers
  <2>2. PICK a \in Allocations(n) :
          LET slots == GrowWithCapacity(n, a)
          IN /\ alloc' = a
             /\ elems' = [k \in 1..n |-> IF k <= slots THEN Written(k, a, given[k]) ELSE Uninit]
             /\ grow' = GrowForLen(slots, n)
             /\ past' = (past \/ PastCapacity(slots, n))
    BY <1>16 DEF ToVppVec
  <2> DEFINE slots == GrowWithCapacity(n, a)
  <2>3. a \in Nat /\ n <= a
    BY <1>1, <2>1, <2>2, AllocationFits DEF Numbers
  <2>4. slots \in Nat /\ slots <= a
    BY <2>1, <2>3, WithCapacityFits
  <2>5. elems = <<>> /\ given' = <<>>
    BY <1>2, <1>16 DEF Sources, ToVppVec
  <2>6. CASE ~past'
    <3>1. n <= slots
      <4>1. ~PastCapacity(slots, n)
        BY <2>2, <2>6
      <4> HIDE DEF n, slots
      <4>. QED
        BY <2>1, <2>4, <4>1 DEF PastCapacity
    <3>2. elems' = [k \in 1..n |-> IF k <= slots THEN Written(k, a, given[k]) ELSE Uninit]
      BY <2>2
    <3> HIDE DEF n, slots
    <3>3. \A k \in 1..n : (IF k <= slots THEN Written(k, a, given[k]) ELSE Uninit) = given[k]
      BY <2>1, <2>3, <2>4, <3>1 DEF Written
    <3>4. elems' = [k \in 1..n |-> given[k]]
      BY <3>2, <3>3
    <3>5. elems' = given
      BY <2>1, <3>4
    <3>6. elems' = elems \o given
      BY <2>1, <2>5, <3>5, ConcatEmptySeq
    <3>. QED
      BY <2>5, <2>6, <3>6 DEF Array!Next, Array!Keep, Array!CopyGiven
  <2>7. CASE past'
    <3> DEFINE spare == SpareAfterAlloc(n, a)
               c == n + spare
    <3>1. spare \in Nat
      BY <2>1, <2>3, Spare
    <3>2. c \in Nat /\ 0 + n <= c /\ slots = GrowForLen(c, 0)
      BY <2>1, <3>1 DEF GrowWithCapacity
    <3>3. PastCapacity(slots, n)
      BY <2>2, <2>7
    <3>4. Len(elems') = n
      BY <2>1, <2>2
    <3> HIDE DEF n, c, slots
    <3>5. slots < n
      BY <2>1, <2>4, <3>3 DEF PastCapacity
    <3>6. n > GrowMax
      BY <2>1, <3>2, <3>5, ForgotTooMuch
    <3>7. Len(elems') > GrowMax
      BY <2>1, <3>4, <3>6
    <3>. QED
      BY <2>7, <3>7 DEF Array!Next, Array!Lose
  <2>. QED
    BY <2>6, <2>7
<1>17. CASE IntoIter
  BY <1>17 DEF IntoIter, Array!vars
<1>18. CASE IterNext
  <2>1. elems # <<>> /\ elems' \in {Tail(elems), SubSeq(elems, 1, Len(elems) - 1)}
        /\ UNCHANGED given /\ ~past'
    BY <1>1, <1>18 DEF IterNext
  <2>2. \E i \in 1..Len(elems) :
          elems' = SubSeq(elems, 1, i - 1) \o SubSeq(elems, i + 1, Len(elems))
    <3>1. CASE elems' = Tail(elems)
      BY <1>1, <2>1, <3>1, EndsAreRemoved
    <3>2. CASE elems' = SubSeq(elems, 1, Len(elems) - 1)
      BY <1>1, <2>1, <3>2, EndsAreRemoved
    <3>. QED
      BY <2>1, <3>1, <3>2
  <2>3. Array!RemoveAt
    BY <2>1, <2>2 DEF Array!RemoveAt
  <2>. QED
    BY <2>1, <2>3 DEF Array!Next, Array!Keep
<1>19. CASE Drop
  BY <1>19 DEF Drop, Array!Next, Array!Keep, Array!Empty
<1>. QED
  BY <1>3, <1>4, <1>5, <1>6, <1>7, <1>8, <1>9, <1>10, <1>11, <1>12, <1>13, <1>14,
     <1>15, <1>16, <1>17, <1>18, <1>19 DEF ArrayInv, Next

(* A vector is an array of the elements put in, in order, whatever the     *)
(* width of grow_elts, until an operation makes it longer than grow_elts   *)
(* can count and sets the length past the capacity.                        *)
THEOREM VectorIsAnArray == Spec => ImplementsArray
<1>1. Init => ArrayInv /\ Array!Init
  BY TypeInit, CapacityInit DEF Init, ArrayInv, Sources, Array!Init
<1>2. ArrayInv /\ [Next]_vars => ArrayInv'
  BY TypeStep, CapacityStep, SourcesStep DEF ArrayInv
<1>3. ArrayInv /\ [Next]_vars => [Array!Next]_(Array!vars)
  <2>1. ASSUME ArrayInv, [Next]_vars, past PROVE [Array!Next]_(Array!vars)
    BY <2>1, PastStays DEF Array!Next, Array!Lost
  <2>2. ASSUME UNCHANGED vars PROVE [Array!Next]_(Array!vars)
    BY <2>2 DEF vars, Array!vars
  <2>. QED
    BY <2>1, <2>2, StepIsArrayStep
<1>. QED
  BY <1>1, <1>2, <1>3, PTL DEF Spec, ImplementsArray, Array!Spec

-----------------------------------------------------------------------------
(* Capacity is kept.  Here the spare room is used that reserve leaves, not *)
(* only bounded as above.                                                  *)
LEMMA ReserveKeeps ==
  ASSUME TypeOK, CapacityIsAllocated, ~past, phase # "iter",
         NEW more \in Nat, NEW a \in Reallocations(len + more)
  PROVE  len + GrowAfterReserve(more, a) >= Capacity
<1>1. Numbers /\ len \in Nat
  BY DEF TypeOK, Numbers, len
<1>2. a \in Nat /\ len + more <= a
  BY <1>1, AllocationFits DEF Numbers
<1>3. GrowAfterReserve(more, a) \in 0..GrowMax
  BY <1>1, <1>2, ReserveFits
<1>4. CASE null
  <2>1. Capacity = 0
    BY <1>4 DEF Capacity
  <2>. QED
    BY <1>1, <1>3, <2>1
<1>5. CASE ~null
  <2>1. Capacity = len + grow /\ len + grow <= alloc /\ grow \in 0..GrowMax /\ alloc \in Nat
    BY <1>1, <1>5 DEF Capacity, CapacityIsAllocated, Numbers
  <2>2. grow <= more \/ len + grow <= a
    <3>1. CASE len + more <= alloc
      BY <1>5, <2>1, <3>1 DEF Reallocations
    <3>2. CASE ~(len + more <= alloc)
      BY <1>1, <2>1, <3>2
    <3>. QED
      BY <3>1, <3>2
  <2> DEFINE spare == SpareAfterAlloc(len + more, a)
  <2>3. /\ spare \in 0..GrowMax
        /\ spare = a - (len + more) \/ spare = GrowMax
    BY <1>1, <1>2 DEF SpareAfterAlloc, Smaller
  <2>4. GrowAfterReserve(more, a) = GrowForLen(len + more + spare, len)
    BY DEF GrowAfterReserve
  <2> HIDE DEF spare
  <2>5. more + spare >= grow
    BY <1>1, <1>2, <2>1, <2>2, <2>3
  <2>6. GrowForLen(len + more + spare, len) >= grow
    BY <1>1, <2>1, <2>3, <2>5 DEF GrowForLen
  <2>. QED
    BY <1>1, <1>3, <2>1, <2>4, <2>6
<1>. QED
  BY <1>4, <1>5

LEMMA RoomKeeps ==
  ASSUME TypeOK, CapacityIsAllocated, ~past, phase # "iter", NEW r \in Room
  PROVE  len + r.g >= Capacity
<1>1. len \in Nat /\ grow \in Nat /\ (null => Capacity = 0) /\ (~null => Capacity = len + grow)
  BY DEF TypeOK, len, Capacity
<1>2. CASE len = Capacity
  <2>1. PICK a \in Reallocations(len + 1) : r = [a |-> a, g |-> GrowAfterReserve(1, a)]
    BY <1>2 DEF Room
  <2>. QED
    BY <2>1, ReserveKeeps
<1>3. CASE len # Capacity
  <2>1. r = [a |-> alloc, g |-> grow]
    BY <1>3 DEF Room
  <2>. QED
    BY <1>1, <2>1
<1>. QED
  BY <1>2, <1>3

LEMMA AppendOneKeeps ==
  ASSUME TypeOK, CapacityIsAllocated, ~past, phase # "iter", NEW x \in Elem, AppendOne(x)
  PROVE  Capacity' >= Capacity
<1>1. PICK r \in Room : /\ grow' = WrapDown(r.g)
                        /\ elems' = Append(elems, Written(len + 1, r.a, x))
  BY DEF AppendOne
<1>2. r.g \in 1..GrowMax /\ len \in Nat /\ len + r.g >= Capacity
  BY RoomFits, RoomKeeps DEF TypeOK, len
<1>3. len' = len + 1
  BY <1>1 DEF TypeOK, len
<1>4. grow' = r.g - 1
  <2>1. r.g \in 0..GrowMax /\ r.g > 0
    BY <1>2
  <2>. QED
    BY <1>1, <2>1, WrapFits
<1>5. Capacity' = len' + grow'
  BY DEF AppendOne, Capacity
<1>. QED
  BY <1>2, <1>3, <1>4, <1>5

LEMMA GrowingKeeps ==
  ASSUME TypeOK, CapacityIsAllocated, ~past', [Next]_vars, Growing
  PROVE  Capacity' >= Capacity
<1>1. Numbers /\ len \in Nat /\ elems \in Seq(Stored) /\ ~past
  BY PastStays DEF TypeOK, Numbers, len, Stored
<1>2. ASSUME NEW n \in 0..MaxLen, Reserve(n) PROVE Capacity' >= Capacity
  <2>1. PICK a \in Reallocations(len + n) : grow' = GrowAfterReserve(n, a)
    BY <1>2 DEF Reserve
  <2>2. Capacity' = len + grow' /\ n \in Nat /\ phase # "iter"
    BY <1>2 DEF Reserve, InUse, Capacity, len
  <2>. QED
    BY <1>1, <2>1, <2>2, ReserveKeeps
<1>3. ASSUME NEW x \in Elem, Push(x) PROVE Capacity' >= Capacity
  BY <1>1, <1>3, AppendOneKeeps DEF Push, InUse
<1>4. ASSUME NEW i \in 1..(len + 1), NEW x \in Elem, InsertMut(i, x) PROVE Capacity' >= Capacity
  <2>1. PICK r \in Room :
          /\ grow' = WrapDown(r.g)
          /\ elems' = SubSeq(elems, 1, i - 1) \o <<Written(i, r.a, x)>>
                        \o [k \in 1..(len - i + 1) |-> Written(i + k, r.a, elems[i + k - 1])]
    BY <1>4 DEF InsertMut
  <2>2. r.a \in Nat /\ r.g \in 1..GrowMax /\ len + r.g >= Capacity
    BY <1>1, <1>4, RoomFits, RoomKeeps DEF InsertMut, InUse
  <2>3. len' = len + 1
    <3>1. Len(elems') = len + 1
      BY <1>1, <2>1, <2>2, InsertedOne
    <3>. QED
      BY <3>1 DEF len
  <2>4. grow' = r.g - 1
    <3>1. r.g \in 0..GrowMax /\ r.g > 0
      BY <2>2
    <3>. QED
      BY <2>1, <3>1, WrapFits
  <2>5. Capacity' = len' + grow'
    BY <1>4 DEF InsertMut, Capacity
  <2>. QED
    BY <1>1, <2>2, <2>3, <2>4, <2>5
<1>5. ASSUME NEW n \in 0..MaxLen, NEW x \in Elem, ExtendWith(n, x) PROVE Capacity' >= Capacity
  <2>1. PICK a \in Reallocations(len + n) :
          /\ elems' = elems \o [k \in 1..n |-> Written(len + k, a, x)]
          /\ grow' = GrowForLen(len + GrowAfterReserve(n, a), len + n)
          /\ past' = (past \/ PastCapacity(len + GrowAfterReserve(n, a), len + n))
    BY <1>5 DEF ExtendWith
  <2>2. a \in Nat /\ len + n <= a /\ n \in Nat
    BY <1>1, <2>1, AllocationFits DEF Numbers
  <2>3. GrowAfterReserve(n, a) \in 0..GrowMax
    BY <1>1, <2>2, ReserveFits
  <2>4. len + GrowAfterReserve(n, a) >= Capacity
    BY <1>1, <1>5, <2>2, ReserveKeeps DEF ExtendWith, InUse
  <2>5. len' = len + n
    <3>1. [k \in 1..n |-> Written(len + k, a, x)] \in [1..n -> Stored]
      BY <1>1, <2>2, WrittenStored DEF Stored
    <3>2. Len(elems') = Len(elems) + n
      BY <1>1, <2>1, <2>2, <3>1, WithFilled
    <3>. QED
      BY <3>2 DEF len
  <2>6. len + n <= len + GrowAfterReserve(n, a)
    <3>1. ~PastCapacity(len + GrowAfterReserve(n, a), len + n)
      BY <2>1
    <3>. QED
      BY <1>1, <2>2, <2>3, <3>1 DEF PastCapacity
  <2>7. len + n + grow' = len + GrowAfterReserve(n, a)
    BY <1>1, <2>1, <2>2, <2>3, <2>6 DEF GrowForLen
  <2>8. Capacity' = len' + grow'
    BY <1>5 DEF ExtendWith, Capacity
  <2>. QED
    BY <1>1, <2>4, <2>5, <2>7, <2>8
<1>6. ASSUME NEW more \in 0..(Len(given) - 1), ExtendNext(more) PROVE Capacity' >= Capacity
  <2>1. PICK r \in IF len = Capacity
                   THEN {[a |-> a, g |-> GrowAfterReserve(more + 1, a)] :
                           a \in Reallocations(len + more + 1)}
                   ELSE {[a |-> alloc, g |-> grow]} :
          /\ elems' = Append(elems, Written(len + 1, r.a, Head(given)))
          /\ grow' = GrowForLen(len + r.g, len + 1)
          /\ past' = (past \/ PastCapacity(len + r.g, len + 1))
    BY <1>6 DEF ExtendNext
  <2>2. r.g \in 0..GrowMax /\ len + r.g >= Capacity
    <3>1. CASE len = Capacity
      <4>1. PICK a \in Reallocations(len + more + 1) :
              r = [a |-> a, g |-> GrowAfterReserve(more + 1, a)]
        BY <2>1, <3>1
      <4>2. len + more + 1 = len + (more + 1) /\ more + 1 \in Nat
        BY <1>1
      <4>3. a \in Reallocations(len + (more + 1)) /\ a \in Nat /\ len + (more + 1) <= a
        BY <1>1, <4>1, <4>2, AllocationFits DEF Numbers
      <4>4. GrowAfterReserve(more + 1, a) \in 0..GrowMax
        BY <1>1, <4>2, <4>3, ReserveFits
      <4>5. len + GrowAfterReserve(more + 1, a) >= Capacity
        BY <1>1, <1>6, <4>2, <4>3, ReserveKeeps DEF ExtendNext
      <4>. QED
        BY <4>1, <4>4, <4>5
    <3>2. CASE len # Capacity
      <4>1. r = [a |-> alloc, g |-> grow] /\ ~null
        BY <1>1, <2>1, <3>2 DEF Capacity, TypeOK, len
      <4>. QED
        BY <1>1, <4>1 DEF Capacity, Numbers
    <3>. QED
      BY <3>1, <3>2
  <2>3. len' = len + 1
    BY <1>1, <2>1 DEF len
  <2>4. len + 1 <= len + r.g
    <3>1. ~PastCapacity(len + r.g, len + 1)
      BY <2>1
    <3>. QED
      BY <1>1, <2>2, <3>1 DEF PastCapacity
  <2>5. len + 1 + grow' = len + r.g
    BY <1>1, <2>1, <2>2, <2>4 DEF GrowForLen
  <2>6. Capacity' = len' + grow'
    BY <1>6 DEF ExtendNext, Capacity
  <2>. QED
    BY <1>1, <2>2, <2>3, <2>5, <2>6
<1>7. CASE CollectNext
  <2>1. Head(given) \in Elem
    BY <1>1, <1>7, HeadTailProperties DEF CollectNext, Numbers
  <2>. QED
    BY <1>1, <1>7, <2>1, AppendOneKeeps DEF CollectNext
<1>. QED
  BY <1>2, <1>3, <1>4, <1>5, <1>6, <1>7 DEF Growing

LEMMA ShrinkingKeeps ==
  ASSUME TypeOK, Capacity <= GrowMax, Shrinking
  PROVE  Capacity' >= Capacity
<1>1. Numbers /\ len \in Nat /\ elems \in Seq(Stored)
  BY DEF TypeOK, Numbers, len, Stored
<1>2. ASSUME len > 0, len' = len - 1, grow' = WrapUp(grow), null' = null
      PROVE  Capacity' >= Capacity
  <2>1. ~null
    BY <1>2 DEF TypeOK, len
  <2>2. Capacity = len + grow /\ Capacity' = len' + grow'
    BY <1>2, <2>1 DEF Capacity
  <2>3. grow \in 0..GrowMax /\ grow # GrowMax
    BY <1>1, <1>2, <2>2 DEF Numbers
  <2>4. grow' = grow + 1
    BY <1>2, <2>3 DEF WrapUp
  <2>. QED
    BY <1>1, <1>2, <2>2, <2>3, <2>4
<1>3. CASE Pop
  <2>1. len > 0 /\ Len(elems') = Len(elems) - 1
    <3>1. elems # <<>> /\ elems' = SubSeq(elems, 1, Len(elems) - 1)
      BY <1>3 DEF Pop, len
    <3>2. Len(elems) # 0
      BY <1>1, <3>1, EmptySeq
    <3>. QED
      BY <1>1, <3>1, <3>2, WithoutLast DEF len
  <2>. QED
    BY <1>2, <1>3, <2>1 DEF Pop, len
<1>4. ASSUME NEW i \in 1..len, Remove(i) PROVE Capacity' >= Capacity
  <2>1. i \in 1..Len(elems) /\ elems' = SubSeq(elems, 1, i - 1) \o SubSeq(elems, i + 1, Len(elems))
    BY <1>4 DEF Remove, len
  <2>2. Len(elems') = Len(elems) - 1
    BY <1>1, <2>1, WithoutOne
  <2>3. len > 0 /\ len' = len - 1
    BY <1>1, <2>2 DEF len
  <2>. QED
    BY <1>2, <1>4, <2>3 DEF Remove
<1>5. CASE Clear
  <2>1. ~null /\ ~null' /\ elems' = <<>> /\ grow' = Smaller(len + grow, GrowMax)
    BY <1>5 DEF Clear
  <2>2. Capacity = len + grow /\ Capacity' = len' + grow'
    BY <2>1 DEF Capacity
  <2>3. len' = 0
    BY <2>1, EmptySeq DEF len
  <2>4. grow' = len + grow /\ grow \in Nat
    BY <1>1, <2>1, <2>2 DEF Smaller, Numbers
  <2>. QED
    BY <1>1, <2>2, <2>3, <2>4
<1>. QED
  BY <1>3, <1>4, <1>5 DEF Shrinking

(* Room is never given up: not by a vector that grows, and by one that     *)
(* shrinks only when grow_elts cannot count it, for any GrowMax and        *)
(* allocator.                                                              *)
THEOREM CapacityIsKept == Spec => KeepsCapacity
<1>1. TypeOK /\ CapacityIsAllocated /\ [Next]_vars
        => [~past' /\ (Growing \/ (Shrinking /\ Capacity <= GrowMax)) => Capacity' >= Capacity]_vars
  <2> SUFFICES ASSUME TypeOK, CapacityIsAllocated, [Next]_vars, ~past',
                      Growing \/ (Shrinking /\ Capacity <= GrowMax)
               PROVE  Capacity' >= Capacity
    OBVIOUS
  <2>. QED
    BY GrowingKeeps, ShrinkingKeeps
<1>. QED
  BY <1>1, TypeInit, TypeStep, CapacityInit, CapacityStep, PTL DEF Spec, KeepsCapacity
=============================================================================
