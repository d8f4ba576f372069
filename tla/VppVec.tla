------------------------------- MODULE VppVec -------------------------------
(***************************************************************************)
(* The vector of vppinfra/vec.rs over VPP's allocator.  A vector's header  *)
(* holds its length and, in eight bits, how many elements it can grow by   *)
(* without asking the allocator (grow_elts).  Every operation adjusts the  *)
(* two apart from each other and from the memory there is.                 *)
(*                                                                         *)
(* GrowMax stands for u8::MAX.  Arithmetic is that of a build without      *)
(* overflow checks and debug assertions, where the code relies on          *)
(* `unwrap_or(u8::MAX)` and on wrapping.                                   *)
(***************************************************************************)
EXTENDS Integers, Sequences

CONSTANTS
  Elem,      \* the elements stored
  Uninit,    \* what memory holds that was never written, or is not ours
  GrowMax,   \* the largest grow_elts
  Slack,     \* by how much an allocation may exceed what was asked for
  MaxLen     \* bound on the length, for model checking only

ASSUME VecAssumption == /\ GrowMax \in Nat \ {0}
                        /\ Slack \in Nat
                        /\ MaxLen \in Nat
                        /\ Uninit \notin Elem

VARIABLES
  null,      \* the pointer is null: nothing is allocated
  elems,     \* the elements from 0 to the header's len
  grow,      \* the header's grow_elts
  alloc,     \* the number of elements that fit the allocation
  phase,     \* what the vector is being used for
  given,     \* the elements a slice or an iterator has yet to hand over
  past       \* history: the length was once set past the capacity

vars == <<null, elems, grow, alloc, phase, given, past>>

Phases == {"vec", "copy", "extend", "collect", "iter"}

Smaller(a, b) == IF a <= b THEN a ELSE b
len == Len(elems)
Capacity == IF null THEN 0 ELSE len + grow

-----------------------------------------------------------------------------
(* VPP's allocator: room for n elements, and perhaps for some more. *)
Allocations(n) == n..(n + Slack)
Reallocations(n) == IF ~null /\ n <= alloc THEN {alloc} ELSE Allocations(n)

(* It leaves a header with len n; spare room beyond u8::MAX is forgotten. *)
SpareAfterAlloc(n, a) == Smaller(a - n, GrowMax)

(* set_len on a header of capacity c: c - n when that fits in eight bits;  *)
(* u8::MAX when it is larger, and also when it is negative, as the         *)
(* subtraction of two usize then wraps.                                    *)
GrowForLen(c, n) == IF n <= c /\ c - n <= GrowMax THEN c - n ELSE GrowMax
PastCapacity(c, n) == n > c

(* Deviation: the room there was before is counted a second time. *)
GrowAfterReserveTwice(more, a) ==
  GrowForLen(len + more + grow + SpareAfterAlloc(len + more, a), len)

(* What reserve(more) leaves in grow_elts with an allocation of a. *)
GrowAfterReserve(more, a) ==
  GrowForLen(len + more + SpareAfterAlloc(len + more, a), len)

(* with_capacity(n) and its set_len(0). *)
GrowWithCapacity(n, a) == GrowForLen(n + SpareAfterAlloc(n, a), 0)

(* An element written at index i of an allocation of a elements. *)
Written(i, a, x) == IF i <= a THEN x ELSE Uninit

WrapUp(g) == IF g = GrowMax THEN 0 ELSE g + 1
WrapDown(g) == IF g = 0 THEN GrowMax ELSE g - 1

-----------------------------------------------------------------------------
Init == /\ null = TRUE
        /\ elems = <<>>
        /\ grow = 0
        /\ alloc = 0
        /\ phase = "vec"
        /\ given = <<>>
        /\ past = FALSE

InUse == phase = "vec"

(* with_capacity, dropping the vector there was before. *)
WithCapacity(n) ==
  /\ InUse
  /\ elems' = <<>>
  /\ null' = FALSE
  /\ \E a \in Allocations(n) : alloc' = a /\ grow' = GrowWithCapacity(n, a)
  /\ UNCHANGED <<phase, given, past>>

Reserve(more) ==
  /\ InUse
  /\ null' = FALSE
  /\ \E a \in Reallocations(len + more) :
       alloc' = a /\ grow' = GrowAfterReserve(more, a)
  /\ UNCHANGED <<elems, phase, given, past>>

(* The room push and insert_mut make: the allocation and grow_elts after   *)
(* `if len == capacity { reserve(1) }`.                                    *)
Room == IF len = Capacity
        THEN {[a |-> a, g |-> GrowAfterReserve(1, a)] : a \in Reallocations(len + 1)}
        ELSE {[a |-> alloc, g |-> grow]}

AppendOne(x) ==
  /\ null' = FALSE
  /\ \E r \in Room :
       /\ alloc' = r.a
       /\ grow' = WrapDown(r.g)
       /\ elems' = Append(elems, Written(len + 1, r.a, x))

Push(x) == /\ InUse
           /\ len < MaxLen
           /\ AppendOne(x)
           /\ UNCHANGED <<phase, given, past>>

(* Deviation: one element too few is moved up. *)
InsertMutOneLost(i, x) ==
  /\ InUse
  /\ len < MaxLen
  /\ null' = FALSE
  /\ \E r \in Room :
       /\ alloc' = r.a
       /\ grow' = WrapDown(r.g)
       /\ elems' = [k \in 1..(len + 1) |-> IF k = i THEN x
                                           ELSE IF k < i THEN elems[k]
                                           ELSE IF k <= len THEN elems[k - 1] ELSE Uninit]
  /\ UNCHANGED <<phase, given, past>>

InsertMut(i, x) ==
  /\ InUse
  /\ len < MaxLen
  /\ null' = FALSE
  /\ \E r \in Room :
       /\ alloc' = r.a
       /\ grow' = WrapDown(r.g)
       /\ elems' = SubSeq(elems, 1, i - 1) \o <<Written(i, r.a, x)>>
                     \o [k \in 1..(len - i + 1) |-> Written(i + k, r.a, elems[i + k - 1])]
  /\ UNCHANGED <<phase, given, past>>

Remove(i) ==
  /\ InUse
  /\ elems' = SubSeq(elems, 1, i - 1) \o SubSeq(elems, i + 1, len)
  /\ grow' = WrapUp(grow)
  /\ UNCHANGED <<null, alloc, phase, given, past>>

Pop == /\ InUse
       /\ elems # <<>>
       /\ elems' = SubSeq(elems, 1, len - 1)
       /\ grow' = WrapUp(grow)
       /\ UNCHANGED <<null, alloc, phase, given, past>>

(* Deviation: the length is reset with grow_elts left as it was. *)
ClearLenOnly == /\ InUse
                /\ ~null
                /\ elems' = <<>>
                /\ UNCHANGED <<null, grow, alloc, phase, given, past>>

Clear == /\ InUse
         /\ ~null
         /\ elems' = <<>>
         /\ grow' = Smaller(len + grow, GrowMax)
         /\ UNCHANGED <<null, alloc, phase, given, past>>

(* reserve(n), n writes, and set_len: the length is set past the capacity  *)
(* when reserve had to forget room.                                        *)
ExtendWith(n, x) ==
  /\ InUse
  /\ len + n <= MaxLen
  /\ null' = FALSE
  /\ \E a \in Reallocations(len + n) :
       LET c == len + GrowAfterReserve(n, a)
       IN /\ alloc' = a
          /\ elems' = elems \o [k \in 1..n |-> Written(len + k, a, x)]
          /\ grow' = GrowForLen(c, len + n)
          /\ past' = (past \/ PastCapacity(c, len + n))
  /\ UNCHANGED <<phase, given>>

-----------------------------------------------------------------------------
(* A client calls extend with an iterator over s. *)
BeginExtend(s) ==
  /\ InUse
  /\ len + Len(s) <= MaxLen
  /\ phase' = "extend"
  /\ given' = s
  /\ UNCHANGED <<null, elems, grow, alloc, past>>

(* One element of extend; the iterator knows of `more` elements after it.  *)
ExtendNext(more) ==
  /\ phase = "extend"
  /\ given # <<>>
  /\ null' = FALSE
  /\ \E r \in IF len = Capacity
              THEN {[a |-> a, g |-> GrowAfterReserve(more + 1, a)] :
                      a \in Reallocations(len + more + 1)}
              ELSE {[a |-> alloc, g |-> grow]} :
       /\ alloc' = r.a
       /\ elems' = Append(elems, Written(len + 1, r.a, Head(given)))
       /\ grow' = GrowForLen(len + r.g, len + 1)
       /\ past' = (past \/ PastCapacity(len + r.g, len + 1))
  /\ given' = Tail(given)
  /\ UNCHANGED phase

(* FromIterator: with_capacity(size) and a push for each element. *)
BeginCollect(s, size) ==
  /\ InUse
  /\ elems' = <<>>
  /\ null' = FALSE
  /\ \E a \in Allocations(size) : alloc' = a /\ grow' = GrowWithCapacity(size, a)
  /\ phase' = "collect"
  /\ given' = s
  /\ UNCHANGED past

CollectNext ==
  /\ phase = "collect"
  /\ given # <<>>
  /\ AppendOne(Head(given))
  /\ given' = Tail(given)
  /\ UNCHANGED <<phase, past>>

EndOfIterator == /\ phase \in {"extend", "collect"}
                 /\ given = <<>>
                 /\ phase' = "vec"
                 /\ UNCHANGED <<null, elems, grow, alloc, given, past>>

(* A client asks for a copy of the slice s, also by Clone and vec![..]. *)
BeginCopy(s) ==
  /\ InUse
  /\ null' = TRUE
  /\ elems' = <<>>
  /\ grow' = 0
  /\ alloc' = 0
  /\ phase' = "copy"
  /\ given' = s
  /\ UNCHANGED past

(* to_vpp_vec writes to as many elements as spare_capacity_mut shows, then *)
(* sets the length of the whole slice.                                     *)
ToVppVec ==
  /\ phase = "copy"
  /\ null' = FALSE
  /\ LET n == Len(given)
     IN \E a \in Allocations(n) :
          LET slots == GrowWithCapacity(n, a)
          IN /\ alloc' = a
             /\ elems' = [k \in 1..n |-> IF k <= slots THEN Written(k, a, given[k]) ELSE Uninit]
             /\ grow' = GrowForLen(slots, n)
             /\ past' = (past \/ PastCapacity(slots, n))
  /\ given' = <<>>
  /\ phase' = "vec"

-----------------------------------------------------------------------------
(* The vector becomes an iterator, which gives elements from both ends and *)
(* frees the memory in the end.                                            *)
IntoIter == /\ InUse
            /\ phase' = "iter"
            /\ UNCHANGED <<null, elems, grow, alloc, given, past>>

IterNext == /\ phase = "iter"
            /\ elems # <<>>
            /\ elems' \in {Tail(elems), SubSeq(elems, 1, len - 1)}
            /\ UNCHANGED <<null, grow, alloc, phase, given, past>>

Drop == /\ phase \in {"vec", "iter"}
        /\ null' = TRUE
        /\ elems' = <<>>
        /\ grow' = 0
        /\ alloc' = 0
        /\ phase' = "vec"
        /\ UNCHANGED <<given, past>>

Slices == UNION {[1..n -> Elem] : n \in 0..MaxLen}

Next ==
  \/ \E n \in 0..MaxLen : WithCapacity(n) \/ Reserve(n)
  \/ \E x \in Elem : Push(x)
  \/ \E i \in 1..(len + 1), x \in Elem : InsertMut(i, x)
  \/ \E i \in 1..len : Remove(i)
  \/ Pop
  \/ Clear
  \/ \E n \in 0..MaxLen, x \in Elem : ExtendWith(n, x)
  \/ \E s \in Slices : BeginExtend(s) \/ BeginCopy(s)
  \/ \E more \in 0..(Len(given) - 1) : ExtendNext(more)
  \/ \E s \in Slices : \E size \in {0, Len(s)} : BeginCollect(s, size)
  \/ CollectNext
  \/ EndOfIterator
  \/ ToVppVec
  \/ IntoIter
  \/ IterNext
  \/ Drop

Spec == Init /\ [][Next]_vars
-----------------------------------------------------------------------------
(* Types; a null vector has neither elements nor room. *)
TypeOK ==
  /\ null \in BOOLEAN
  /\ elems \in Seq(Elem \cup {Uninit})
  /\ grow \in 0..GrowMax
  /\ alloc \in Nat
  /\ phase \in Phases
  /\ given \in Seq(Elem)
  /\ past \in BOOLEAN
  /\ null => elems = <<>> /\ grow = 0

(* No vector claims room it does not have: what capacity() answers fits in *)
(* the allocation, so that push, insert_mut and extend write to their own  *)
(* memory, unless set_len was once called past the capacity (which         *)
(* extend_with and to_vpp_vec do for more than u8::MAX elements).          *)
CapacityIsAllocated == ~past /\ phase # "iter" => Capacity <= alloc

Shrinking == Pop \/ Clear \/ \E i \in 1..len : Remove(i)

Growing ==
  \/ \E n \in 0..MaxLen : Reserve(n)
  \/ \E x \in Elem : Push(x)
  \/ \E i \in 1..(len + 1), x \in Elem : InsertMut(i, x)
  \/ \E n \in 0..MaxLen, x \in Elem : ExtendWith(n, x)
  \/ \E more \in 0..(Len(given) - 1) : ExtendNext(more)
  \/ CollectNext

(* Room is never given up by a vector that grows, and by one that shrinks  *)
(* only when grow_elts cannot count it: clear "has no effect on the        *)
(* capacity of the vector" (vec.rs:262) only up to u8::MAX elements.       *)
KeepsCapacity ==
  [][~past' /\ (Growing \/ (Shrinking /\ Capacity <= GrowMax))
       => Capacity' >= Capacity]_vars

Array == INSTANCE GrowableArray WITH items <- elems, given <- given, broken <- past, Limit <- GrowMax

(* A vector is an array of the elements put in, in order, as long as       *)
(* nobody appends or copies more than u8::MAX elements at once.            *)
ImplementsArray == Array!Spec
=============================================================================
