--------------------------- MODULE GrowableArray ---------------------------
(***************************************************************************)
(* What the user of a vector is promised: a sequence of elements, changed  *)
(* by the usual operations, with no notion of capacity or memory.  `given` *)
(* holds the elements a slice or an iterator has yet to hand over.         *)
(*                                                                         *)
(* `broken` records that the promise was lost.  The only step that may     *)
(* lose it makes the array longer than Limit.                              *)
(***************************************************************************)
EXTENDS Naturals, Sequences

CONSTANTS Elem,    \* the elements
          Limit    \* the length up to which the promise holds

VARIABLES items, given, broken

vars == <<items, given, broken>>

Init == /\ items = <<>>
        /\ given = <<>>
        /\ broken = FALSE

(* A client hands over elements; what the array held may be let go first. *)
Give == /\ given = <<>>
        /\ given' \in Seq(Elem)
        /\ items' \in {items, <<>>}

TakeGiven == /\ given # <<>>
             /\ items' = Append(items, Head(given))
             /\ given' = Tail(given)

CopyGiven == /\ items' = items \o given
             /\ given' = <<>>

InsertAt == /\ \E i \in 1..(Len(items) + 1), x \in Elem :
                 items' = SubSeq(items, 1, i - 1) \o <<x>> \o SubSeq(items, i, Len(items))
            /\ UNCHANGED given

RemoveAt == /\ \E i \in 1..Len(items) :
                 items' = SubSeq(items, 1, i - 1) \o SubSeq(items, i + 1, Len(items))
            /\ UNCHANGED given

AppendClones == /\ Len(items') >= Len(items)
                /\ SubSeq(items', 1, Len(items)) = items
                /\ \E x \in Elem : \A i \in (Len(items) + 1)..Len(items') : items'[i] = x
                /\ UNCHANGED given

Empty == /\ items' = <<>>
         /\ UNCHANGED given

Keep == /\ ~broken
        /\ ~broken'
        /\ \/ Give
           \/ TakeGiven
           \/ CopyGiven
           \/ InsertAt
           \/ RemoveAt
           \/ AppendClones
           \/ Empty

Lose == /\ ~broken
        /\ broken'
        /\ Len(items') > Limit

Lost == broken /\ broken'

Next == Keep \/ Lose \/ Lost

Spec == Init /\ [][Next]_vars
=============================================================================
