------------------------------ MODULE Counters ------------------------------
(***************************************************************************)
(* A combined counter of vlib/counter.rs: for each thread a vector with,   *)
(* for each index, packets and bytes.  (A simple counter is its packets    *)
(* alone.)  A thread adds to its own cells with a load and a store; sums   *)
(* are read cell by cell while others add; the vectors move when they grow.*)
(***************************************************************************)
EXTENDS Barrier, Sequences, FiniteSetsExt

CONSTANT Indices

VARIABLES cells,     \* the counters: cells[thread][index][part]
          memory,    \* which memory the vectors are in
          allocated, \* the indices that were allocated
          added      \* history: what each thread added since the last zero

counterVars == <<cells, memory, allocated, added>>

Parts == <<"packets", "bytes">>
NoCount == [p \in {"packets", "bytes"} |-> 0]

AllZero == [t \in Threads |-> [i \in Indices |-> NoCount]]

CounterInit == /\ cells = AllZero
               /\ memory = 0
               /\ allocated = {}
               /\ added = AllZero

ZeroAt(c, i) == [t \in Threads |-> [c[t] EXCEPT ![i] = NoCount]]

(* The sums of the first 0, 1, 2, ... of the threads' numbers. *)
RunningSums(f) ==
  LET s[n \in 0..NumWorkers + 1] == IF n = 0 THEN 0 ELSE s[n - 1] + f[n - 1] IN s

(* What every thread added, per part. *)
Total(i) == [p \in {"packets", "bytes"} |->
               RunningSums([t \in Threads |-> added[t][i][p]])[NumWorkers + 1]]

-----------------------------------------------------------------------------
(* Deviation: a MainRef is enough to allocate an index. *)
AllocateIndexAnyTime(i) ==
  /\ Free(Main)
  /\ allocated' = allocated \cup {i}
  /\ memory' = IF i \in allocated THEN memory ELSE memory + 1
  /\ cells' = ZeroAt(cells, i)
  /\ added' = ZeroAt(added, i)
  /\ UNCHANGED barrierVars

(* allocate_index: the vectors may move to have room for the index. *)
AllocateIndex(i) ==
  /\ BarrierHeld
  /\ allocated' = allocated \cup {i}
  /\ memory' = IF i \in allocated THEN memory ELSE memory + 1
  /\ cells' = ZeroAt(cells, i)
  /\ added' = ZeroAt(added, i)
  /\ UNCHANGED barrierVars

Zero(i) ==
  /\ BarrierHeld
  /\ i \in allocated
  /\ cells' = ZeroAt(cells, i)
  /\ added' = ZeroAt(added, i)
  /\ UNCHANGED <<barrierVars, memory, allocated>>

(* increment: counter_ptr, then for each part a load and a store.  `left`  *)
(* are the parts to come and `new` is the sum to be stored.                *)
Increment(t, i, by) ==
  /\ Free(t)
  /\ i \in allocated
  /\ Set(t, [op |-> "increment", index |-> i, by |-> by, ptr |-> memory,
             left |-> Parts, new |-> cells[t][i]["packets"] + by["packets"]])
  /\ UNCHANGED <<barrier, inNode, aborted, counterVars>>

(* A store, and the load for the next part.  A store through a pointer     *)
(* into memory the vectors have left is lost.                              *)
Store(t) ==
  /\ Running(t)
  /\ call[t].op = "increment"
  /\ LET c == call[t]
         p == Head(c.left)
         stored == [cells[t][c.index] EXCEPT ![p] = c.new]
     IN /\ cells' = IF c.ptr = memory THEN [cells EXCEPT ![t][c.index] = stored] ELSE cells
        /\ added' = [added EXCEPT ![t][c.index][p] = @ + c.by[p]]
        /\ Set(t, IF Len(c.left) = 1 THEN NoCall
                  ELSE [c EXCEPT !.left = Tail(@), !.new = stored[c.left[2]] + c.by[c.left[2]]])
  /\ UNCHANGED <<barrier, inNode, aborted, memory, allocated>>

(* get loads the cells of one thread after the other, packets first. *)
FirstCell == [thread |-> 0, part |-> "packets"]

CellAfter(cell) == IF cell.part = "packets" THEN [cell EXCEPT !.part = "bytes"]
                   ELSE [thread |-> cell.thread + 1, part |-> "packets"]

Get(t, i) ==
  /\ Free(t)
  /\ i \in allocated
  /\ Set(t, [op |-> "get", index |-> i, cell |-> FirstCell, sum |-> NoCount, atStart |-> Total(i)])
  /\ UNCHANGED <<barrier, inNode, aborted, counterVars>>

(* Deviation: the sum of the first cells is forgotten. *)
AddedToSum(c) == [c.sum EXCEPT ![c.cell.part] = cells[c.cell.thread][c.index][c.cell.part]]

SumWith(c) == [c.sum EXCEPT ![c.cell.part] = @ + cells[c.cell.thread][c.index][c.cell.part]]

LoadCell(t) ==
  /\ Running(t)
  /\ call[t].op = "get"
  /\ call[t].cell.thread \in Threads
  /\ Set(t, [call[t] EXCEPT !.cell = CellAfter(@), !.sum = SumWith(call[t])])
  /\ UNCHANGED <<barrier, inNode, aborted, counterVars>>

EndGet(t) == /\ Running(t)
             /\ call[t].op = "get"
             /\ call[t].cell.thread \notin Threads
             /\ Set(t, NoCall)
             /\ UNCHANGED <<barrier, inNode, aborted, counterVars>>

-----------------------------------------------------------------------------
Counts == [{"packets", "bytes"} -> Nat]

CounterTypeOK == /\ cells \in [Threads -> [Indices -> Counts]]
                 /\ added \in [Threads -> [Indices -> Counts]]
                 /\ memory \in Nat
                 /\ allocated \subseteq Indices

(* Every store arrived in the counter it was meant for: cells hold what    *)
(* their thread added since they were last zero, although the vectors move *)
(* and are zeroed by another thread and additions are not atomic.          *)
NoIncrementLost == \A t \in Threads, i \in allocated : cells[t][i] = added[t][i]

(* A sum need not be a value the total ever had, as the cells are loaded   *)
(* one after the other, but neither packets nor bytes are outside of what  *)
(* the total was between the start and the end of get.                     *)
GetWithinBounds ==
  \A t \in Threads :
    call[t].op = "get" /\ call[t].cell.thread \notin Threads =>
      \A p \in {"packets", "bytes"} :
        /\ call[t].atStart[p] <= call[t].sum[p]
        /\ call[t].sum[p] <= Total(call[t].index)[p]
=============================================================================
