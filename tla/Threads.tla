------------------------------ MODULE Threads ------------------------------
(***************************************************************************)
(* The main thread and the workers of VPP with a lock and a counter of     *)
(* this crate, both of which rely on the worker barrier.                   *)
(***************************************************************************)
EXTENDS BarrierLock, Counters

CONSTANTS MaxCount, MaxGets

vars == <<barrierVars, lockVars, counterVars>>

Init == BarrierInit /\ LockInit /\ CounterInit

(* Bounds for model checking: additions since the counter was zeroed, and  *)
(* calls of get at the same time.                                          *)
MayCount == MapThenSumSet(LAMBDA i : Total(i)["packets"], Indices)
              + Cardinality({t \in Threads : call[t].op = "increment"}) < MaxCount
MayGet == Cardinality({t \in Threads : call[t].op = "get"}) < MaxGets

BarrierStep == \/ \E w \in Workers : EnterNode(w) /\ UNCHANGED lockVars
               \/ \E w \in Workers : LeaveNode(w) /\ KeepOnLeave(w)
               \/ (WantBarrier \/ HoldBarrier) /\ UNCHANGED lockVars
               \/ ReleaseBarrier /\ KeepOnRelease

LockStep == \/ \E t \in Threads : Read(t) \/ DropRead(t)
            \/ Write
            \/ WriteData
            \/ DropWrite

Amounts == {[p \in {"packets", "bytes"} |-> IF p = "packets" THEN 1 ELSE 2]}

CounterStep ==
  \/ \E i \in Indices : AllocateIndex(i) \/ Zero(i)
  \/ \E t \in Threads, i \in Indices, by \in Amounts : MayCount /\ Increment(t, i, by)
  \/ \E t \in Threads : Store(t)
  \/ \E t \in Threads, i \in Indices : MayGet /\ Get(t, i)
  \/ \E t \in Threads : LoadCell(t) \/ EndGet(t)

Next == \/ BarrierStep /\ UNCHANGED counterVars
        \/ LockStep /\ UNCHANGED counterVars
        \/ CounterStep /\ UNCHANGED lockVars

Spec == Init /\ [][Next]_vars

(* Types of the lock and of the counter. *)
TypeOK == LockTypeOK /\ CounterTypeOK
=============================================================================
