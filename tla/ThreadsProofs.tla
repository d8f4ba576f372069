--------------------------- MODULE ThreadsProofs ---------------------------
(***************************************************************************)
(* The lock excludes, no addition is lost and sums are within bounds, for  *)
(* any number of workers and any bounds.                                   *)
(***************************************************************************)
EXTENDS Threads, WellFoundedInduction, TLAPS

LEMMA MainIsThread == Main \in Threads /\ Main \notin Workers /\ Workers \subseteq Threads
BY ThreadsAssumption DEF ThreadsAssumption, Main, Workers, Threads

-----------------------------------------------------------------------------
(* The lock.  Exclusion is inductive with where guards can be while none   *)
(* has been kept: a worker's inside a node function, the write guard under *)
(* the barrier.                                                            *)
WhereGuardsAre == ~kept => /\ guards \subseteq inNode
                           /\ writing => barrier = "held"

LockInv == /\ LockTypeOK
           /\ inNode \subseteq Workers
           /\ barrier \in {"open", "wanted", "held"}
           /\ barrier = "held" => inNode = {}
           /\ CountsMainGuards
           /\ WhereGuardsAre
           /\ Exclusion

LEMMA LockInvInit == Init => LockInv
<1> SUFFICES ASSUME Init PROVE LockInv
  OBVIOUS
<1>1. LockTypeOK
  BY DEF Init, LockInit, LockTypeOK
<1>2. CountsMainGuards /\ WhereGuardsAre /\ Exclusion
  BY DEF Init, LockInit, CountsMainGuards, WhereGuardsAre, Exclusion
<1>3. inNode = {} /\ barrier = "open"
  BY DEF Init, BarrierInit
<1>. QED
  BY <1>1, <1>2, <1>3 DEF LockInv

LEMMA LockInvStep == LockInv /\ [Next]_vars => LockInv'
<1> SUFFICES ASSUME LockInv, [Next]_vars PROVE LockInv'
  OBVIOUS
<1> USE MainIsThread
        DEF LockInv, LockTypeOK, CountsMainGuards, WhereGuardsAre, Exclusion, barrierVars,
            lockVars, guardVars
<1>1. ASSUME NEW w \in Workers, EnterNode(w), UNCHANGED lockVars PROVE LockInv'
  BY <1>1 DEF EnterNode
<1>2. ASSUME NEW w \in Workers, LeaveNode(w), KeepOnLeave(w) PROVE LockInv'
  BY <1>2 DEF LeaveNode, KeepOnLeave
<1>3. CASE WantBarrier /\ UNCHANGED lockVars
  BY <1>3 DEF WantBarrier
<1>4. CASE HoldBarrier /\ UNCHANGED lockVars
  BY <1>4 DEF HoldBarrier
<1>5. CASE ReleaseBarrier /\ KeepOnRelease
  BY <1>5 DEF ReleaseBarrier, BarrierHeld, KeepOnRelease
<1>6. ASSUME Panic PROVE LockInv'
  BY <1>6 DEF Panic
<1>7. ASSUME NEW t \in Threads, Read(t) PROVE LockInv'
  <2>1. CASE CountsReader(t) /\ writer
    BY <1>6, <1>7, <2>1 DEF Read
  <2>2. CASE t = Main /\ ~writer
    BY <1>7, <2>2 DEF Read, CountsReader
  <2>3. CASE t # Main
    <3>1. t \in Workers /\ t \in inNode
      BY <1>7, <2>3 DEF Read, Free, Running, Workers, Threads, Main
    <3>. QED
      BY <1>7, <2>3, <3>1 DEF Read, CountsReader
  <2>. QED
    BY <2>1, <2>2, <2>3 DEF CountsReader
<1>8. ASSUME NEW t \in Threads, DropRead(t) PROVE LockInv'
  <2>1. CASE t = Main
    BY <1>8, <2>1 DEF DropRead, CountsReader
  <2>2. CASE t # Main
    BY <1>8, <2>2 DEF DropRead, CountsReader
  <2>. QED
    BY <2>1, <2>2
<1>9. CASE Write
  <2>1. CASE readers # 0 \/ writer
    BY <1>6, <1>9, <2>1 DEF Write
  <2>2. CASE ~(readers # 0 \/ writer)
    BY <1>9, <2>2 DEF Write, BarrierHeld
  <2>. QED
    BY <2>1, <2>2
<1>10. CASE WriteData
  BY <1>10 DEF WriteData
<1>11. CASE DropWrite
  BY <1>11 DEF DropWrite
<1>12. ASSUME CounterStep, UNCHANGED lockVars PROVE LockInv'
  <2>1. UNCHANGED <<barrier, inNode, aborted>>
    BY <1>12 DEF CounterStep, AllocateIndex, Zero, Increment, Store, Get, LoadCell, EndGet
  <2>. QED
    BY <1>12, <2>1
<1>13. CASE UNCHANGED vars
  BY <1>13 DEF vars
<1>. QED
  BY <1>1, <1>2, <1>3, <1>4, <1>5, <1>7, <1>8, <1>9, <1>10, <1>11, <1>12, <1>13
     DEF Next, BarrierStep, LockStep

(* No thread reads while there is a write guard, for any number of workers *)
(* and of guards.                                                          *)
THEOREM LockExcludes == Spec => []Exclusion
<1>1. LockInv => Exclusion
  BY DEF LockInv
<1>. QED
  BY <1>1, LockInvInit, LockInvStep, PTL DEF Spec

(* The lock's fields count the main thread's guards and nothing else. *)
THEOREM LockCounts == Spec => []CountsMainGuards
<1>1. LockInv => CountsMainGuards
  BY DEF LockInv
<1>. QED
  BY <1>1, LockInvInit, LockInvStep, PTL DEF Spec

(* What a read guard shows does not change. *)
THEOREM ReadersSeeStableData == Spec => StableWhileRead
<1>1. ASSUME LockInv, [Next]_vars, ~kept', mainGuards > 0 \/ guards # {}
      PROVE  data' = data
  <2> SUFFICES ASSUME data' # data PROVE FALSE
    OBVIOUS
  <2>1. WriteData
    BY <1>1 DEF Next, vars, BarrierStep, LockStep, CounterStep, lockVars, KeepOnLeave,
                KeepOnRelease, Read, DropRead, Write, DropWrite, Panic
  <2>2. writing /\ ~kept
    BY <1>1, <2>1 DEF WriteData, guardVars
  <2>. QED
    BY <1>1, <2>2 DEF LockInv, LockTypeOK, Exclusion
<1>2. LockInv /\ [Next]_vars
        => [(~kept' /\ (mainGuards > 0 \/ guards # {})) => data' = data]_<<data, kept>>
  BY <1>1
<1>. QED
  BY <1>2, LockInvInit, LockInvStep, PTL DEF Spec, StableWhileRead
-----------------------------------------------------------------------------
(* The counter.  An addition under way knows the sum of its own cell and   *)
(* the memory the cell is in; both stay what they are because a thread in  *)
(* a call keeps the barrier from being held.                               *)
CallsKeepBarrierOpen ==
  \A t \in Threads : call[t] # NoCall => IF t = Main THEN barrier # "wanted" ELSE t \in inNode

Adding == [op : {"increment"}, index : allocated, by : Counts, ptr : {memory},
           left : {<<"packets", "bytes">>, <<"bytes">>}, new : Nat]

AdditionsAreCurrent ==
  \A t \in Threads : call[t].op = "increment" =>
    /\ call[t] \in Adding
    /\ call[t].new = cells[t][call[t].index][Head(call[t].left)] + call[t].by[Head(call[t].left)]

CounterInv == /\ CounterTypeOK
              /\ call = [t \in Threads |-> call[t]]
              /\ inNode \subseteq Workers
              /\ barrier \in {"open", "wanted", "held"}
              /\ barrier = "held" => inNode = {}
              /\ CallsKeepBarrierOpen
              /\ AdditionsAreCurrent
              /\ NoIncrementLost

LEMMA NoCountType == NoCount \in Counts
BY DEF NoCount, Counts

LEMMA ZeroAtType ==
  ASSUME NEW c \in [Threads -> [Indices -> Counts]], NEW i \in Indices
  PROVE  /\ ZeroAt(c, i) \in [Threads -> [Indices -> Counts]]
         /\ \A t \in Threads : /\ ZeroAt(c, i)[t][i] = NoCount
                               /\ \A j \in Indices \ {i} : ZeroAt(c, i)[t][j] = c[t][j]
BY NoCountType DEF ZeroAt

LEMMA HeldMeansQuiet ==
  ASSUME CounterInv, BarrierHeld
  PROVE  \A t \in Threads : call[t] = NoCall
BY MainIsThread DEF CounterInv, CallsKeepBarrierOpen, BarrierHeld, Free, Workers, Threads, Main

LEMMA CounterInvInit == Init => CounterInv
<1> SUFFICES ASSUME Init PROVE CounterInv
  OBVIOUS
<1>1. CounterTypeOK /\ NoIncrementLost
  BY NoCountType DEF Init, CounterInit, CounterTypeOK, AllZero, NoIncrementLost
<1>2. barrier = "open" /\ inNode = {} /\ call = [t \in Threads |-> NoCall]
  BY DEF Init, BarrierInit
<1>3. CallsKeepBarrierOpen /\ AdditionsAreCurrent
  BY <1>2 DEF CallsKeepBarrierOpen, AdditionsAreCurrent, NoCall
<1>. QED
  BY <1>1, <1>2, <1>3 DEF CounterInv

(* Steps that leave the counter and all calls alone. *)
LEMMA CounterInvFrame ==
  ASSUME CounterInv, UNCHANGED <<call, counterVars>>,
         inNode' \subseteq Workers,
         barrier' \in {"open", "wanted", "held"},
         barrier' = "held" => inNode' = {},
         CallsKeepBarrierOpen'
  PROVE  CounterInv'
BY DEF CounterInv, counterVars, CounterTypeOK, AdditionsAreCurrent, NoIncrementLost, Adding

LEMMA AllocateOrZero ==
  ASSUME CounterInv, BarrierHeld, NEW i \in Indices,
         cells' = ZeroAt(cells, i), added' = ZeroAt(added, i),
         allocated' = allocated \cup {i}, memory' \in Nat, UNCHANGED barrierVars
  PROVE  CounterInv'
<1>1. \A t \in Threads : call[t] = NoCall
  BY HeldMeansQuiet
<1>2. CounterTypeOK'
  BY ZeroAtType DEF CounterInv, CounterTypeOK
<1>3. NoIncrementLost'
  <2> SUFFICES ASSUME NEW t \in Threads, NEW j \in allocated \cup {i}
               PROVE  cells'[t][j] = added'[t][j]
    BY DEF NoIncrementLost
  <2>1. CASE j = i
    BY <2>1, ZeroAtType DEF CounterInv, CounterTypeOK
  <2>2. CASE j # i
    BY <2>2, ZeroAtType DEF CounterInv, CounterTypeOK, NoIncrementLost
  <2>. QED
    BY <2>1, <2>2
<1>4. AdditionsAreCurrent' /\ CallsKeepBarrierOpen'
  BY <1>1 DEF AdditionsAreCurrent, CallsKeepBarrierOpen, barrierVars, NoCall
<1>. QED
  BY <1>2, <1>3, <1>4 DEF CounterInv, barrierVars
LEMMA CallsStay ==
  ASSUME CounterInv, NEW t \in Threads, Running(t), NEW c, Set(t, c), UNCHANGED <<barrier, inNode>>
  PROVE  /\ CallsKeepBarrierOpen'
         /\ call' = [u \in Threads |-> call'[u]]
         /\ call'[t] = c
         /\ \A u \in Threads \ {t} : call'[u] = call[u]
BY DEF CounterInv, CallsKeepBarrierOpen, Running, Set

LEMMA IncrementStep ==
  ASSUME CounterInv, NEW t \in Threads, NEW i \in Indices, NEW by \in Counts, Increment(t, i, by)
  PROVE  CounterInv'
<1> DEFINE c == [op |-> "increment", index |-> i, by |-> by, ptr |-> memory,
                 left |-> Parts, new |-> cells[t][i]["packets"] + by["packets"]]
<1>1. Running(t) /\ Set(t, c) /\ i \in allocated /\ UNCHANGED <<barrier, inNode, counterVars>>
  BY DEF Increment, Free
<1>2. /\ CallsKeepBarrierOpen'
      /\ call' = [u \in Threads |-> call'[u]]
      /\ call'[t] = c
      /\ \A u \in Threads \ {t} : call'[u] = call[u]
  <2> HIDE DEF c
  <2>. QED
    BY <1>1, CallsStay
<1>3. c \in Adding /\ c.new = cells[t][i]["packets"] + by["packets"] /\ Head(c.left) = "packets"
  <2>1. cells[t][i]["packets"] \in Nat /\ by["packets"] \in Nat
    BY DEF CounterInv, CounterTypeOK, Counts
  <2>. QED
    BY <1>1, <2>1 DEF Adding, Parts
<1>4. AdditionsAreCurrent'
  BY <1>1, <1>2, <1>3 DEF AdditionsAreCurrent, CounterInv, counterVars, Adding
<1>. QED
  BY <1>1, <1>2, <1>4 DEF CounterInv, counterVars, CounterTypeOK, NoIncrementLost

LEMMA StoreStep ==
  ASSUME CounterInv, NEW t \in Threads, Store(t)
  PROVE  CounterInv'
<1> DEFINE c == call[t]
           p == Head(c.left)
           stored == [cells[t][c.index] EXCEPT ![p] = c.new]
           next == IF Len(c.left) = 1 THEN NoCall
                   ELSE [c EXCEPT !.left = Tail(@), !.new = stored[c.left[2]] + c.by[c.left[2]]]
<1>1. /\ Running(t) /\ Set(t, next) /\ c.op = "increment"
      /\ cells' = IF c.ptr = memory THEN [cells EXCEPT ![t][c.index] = stored] ELSE cells
      /\ added' = [added EXCEPT ![t][c.index][p] = @ + c.by[p]]
      /\ UNCHANGED <<barrier, inNode, aborted, memory, allocated>>
  BY DEF Store
<1>2. c \in Adding /\ c.new = cells[t][c.index][p] + c.by[p]
  BY <1>1 DEF CounterInv, AdditionsAreCurrent
<1>3. /\ c.ptr = memory /\ c.index \in allocated /\ c.by \in Counts /\ c.new \in Nat
      /\ c.left \in {<<"packets", "bytes">>, <<"bytes">>} /\ c.index \in Indices
  BY <1>2 DEF Adding, CounterInv, CounterTypeOK
<1>4. p \in {"packets", "bytes"}
  BY <1>3
<1>5. /\ cells \in [Threads -> [Indices -> Counts]]
      /\ added \in [Threads -> [Indices -> Counts]]
      /\ cells[t][c.index] = added[t][c.index]
  BY <1>3 DEF CounterInv, CounterTypeOK, NoIncrementLost
<1>6. stored \in Counts
  BY <1>3, <1>4, <1>5 DEF Counts
<1>7. stored = [added[t][c.index] EXCEPT ![p] = @ + c.by[p]]
  BY <1>2, <1>5
<1>8. /\ cells' = [cells EXCEPT ![t][c.index] = stored]
      /\ added' = [added EXCEPT ![t][c.index] = stored]
  <2> HIDE DEF p
  <2>. QED
    BY <1>1, <1>3, <1>7
<1>9. CounterTypeOK' /\ NoIncrementLost'
  <2> HIDE DEF stored, p, c
  <2>. QED
    BY <1>1, <1>3, <1>5, <1>6, <1>8 DEF CounterInv, CounterTypeOK, NoIncrementLost
<1>10. /\ CallsKeepBarrierOpen'
       /\ call' = [u \in Threads |-> call'[u]]
       /\ call'[t] = next
       /\ \A u \in Threads \ {t} : call'[u] = call[u]
  <2> HIDE DEF next
  <2>. QED
    BY <1>1, CallsStay
<1>11. AdditionsAreCurrent'
  <2> SUFFICES ASSUME NEW u \in Threads, call'[u].op = "increment"
               PROVE  /\ call'[u] \in Adding'
                      /\ call'[u].new = cells'[u][call'[u].index][Head(call'[u].left)]
                                          + call'[u].by[Head(call'[u].left)]
    BY DEF AdditionsAreCurrent
  <2>1. Adding' = Adding
    BY <1>1 DEF Adding
  <2>2. CASE u # t
    <3>1. call'[u] = call[u] /\ cells'[u] = cells[u]
      BY <1>5, <1>8, <1>10, <2>2
    <3>. QED
      BY <2>1, <3>1 DEF CounterInv, AdditionsAreCurrent
  <2>3. CASE u = t
    <3>1. c.left = <<"packets", "bytes">>
      BY <1>3, <1>10, <2>3 DEF NoCall
    <3>2. call'[t] = [c EXCEPT !.left = <<"bytes">>, !.new = stored["bytes"] + c.by["bytes"]]
      BY <1>10, <3>1
    <3>3. stored["bytes"] + c.by["bytes"] \in Nat
      BY <1>3, <1>6 DEF Counts
    <3>4. call'[t] \in Adding /\ call'[t].index = c.index /\ call'[t].by = c.by
          /\ call'[t].left = <<"bytes">> /\ call'[t].new = stored["bytes"] + c.by["bytes"]
      BY <1>2, <3>2, <3>3 DEF Adding
    <3>5. cells'[t][c.index] = stored
      BY <1>3, <1>5, <1>8
    <3>. QED
      BY <2>1, <2>3, <3>4, <3>5
  <2>. QED
    BY <2>2, <2>3
<1>. QED
  BY <1>1, <1>9, <1>10, <1>11 DEF CounterInv
LEMMA NoAdditionStep ==
  ASSUME CounterInv, NEW t \in Threads, Running(t), NEW c, c.op # "increment", Set(t, c),
         UNCHANGED <<barrier, inNode, counterVars>>
  PROVE  CounterInv'
<1>1. /\ CallsKeepBarrierOpen'
      /\ call' = [u \in Threads |-> call'[u]]
      /\ call'[t] = c
      /\ \A u \in Threads \ {t} : call'[u] = call[u]
  BY CallsStay
<1>2. AdditionsAreCurrent'
  BY <1>1 DEF CounterInv, AdditionsAreCurrent, Adding, counterVars
<1>. QED
  BY <1>1, <1>2 DEF CounterInv, counterVars, CounterTypeOK, NoIncrementLost

LEMMA CounterInvStep == CounterInv /\ [Next]_vars => CounterInv'
<1> SUFFICES ASSUME CounterInv, [Next]_vars PROVE CounterInv'
  OBVIOUS
<1>1. ASSUME BarrierStep, UNCHANGED counterVars PROVE CounterInv'
  <2>1. ASSUME NEW w \in Workers, EnterNode(w) PROVE CounterInv'
    <3>1. CallsKeepBarrierOpen'
      BY <2>1 DEF EnterNode, CounterInv, CallsKeepBarrierOpen
    <3>. QED
      BY <1>1, <2>1, <3>1, CounterInvFrame DEF EnterNode, CounterInv
  <2>2. ASSUME NEW w \in Workers, LeaveNode(w) PROVE CounterInv'
    <3>1. CallsKeepBarrierOpen'
      BY <2>2 DEF LeaveNode, Free, CounterInv, CallsKeepBarrierOpen
    <3>. QED
      BY <1>1, <2>2, <3>1, CounterInvFrame DEF LeaveNode, CounterInv
  <2>3. CASE WantBarrier
    <3>1. CallsKeepBarrierOpen'
      BY <2>3 DEF WantBarrier, Free, CounterInv, CallsKeepBarrierOpen
    <3>. QED
      BY <1>1, <2>3, <3>1, CounterInvFrame DEF WantBarrier, CounterInv
  <2>4. CASE HoldBarrier
    <3>1. CallsKeepBarrierOpen'
      BY <2>4 DEF HoldBarrier, CounterInv, CallsKeepBarrierOpen
    <3>. QED
      BY <1>1, <2>4, <3>1, CounterInvFrame DEF HoldBarrier, CounterInv
  <2>5. CASE ReleaseBarrier
    <3>1. CallsKeepBarrierOpen'
      BY <2>5 DEF ReleaseBarrier, BarrierHeld, Free, CounterInv, CallsKeepBarrierOpen
    <3>. QED
      BY <1>1, <2>5, <3>1, CounterInvFrame DEF ReleaseBarrier, CounterInv
  <2>. QED
    BY <1>1, <2>1, <2>2, <2>3, <2>4, <2>5 DEF BarrierStep
<1>2. ASSUME LockStep, UNCHANGED counterVars PROVE CounterInv'
  <2>1. UNCHANGED <<barrier, inNode, call>>
    BY <1>2 DEF LockStep, Read, DropRead, Write, WriteData, DropWrite, Panic, barrierVars
  <2>2. CallsKeepBarrierOpen'
    BY <2>1 DEF CounterInv, CallsKeepBarrierOpen
  <2>. QED
    BY <1>2, <2>1, <2>2, CounterInvFrame DEF CounterInv
<1>3. ASSUME NEW i \in Indices, AllocateIndex(i) PROVE CounterInv'
  <2>1. memory' \in Nat
    BY <1>3 DEF AllocateIndex, CounterInv, CounterTypeOK
  <2>. QED
    BY <1>3, <2>1, AllocateOrZero DEF AllocateIndex
<1>4. ASSUME NEW i \in Indices, Zero(i) PROVE CounterInv'
  <2>1. allocated' = allocated \cup {i} /\ memory' \in Nat
    BY <1>4 DEF Zero, CounterInv, CounterTypeOK
  <2>. QED
    BY <1>4, <2>1, AllocateOrZero DEF Zero
<1>5. ASSUME NEW t \in Threads, NEW i \in Indices, NEW by \in Amounts, Increment(t, i, by)
      PROVE  CounterInv'
  <2>1. by \in Counts
    BY DEF Amounts, Counts
  <2>. QED
    BY <1>5, <2>1, IncrementStep
<1>6. ASSUME NEW t \in Threads, Store(t) PROVE CounterInv'
  BY <1>6, StoreStep
<1>7. ASSUME NEW t \in Threads, NEW i \in Indices, Get(t, i) PROVE CounterInv'
  <2> DEFINE c == [op |-> "get", index |-> i, cell |-> FirstCell, sum |-> NoCount,
                   atStart |-> Total(i)]
  <2>1. c.op # "increment"
    OBVIOUS
  <2>2. Running(t) /\ Set(t, c) /\ UNCHANGED <<barrier, inNode, counterVars>>
    BY <1>7 DEF Get, Free
  <2> HIDE DEF c
  <2>. QED
    BY <2>1, <2>2, NoAdditionStep
<1>8. ASSUME NEW t \in Threads, LoadCell(t) PROVE CounterInv'
  <2> DEFINE c == [call[t] EXCEPT !.cell = CellAfter(@), !.sum = SumWith(call[t])]
  <2>1. Running(t) /\ Set(t, c) /\ UNCHANGED <<barrier, inNode, counterVars>> /\ call[t].op = "get"
    BY <1>8 DEF LoadCell
  <2>2. c.op # "increment"
    BY <2>1
  <2> HIDE DEF c
  <2>. QED
    BY <2>1, <2>2, NoAdditionStep
<1>9. ASSUME NEW t \in Threads, EndGet(t) PROVE CounterInv'
  <2>1. NoCall.op # "increment"
    BY DEF NoCall
  <2>. QED
    BY <1>9, <2>1, NoAdditionStep DEF EndGet
<1>10. CASE UNCHANGED vars
  <2>1. CallsKeepBarrierOpen'
    BY <1>10 DEF vars, barrierVars, CounterInv, CallsKeepBarrierOpen
  <2>. QED
    BY <1>10, <2>1, CounterInvFrame DEF vars, barrierVars, CounterInv
<1>. QED
  BY <1>1, <1>2, <1>3, <1>4, <1>5, <1>6, <1>7, <1>8, <1>9, <1>10 DEF Next, CounterStep

(* No addition of any thread is lost, for any number of workers and of     *)
(* counters, although additions are a load and a store and the vectors     *)
(* move.                                                                   *)
THEOREM AdditionsArrive == Spec => []NoIncrementLost
<1>1. CounterInv => NoIncrementLost
  BY DEF CounterInv
<1>. QED
  BY <1>1, CounterInvInit, CounterInvStep, PTL DEF Spec

-----------------------------------------------------------------------------
(* Sums over the threads. *)
LEMMA Least ==
  ASSUME NEW T, T \subseteq Nat, T # {}
  PROVE  \E m \in T : \A n \in T : m <= n
<1>1. PICK x \in T : \A y \in T : ~ (<<y, x>> \in OpToRel(<, Nat))
  BY NatLessThanWellFounded, WFMin
<1>2. \A y \in T : ~ (y < x)
  BY <1>1 DEF OpToRel
<1>. QED
  BY <1>2

IsSums(f, m, s) == s = [n \in 0..m |-> IF n = 0 THEN 0 ELSE s[n - 1] + f[n - 1]]

LEMMA SumsExist == \A f : \E s : IsSums(f, NumWorkers + 1, s)
<1> SUFFICES ASSUME NEW f PROVE \E s : IsSums(f, NumWorkers + 1, s)
  OBVIOUS
<1> DEFINE Bad == {m \in 0..NumWorkers + 1 : ~ \E s : IsSums(f, m, s)}
<1>1. SUFFICES ASSUME Bad # {} PROVE FALSE
  BY ThreadsAssumption DEF ThreadsAssumption
<1>2. PICK m \in Bad : \A k \in Bad : m <= k
  <2>1. Bad \subseteq Nat
    BY ThreadsAssumption DEF ThreadsAssumption
  <2>. QED
    BY <1>1, <2>1, Least
<1>3. m \in 0..NumWorkers + 1 /\ NumWorkers \in Nat
  BY <1>2, ThreadsAssumption DEF ThreadsAssumption
<1>4. CASE m = 0
  <2>1. IsSums(f, 0, [n \in 0..0 |-> 0])
    BY DEF IsSums
  <2>. QED
    BY <1>2, <1>4, <2>1
<1>5. CASE m # 0
  <2>1. m - 1 \in 0..NumWorkers + 1 /\ m - 1 \notin Bad
    BY <1>2, <1>3, <1>5
  <2>2. PICK s : IsSums(f, m - 1, s)
    BY <2>1
  <2>3. PICK r : r = [n \in 0..m |-> IF n = m THEN s[m - 1] + f[m - 1] ELSE s[n]]
    OBVIOUS
  <2>4. \A n \in 0..(m - 1) : s[n] = IF n = 0 THEN 0 ELSE s[n - 1] + f[n - 1]
    BY <2>2 DEF IsSums
  <2>5. \A n \in 0..(m - 1) : r[n] = s[n]
    BY <1>3, <1>5, <2>3
  <2>6. r[m] = r[m - 1] + f[m - 1]
    BY <1>3, <1>5, <2>3, <2>5
  <2>7. \A n \in 0..m : r[n] = IF n = 0 THEN 0 ELSE r[n - 1] + f[n - 1]
    <3> SUFFICES ASSUME NEW n \in 0..m
                 PROVE  r[n] = IF n = 0 THEN 0 ELSE r[n - 1] + f[n - 1]
      OBVIOUS
    <3>1. CASE n = m
      BY <1>5, <2>6, <3>1
    <3>2. CASE n # m
      <4>1. n \in 0..(m - 1) /\ (n # 0 => n - 1 \in 0..(m - 1))
        BY <1>3, <3>2
      <4>. QED
        BY <2>4, <2>5, <4>1
    <3>. QED
      BY <3>1, <3>2
  <2>8. r = [n \in 0..m |-> IF n = 0 THEN 0 ELSE r[n - 1] + f[n - 1]]
    BY <2>3, <2>7
  <2>. QED
    BY <1>2, <2>8 DEF IsSums
<1>. QED
  BY <1>4, <1>5

LEMMA SumsAre ==
  ASSUME NEW f \in [Threads -> Nat]
  PROVE  /\ RunningSums(f) \in [0..NumWorkers + 1 -> Nat]
         /\ RunningSums(f)[0] = 0
         /\ \A n \in Threads : RunningSums(f)[n + 1] = RunningSums(f)[n] + f[n]
<1> DEFINE s == RunningSums(f)
           N == NumWorkers + 1
<1>1. s = CHOOSE r : IsSums(f, N, r)
  BY DEF RunningSums, IsSums
<1>2. IsSums(f, N, s)
  BY <1>1, SumsExist
<1> HIDE DEF s
<1>3. /\ DOMAIN s = 0..N /\ s = [n \in 0..N |-> s[n]]
      /\ \A n \in 0..N : s[n] = IF n = 0 THEN 0 ELSE s[n - 1] + f[n - 1]
  BY <1>2 DEF IsSums
<1>4. NumWorkers \in Nat
  BY ThreadsAssumption DEF ThreadsAssumption
<1>5. s[0] = 0
  <2>1. 0 \in 0..N
    BY <1>4
  <2>. QED
    BY <1>3, <2>1
<1>6. \A n \in Threads : s[n + 1] = s[n] + f[n]
  <2> SUFFICES ASSUME NEW n \in Threads PROVE s[n + 1] = s[n] + f[n]
    OBVIOUS
  <2>1. n + 1 \in 0..N /\ n + 1 # 0 /\ (n + 1) - 1 = n
    BY <1>4 DEF Threads
  <2>. QED
    BY <1>3, <2>1
<1> DEFINE Bad == {n \in 0..N : s[n] \notin Nat}
<1>7. Bad = {}
  <2> SUFFICES ASSUME Bad # {} PROVE FALSE
    OBVIOUS
  <2>1. Bad \subseteq Nat
    BY <1>4
  <2>2. PICK n \in Bad : \A k \in Bad : n <= k
    BY <2>1, Least
  <2>3. n # 0 /\ n - 1 \in Threads /\ (n - 1) + 1 = n /\ n - 1 \notin Bad /\ n - 1 \in 0..N
    BY <1>4, <1>5, <2>2 DEF Threads
  <2>4. s[n - 1] \in Nat /\ f[n - 1] \in Nat
    BY <2>3
  <2>5. s[n] = s[n - 1] + f[n - 1]
    BY <1>6, <2>3
  <2>. QED
    BY <2>2, <2>4, <2>5
<1>8. s \in [0..N -> Nat]
  BY <1>3, <1>7
<1>. QED
  BY <1>5, <1>6, <1>8 DEF s

(* What one thread adds is in the sums after it. *)
SumsGrow(f, g, u, x) == \A n \in 0..NumWorkers + 1 :
                          RunningSums(g)[n] = RunningSums(f)[n] + IF u < n THEN x ELSE 0

LEMMA SumsAfterAddition ==
  ASSUME NEW f \in [Threads -> Nat], NEW u \in Threads, NEW x \in Nat,
         NEW g, g = [f EXCEPT ![u] = @ + x]
  PROVE  SumsGrow(f, g, u, x)
<1> DEFINE s == RunningSums(f)
           r == RunningSums(g)
           N == NumWorkers + 1
<1>1. g \in [Threads -> Nat] /\ g[u] = f[u] + x /\ \A v \in Threads \ {u} : g[v] = f[v]
  OBVIOUS
<1>2. NumWorkers \in Nat
  BY ThreadsAssumption DEF ThreadsAssumption
<1>3. s \in [0..N -> Nat] /\ s[0] = 0 /\ \A n \in Threads : s[n + 1] = s[n] + f[n]
  BY SumsAre
<1>4. r \in [0..N -> Nat] /\ r[0] = 0 /\ \A n \in Threads : r[n + 1] = r[n] + g[n]
  BY <1>1, SumsAre
<1> HIDE DEF s, r
<1> DEFINE Bad == {n \in 0..N : r[n] # s[n] + IF u < n THEN x ELSE 0}
<1>5. Bad = {}
  <2> SUFFICES ASSUME Bad # {} PROVE FALSE
    OBVIOUS
  <2>1. Bad \subseteq Nat
    BY <1>2
  <2>2. PICK n \in Bad : \A k \in Bad : n <= k
    BY <2>1, Least
  <2>3. u \in Nat
    BY DEF Threads
  <2>4. n # 0
    BY <1>3, <1>4, <2>2, <2>3
  <2>5. n - 1 \in Threads /\ (n - 1) + 1 = n /\ n - 1 \in 0..N
    BY <1>2, <2>2, <2>4 DEF Threads
  <2>6. r[n - 1] = s[n - 1] + IF u < n - 1 THEN x ELSE 0
    BY <2>2, <2>5
  <2>7. /\ r[n] = r[n - 1] + g[n - 1] /\ s[n] = s[n - 1] + f[n - 1]
        /\ s[n - 1] \in Nat /\ f[n - 1] \in Nat
    BY <1>3, <1>4, <2>5
  <2>8. CASE n - 1 = u
    <3>1. g[n - 1] = f[n - 1] + x /\ u < n /\ ~ (u < n - 1)
      BY <1>1, <2>3, <2>8
    <3>2. r[n] = s[n] + x
      BY <2>6, <2>7, <3>1
    <3>. QED
      BY <2>2, <3>1, <3>2
  <2>9. CASE n - 1 # u
    <3>1. g[n - 1] = f[n - 1] /\ (u < n <=> u < n - 1)
      BY <1>1, <2>2, <2>3, <2>5, <2>9
    <3>2. r[n] = s[n] + IF u < n THEN x ELSE 0
      BY <2>6, <2>7, <3>1
    <3>. QED
      BY <2>2, <3>2
  <2>. QED
    BY <2>8, <2>9
<1>. QED
  BY <1>5 DEF s, r, SumsGrow

(* While get is under way, with the cells of n threads loaded: its sum is  *)
(* at most what these threads have added by now, and what is still to be   *)
(* loaded makes it at least the total when get was called.                 *)
AddedIn(a, i, p) == [t \in Threads |-> a[t][i][p]]

Loaded(cell, p) == cell.thread + IF cell.part = "bytes" /\ p = "packets" THEN 1 ELSE 0

Bounds(c, sums, n, p) == /\ c.atStart[p] + sums[n] <= c.sum[p] + sums[NumWorkers + 1]
                         /\ c.sum[p] <= sums[n]

Bounded(c, a) == \A p \in {"packets", "bytes"} :
                   Bounds(c, RunningSums(AddedIn(a, c.index, p)), Loaded(c.cell, p), p)

CellsOfGet == {cell \in [thread : 0..NumWorkers + 1, part : {"packets", "bytes"}] :
                 cell.thread \in Threads \/ cell.part = "packets"}

Getting == [op : {"get"}, index : Indices, cell : CellsOfGet, sum : Counts, atStart : Counts]

GetsAreBounded == \A t \in Threads : call[t].op = "get" =>
                    /\ call[t] \in Getting /\ call[t].index \in allocated
                    /\ Bounded(call[t], added)

LEMMA AddedInType ==
  ASSUME NEW a \in [Threads -> [Indices -> Counts]], NEW i \in Indices,
         NEW p \in {"packets", "bytes"}
  PROVE  AddedIn(a, i, p) \in [Threads -> Nat]
BY DEF AddedIn, Counts

LEMMA LoadedType ==
  ASSUME NEW cell \in CellsOfGet, NEW p \in {"packets", "bytes"}
  PROVE  Loaded(cell, p) \in 0..NumWorkers + 1
<1>1. NumWorkers \in Nat
  BY ThreadsAssumption DEF ThreadsAssumption
<1>2. /\ cell.thread \in 0..NumWorkers + 1 /\ cell.part \in {"packets", "bytes"}
      /\ cell.thread \in Threads \/ cell.part = "packets"
  BY DEF CellsOfGet
<1>. QED
  BY <1>1, <1>2 DEF Loaded, Threads

LEMMA BoundedAtStart ==
  ASSUME NEW a \in [Threads -> [Indices -> Counts]], NEW i \in Indices,
         NEW c, c.index = i, c.cell = FirstCell, c.sum = NoCount,
         \A p \in {"packets", "bytes"} :
           c.atStart[p] = RunningSums(AddedIn(a, i, p))[NumWorkers + 1]
  PROVE  Bounded(c, a)
<1> SUFFICES ASSUME NEW p \in {"packets", "bytes"}
             PROVE  Bounds(c, RunningSums(AddedIn(a, i, p)), Loaded(c.cell, p), p)
  BY DEF Bounded
<1> DEFINE sums == RunningSums(AddedIn(a, i, p))
<1>1. sums \in [0..NumWorkers + 1 -> Nat] /\ sums[0] = 0
  BY AddedInType, SumsAre
<1>2. Loaded(c.cell, p) = 0 /\ c.sum[p] = 0 /\ c.atStart[p] = sums[NumWorkers + 1]
  BY DEF Loaded, FirstCell, NoCount
<1>3. sums[NumWorkers + 1] \in Nat
  BY <1>1, ThreadsAssumption DEF ThreadsAssumption
<1> HIDE DEF sums
<1>4. Bounds(c, sums, 0, p)
  BY <1>1, <1>2, <1>3 DEF Bounds
<1>. QED
  BY <1>2, <1>4 DEF sums

IsSumOf(sum, k, q, x) == /\ sum \in Counts /\ sum[q] = k[q] + x
                         /\ \A p \in {"packets", "bytes"} \ {q} : sum[p] = k[p]

LEMMA CountsAdd ==
  ASSUME NEW k \in Counts, NEW q \in {"packets", "bytes"}, NEW x \in Nat
  PROVE  IsSumOf([k EXCEPT ![q] = @ + x], k, q, x)
BY DEF Counts, IsSumOf

LEMMA GettingIs ==
  ASSUME NEW i \in Indices, NEW cell \in CellsOfGet, NEW sum \in Counts, NEW atStart \in Counts
  PROVE  [op |-> "get", index |-> i, cell |-> cell, sum |-> sum, atStart |-> atStart] \in Getting
BY DEF Getting

LEMMA BoundedAfterLoad ==
  ASSUME NEW a \in [Threads -> [Indices -> Counts]], NEW c \in Getting, Bounded(c, a),
         c.cell.thread \in Threads,
         NEW sum,
         sum = [c.sum EXCEPT ![c.cell.part] = @ + a[c.cell.thread][c.index][c.cell.part]],
         NEW d, d = [op |-> "get", index |-> c.index, cell |-> CellAfter(c.cell), sum |-> sum,
                     atStart |-> c.atStart]
  PROVE  d \in Getting /\ d.index = c.index /\ Bounded(d, a)
<1> DEFINE q == c.cell.part
           n == c.cell.thread
           x == a[n][c.index][q]
<1>1. NumWorkers \in Nat
  BY ThreadsAssumption DEF ThreadsAssumption
<1>2. /\ c.cell \in CellsOfGet /\ q \in {"packets", "bytes"} /\ n \in Threads /\ c.index \in Indices
      /\ c.sum \in Counts /\ c.atStart \in Counts
      /\ c.cell = [thread |-> n, part |-> q]
  BY DEF Getting, CellsOfGet
<1>3. x \in Nat
  BY <1>2 DEF Counts
<1>4. /\ sum \in Counts /\ sum[q] = c.sum[q] + x
      /\ \A p \in {"packets", "bytes"} \ {q} : sum[p] = c.sum[p]
  <2>1. PICK k, r, y : k = c.sum /\ r = q /\ y = x
    OBVIOUS
  <2>2. IsSumOf([k EXCEPT ![r] = @ + y], k, r, y)
    BY <1>2, <1>3, <2>1, CountsAdd
  <2>3. sum = [k EXCEPT ![r] = @ + y]
    BY <2>1
  <2>. QED
    BY <2>1, <2>2, <2>3 DEF IsSumOf
<1>5. /\ d.cell = CellAfter(c.cell) /\ d.sum = sum /\ d.index = c.index /\ d.atStart = c.atStart
  OBVIOUS
<1>6. CellAfter(c.cell) \in CellsOfGet
  <2>1. CASE q = "packets"
    BY <1>1, <1>2, <2>1 DEF CellAfter, CellsOfGet
  <2>2. CASE q = "bytes"
    BY <1>1, <1>2, <2>2 DEF CellAfter, CellsOfGet, Threads
  <2>. QED
    BY <1>2, <2>1, <2>2
<1>7. d \in Getting
  BY <1>2, <1>4, <1>6, GettingIs
<1>8. \A p \in {"packets", "bytes"} :
        Loaded(d.cell, p) = Loaded(c.cell, p) + IF p = q THEN 1 ELSE 0
  <2> SUFFICES ASSUME NEW p \in {"packets", "bytes"}
               PROVE  Loaded(d.cell, p) = Loaded(c.cell, p) + IF p = q THEN 1 ELSE 0
    OBVIOUS
  <2>1. n \in Nat
    BY <1>1, <1>2 DEF Threads
  <2>2. CASE q = "packets"
    <3>1. d.cell = [thread |-> n, part |-> "bytes"]
      BY <1>2, <1>5, <2>2 DEF CellAfter
    <3>. QED
      BY <2>1, <2>2, <3>1 DEF Loaded
  <2>3. CASE q = "bytes"
    <3>1. d.cell = [thread |-> n + 1, part |-> "packets"]
      BY <1>2, <1>5, <2>3 DEF CellAfter
    <3>. QED
      BY <2>1, <2>3, <3>1 DEF Loaded
  <2>. QED
    BY <1>2, <2>2, <2>3
<1>9. Loaded(c.cell, q) = n
  BY <1>1, <1>2 DEF Loaded, Threads
<1>10. ASSUME NEW p \in {"packets", "bytes"}
       PROVE  Bounds(d, RunningSums(AddedIn(a, c.index, p)), Loaded(d.cell, p), p)
  <2> DEFINE sums == RunningSums(AddedIn(a, c.index, p))
  <2>1. /\ sums \in [0..NumWorkers + 1 -> Nat]
        /\ \A m \in Threads : sums[m + 1] = sums[m] + AddedIn(a, c.index, p)[m]
    BY <1>2, AddedInType, SumsAre
  <2>2. Bounds(c, sums, Loaded(c.cell, p), p)
    BY DEF Bounded
  <2> HIDE DEF sums
  <2>3. CASE p # q
    <3>1. Loaded(d.cell, p) = Loaded(c.cell, p)
      <4>1. Loaded(c.cell, p) \in Nat
        BY <1>1, <1>2, LoadedType
      <4>. QED
        BY <1>8, <2>3, <4>1
    <3>. QED
      BY <1>4, <1>5, <2>2, <2>3, <3>1 DEF Bounds, sums
  <2>4. CASE p = q
    <3>1. Loaded(c.cell, p) = n /\ Loaded(d.cell, p) = n + 1
      BY <1>8, <1>9, <2>4
    <3>2. sums[n + 1] = sums[n] + x
      BY <1>2, <2>1, <2>4 DEF AddedIn
    <3>3. sums[n] \in Nat /\ sums[n + 1] \in Nat /\ sums[NumWorkers + 1] \in Nat
      BY <1>1, <1>2, <2>1 DEF Threads
    <3>4. d.sum[p] = c.sum[p] + x /\ d.atStart[p] = c.atStart[p]
      BY <1>4, <1>5, <2>4
    <3>5. c.sum[p] \in Nat /\ c.atStart[p] \in Nat
      BY <1>2 DEF Counts
    <3>6. c.atStart[p] + sums[n] <= c.sum[p] + sums[NumWorkers + 1] /\ c.sum[p] <= sums[n]
      BY <2>2, <3>1 DEF Bounds
    <3> HIDE DEF n, x, q
    <3>7. Bounds(d, sums, n + 1, p)
      BY <1>3, <3>2, <3>3, <3>4, <3>5, <3>6 DEF Bounds
    <3>. QED
      BY <3>1, <3>7 DEF sums
  <2>. QED
    BY <2>3, <2>4
<1>11. Bounded(d, a)
  BY <1>5, <1>10 DEF Bounded
<1>. QED
  BY <1>5, <1>7, <1>11

LEMMA BoundedAfterStore ==
  ASSUME NEW a \in [Threads -> [Indices -> Counts]], NEW c \in Getting, Bounded(c, a),
         NEW u \in Threads, NEW i \in Indices, NEW q \in {"packets", "bytes"}, NEW x \in Nat,
         NEW b, b = [a EXCEPT ![u][i][q] = @ + x]
  PROVE  Bounded(c, b)
<1>1. NumWorkers \in Nat
  BY ThreadsAssumption DEF ThreadsAssumption
<1>2. c.index \in Indices /\ c.cell \in CellsOfGet /\ c.sum \in Counts /\ c.atStart \in Counts
  BY DEF Getting
<1> SUFFICES ASSUME NEW p \in {"packets", "bytes"}
             PROVE  Bounds(c, RunningSums(AddedIn(b, c.index, p)), Loaded(c.cell, p), p)
  BY DEF Bounded
<1> DEFINE f == AddedIn(a, c.index, p)
           g == AddedIn(b, c.index, p)
           n == Loaded(c.cell, p)
<1>3. f \in [Threads -> Nat] /\ n \in 0..NumWorkers + 1
  BY <1>2, AddedInType, LoadedType
<1>4. Bounds(c, RunningSums(f), n, p)
  BY DEF Bounded
<1>5. \A t \in Threads, j \in Indices, r \in {"packets", "bytes"} :
        b[t][j][r] = IF t = u /\ j = i /\ r = q THEN a[t][j][r] + x ELSE a[t][j][r]
  BY DEF Counts
<1>6. CASE ~ (c.index = i /\ p = q)
  <2>1. g = f
    BY <1>2, <1>5, <1>6 DEF AddedIn
  <2> HIDE DEF f, g, n
  <2>2. Bounds(c, RunningSums(g), n, p)
    BY <1>4, <2>1
  <2>. QED
    BY <2>2 DEF g, n
<1>7. CASE c.index = i /\ p = q
  <2>1. g = [f EXCEPT ![u] = @ + x] /\ f \in [Threads -> Nat]
    <3>1. \A t \in Threads : g[t] = IF t = u THEN f[t] + x ELSE f[t]
      BY <1>2, <1>5, <1>7 DEF AddedIn
    <3>2. DOMAIN g = Threads /\ DOMAIN f = Threads /\ g = [t \in Threads |-> g[t]]
      BY DEF AddedIn
    <3> HIDE DEF f, g
    <3>. QED
      BY <1>3, <3>1, <3>2
  <2> HIDE DEF f, g, n
  <2>2. SumsGrow(f, g, u, x)
    BY <2>1, SumsAfterAddition
  <2>3. /\ n \in 0..NumWorkers + 1 /\ NumWorkers + 1 \in 0..NumWorkers + 1
        /\ u \in Nat /\ u < NumWorkers + 1
    BY <1>1, <1>3 DEF Threads
  <2>4. RunningSums(f) \in [0..NumWorkers + 1 -> Nat]
    BY <1>3, SumsAre
  <2>5. /\ RunningSums(g)[n] = RunningSums(f)[n] + IF u < n THEN x ELSE 0
        /\ RunningSums(g)[NumWorkers + 1] = RunningSums(f)[NumWorkers + 1] + x
    BY <2>2, <2>3 DEF SumsGrow
  <2>6. RunningSums(f)[n] \in Nat /\ RunningSums(f)[NumWorkers + 1] \in Nat
    BY <2>3, <2>4
  <2>7. c.sum[p] \in Nat /\ c.atStart[p] \in Nat
    BY <1>2 DEF Counts
  <2>8. Bounds(c, RunningSums(g), n, p)
    BY <1>4, <2>5, <2>6, <2>7 DEF Bounds
  <2>. QED
    BY <2>8 DEF g, n
<1>. QED
  BY <1>6, <1>7

LEMMA FirstCellType == FirstCell \in CellsOfGet
<1>1. 0 \in 0..NumWorkers + 1 /\ 0 \in Threads
  BY ThreadsAssumption DEF ThreadsAssumption, Threads
<1>. QED
  BY <1>1 DEF FirstCell, CellsOfGet

(* A step that leaves alone what was added, and starts or advances no get. *)
LEMMA GetsFrame ==
  ASSUME GetsAreBounded, UNCHANGED <<added, allocated>>, NEW t \in Threads,
         \A u \in Threads \ {t} : call'[u] = call[u],
         call'[t] = call[t] \/ call'[t].op # "get"
  PROVE  GetsAreBounded'
<1> SUFFICES ASSUME NEW u \in Threads, call'[u].op = "get"
             PROVE  /\ call'[u] \in Getting /\ call'[u].index \in allocated
                    /\ Bounded(call'[u], added)
  BY DEF GetsAreBounded
<1>1. call'[u] = call[u]
  OBVIOUS
<1>. QED
  BY <1>1 DEF GetsAreBounded

LEMMA GetsAfterStore ==
  ASSUME CounterInv, GetsAreBounded, NEW t \in Threads, Store(t)
  PROVE  GetsAreBounded'
<1>1. /\ Running(t) /\ call[t].op = "increment" /\ UNCHANGED <<barrier, inNode, allocated>>
      /\ added' = [added EXCEPT ![t][call[t].index][Head(call[t].left)]
                                  = @ + call[t].by[Head(call[t].left)]]
  BY DEF Store
<1>2. call[t] \in Adding
  BY <1>1 DEF CounterInv, AdditionsAreCurrent
<1>3. PICK i, q, x : i = call[t].index /\ q = Head(call[t].left) /\ x = call[t].by[q]
  OBVIOUS
<1>4. i \in Indices /\ q \in {"packets", "bytes"} /\ x \in Nat
  BY <1>2, <1>3 DEF Adding, CounterInv, CounterTypeOK, Counts
<1>5. added' = [added EXCEPT ![t][i][q] = @ + x] /\ added \in [Threads -> [Indices -> Counts]]
  BY <1>1, <1>3 DEF CounterInv, CounterTypeOK
<1>6. \A u \in Threads \ {t} : call'[u] = call[u]
  BY DEF Store, Set, CounterInv
<1>7. call'[t].op # "get"
  <2>1. PICK new : Set(t, IF Len(call[t].left) = 1 THEN NoCall
                          ELSE [call[t] EXCEPT !.left = Tail(@), !.new = new])
    BY DEF Store
  <2>2. call'[t] = IF Len(call[t].left) = 1 THEN NoCall
                   ELSE [call[t] EXCEPT !.left = Tail(@), !.new = new]
    BY <2>1 DEF Set, CounterInv
  <2>. QED
    BY <1>1, <2>2 DEF NoCall
<1>8. SUFFICES ASSUME NEW u \in Threads, call'[u].op = "get"
               PROVE  /\ call'[u] \in Getting /\ call'[u].index \in allocated
                      /\ Bounded(call'[u], added')
  BY <1>1 DEF GetsAreBounded
<1>9. PICK c, a, b : c = call[u] /\ a = added /\ b = added'
  OBVIOUS
<1>10. u # t /\ call'[u] = c
  BY <1>6, <1>7, <1>8, <1>9
<1>11. c \in Getting /\ c.index \in allocated /\ Bounded(c, a)
  BY <1>8, <1>9, <1>10 DEF GetsAreBounded
<1>12. a \in [Threads -> [Indices -> Counts]] /\ b = [a EXCEPT ![t][i][q] = @ + x]
  BY <1>5, <1>9
<1>13. Bounded(c, b)
  BY <1>4, <1>11, <1>12, BoundedAfterStore
<1>. QED
  BY <1>9, <1>10, <1>11, <1>13

LEMMA GetsAfterGet ==
  ASSUME CounterInv, GetsAreBounded, NEW t \in Threads, NEW i \in Indices, Get(t, i)
  PROVE  GetsAreBounded'
<1>1. PICK c : c = [op |-> "get", index |-> i, cell |-> FirstCell, sum |-> NoCount,
                    atStart |-> Total(i)]
  OBVIOUS
<1>2. Running(t) /\ Set(t, c) /\ i \in allocated /\ UNCHANGED <<barrier, inNode, counterVars>>
  BY <1>1 DEF Get, Free
<1>3. call'[t] = c /\ (\A u \in Threads \ {t} : call'[u] = call[u])
  BY <1>2, CallsStay
<1>4. PICK a, atStart : a = added /\ atStart = Total(i)
  OBVIOUS
<1>5. a \in [Threads -> [Indices -> Counts]]
  BY <1>4 DEF CounterInv, CounterTypeOK
<1>6. atStart = [p \in {"packets", "bytes"} |-> RunningSums(AddedIn(a, i, p))[NumWorkers + 1]]
  BY <1>4 DEF Total, AddedIn
<1>7. atStart \in Counts
  <2>1. \A p \in {"packets", "bytes"} : RunningSums(AddedIn(a, i, p))[NumWorkers + 1] \in Nat
    <3> TAKE p \in {"packets", "bytes"}
    <3>1. RunningSums(AddedIn(a, i, p)) \in [0..NumWorkers + 1 -> Nat]
      BY <1>5, AddedInType, SumsAre
    <3>. QED
      BY <3>1, ThreadsAssumption DEF ThreadsAssumption
  <2>. QED
    BY <1>6, <2>1 DEF Counts
<1>8. c = [op |-> "get", index |-> i, cell |-> FirstCell, sum |-> NoCount, atStart |-> atStart]
  BY <1>1, <1>4
<1>9. c.index = i /\ c.cell = FirstCell /\ c.sum = NoCount /\ c.atStart = atStart
  BY <1>8
<1>10. c \in Getting
  BY <1>7, <1>8, FirstCellType, NoCountType, GettingIs
<1>11. Bounded(c, a)
  <2>1. \A p \in {"packets", "bytes"} :
          c.atStart[p] = RunningSums(AddedIn(a, i, p))[NumWorkers + 1]
    BY <1>6, <1>9
  <2>. QED
    BY <1>5, <1>9, <2>1, BoundedAtStart
<1>. QED
  BY <1>2, <1>3, <1>4, <1>9, <1>10, <1>11 DEF GetsAreBounded, counterVars

LEMMA GetsAfterLoad ==
  ASSUME CounterInv, GetsAreBounded, NEW t \in Threads, LoadCell(t)
  PROVE  GetsAreBounded'
<1>1. PICK c, a, d, sum : /\ c = call[t] /\ a = added /\ sum = SumWith(c)
                          /\ d = [c EXCEPT !.cell = CellAfter(@), !.sum = sum]
  OBVIOUS
<1>2. /\ Running(t) /\ c.op = "get" /\ c.cell.thread \in Threads /\ Set(t, d)
      /\ UNCHANGED <<barrier, inNode, counterVars>>
  BY <1>1 DEF LoadCell
<1>3. call'[t] = d /\ (\A u \in Threads \ {t} : call'[u] = call[u])
  BY <1>2, CallsStay
<1>4. c \in Getting /\ c.index \in allocated /\ Bounded(c, a)
  BY <1>1, <1>2 DEF GetsAreBounded
<1>5. a \in [Threads -> [Indices -> Counts]]
  BY <1>1 DEF CounterInv, CounterTypeOK
<1>6. cells[c.cell.thread][c.index] = a[c.cell.thread][c.index]
  BY <1>1, <1>2, <1>4 DEF CounterInv, NoIncrementLost
<1>7. sum = [c.sum EXCEPT ![c.cell.part] = @ + a[c.cell.thread][c.index][c.cell.part]]
  BY <1>1, <1>6 DEF SumWith
<1>8. d = [op |-> "get", index |-> c.index, cell |-> CellAfter(c.cell), sum |-> sum,
           atStart |-> c.atStart]
  BY <1>1, <1>4 DEF Getting
<1>9. d \in Getting /\ d.index = c.index /\ Bounded(d, a)
  BY <1>2, <1>4, <1>5, <1>7, <1>8, BoundedAfterLoad
<1>. QED
  BY <1>1, <1>2, <1>3, <1>4, <1>9 DEF GetsAreBounded, counterVars

LEMMA GetsStep == CounterInv /\ GetsAreBounded /\ [Next]_vars => GetsAreBounded'
<1> SUFFICES ASSUME CounterInv, GetsAreBounded, [Next]_vars PROVE GetsAreBounded'
  OBVIOUS
<1>1. CASE UNCHANGED <<call, added, allocated>>
  BY <1>1 DEF GetsAreBounded
<1>2. CASE BarrierStep /\ UNCHANGED counterVars
  BY <1>1, <1>2 DEF BarrierStep, EnterNode, LeaveNode, WantBarrier, HoldBarrier, ReleaseBarrier,
                    counterVars
<1>3. CASE LockStep /\ UNCHANGED counterVars
  BY <1>1, <1>3 DEF LockStep, Read, DropRead, Write, WriteData, DropWrite, Panic, barrierVars,
                    counterVars
<1>4. ASSUME NEW i \in Indices, AllocateIndex(i) \/ Zero(i) PROVE GetsAreBounded'
  <2>1. BarrierHeld /\ call' = call
    BY <1>4 DEF AllocateIndex, Zero, barrierVars
  <2>2. \A t \in Threads : call'[t] = NoCall
    BY <2>1, HeldMeansQuiet
  <2>. QED
    BY <2>2 DEF GetsAreBounded, NoCall
<1>5. ASSUME NEW t \in Threads, NEW i \in Indices, NEW by \in Amounts, Increment(t, i, by)
      PROVE  GetsAreBounded'
  <2>1. PICK c : c.op = "increment" /\ Set(t, c)
    BY <1>5 DEF Increment
  <2>2. Running(t) /\ UNCHANGED <<barrier, inNode, added, allocated>>
    BY <1>5 DEF Increment, Free, counterVars
  <2>3. call'[t] = c /\ (\A u \in Threads \ {t} : call'[u] = call[u])
    BY <2>1, <2>2, CallsStay
  <2>. QED
    BY <2>1, <2>2, <2>3, GetsFrame
<1>6. ASSUME NEW t \in Threads, EndGet(t) PROVE GetsAreBounded'
  <2>1. Running(t) /\ Set(t, NoCall) /\ UNCHANGED <<barrier, inNode, added, allocated>>
    BY <1>6 DEF EndGet, counterVars
  <2>2. call'[t] = NoCall /\ (\A u \in Threads \ {t} : call'[u] = call[u])
    BY <2>1, CallsStay
  <2>. QED
    BY <2>1, <2>2, GetsFrame DEF NoCall
<1>7. CASE CounterStep
  BY <1>4, <1>5, <1>6, <1>7, GetsAfterStore, GetsAfterGet, GetsAfterLoad DEF CounterStep
<1>8. CASE UNCHANGED vars
  BY <1>1, <1>8 DEF vars, barrierVars, counterVars
<1>. QED
  BY <1>2, <1>3, <1>7, <1>8 DEF Next

LEMMA GetsInit == Init => GetsAreBounded
BY DEF Init, BarrierInit, NoCall, GetsAreBounded

(* A sum lies between what was counted when get was called and what is     *)
(* counted when it returns, for any number of workers and of counters,     *)
(* although the others add between any two of its loads.                   *)
THEOREM SumsAreBounded == Spec => []GetWithinBounds
<1>1. CounterInv /\ GetsAreBounded => GetWithinBounds
  <2> SUFFICES ASSUME CounterInv, GetsAreBounded, NEW t \in Threads,
                      call[t].op = "get", call[t].cell.thread \notin Threads,
                      NEW p \in {"packets", "bytes"}
               PROVE  /\ call[t].atStart[p] <= call[t].sum[p]
                      /\ call[t].sum[p] <= Total(call[t].index)[p]
    BY DEF GetWithinBounds
  <2>1. PICK c, a : c = call[t] /\ a = added
    OBVIOUS
  <2>2. c \in Getting /\ Bounded(c, a) /\ c.cell.thread \notin Threads
    BY <2>1 DEF GetsAreBounded
  <2>3. a \in [Threads -> [Indices -> Counts]]
    BY <2>1 DEF CounterInv, CounterTypeOK
  <2> DEFINE sums == RunningSums(AddedIn(a, c.index, p))
             n == NumWorkers + 1
  <2>4. sums \in [0..n -> Nat]
    BY <2>2, <2>3, AddedInType, SumsAre DEF Getting
  <2>5. Loaded(c.cell, p) = n
    <3>1. NumWorkers \in Nat
      BY ThreadsAssumption DEF ThreadsAssumption
    <3>2. c.cell \in CellsOfGet
      BY <2>2 DEF Getting
    <3>. QED
      BY <2>2, <3>1, <3>2 DEF CellsOfGet, Loaded, Threads
  <2>6. Bounds(c, sums, n, p)
    BY <2>2, <2>5 DEF Bounded
  <2>7. Total(call[t].index)[p] = sums[n]
    BY <2>1 DEF Total, AddedIn
  <2>8. sums[n] \in Nat /\ c.sum[p] \in Nat /\ c.atStart[p] \in Nat
    BY <2>2, <2>4, ThreadsAssumption DEF ThreadsAssumption, Getting, Counts
  <2> HIDE DEF sums, n
  <2>9. c.atStart[p] <= c.sum[p] /\ c.sum[p] <= sums[n]
    BY <2>6, <2>8 DEF Bounds, n
  <2>. QED
    BY <2>1, <2>7, <2>9
<1>. QED
  BY <1>1, CounterInvInit, CounterInvStep, GetsInit, GetsStep, PTL DEF Spec

-----------------------------------------------------------------------------
(* Type correctness of lock and counter. *)
THEOREM ThreadsTypeCorrect == Spec => []TypeOK
<1>1. LockInv /\ CounterInv => TypeOK
  BY DEF LockInv, CounterInv, TypeOK
<1>. QED
  BY <1>1, LockInvInit, LockInvStep, CounterInvInit, CounterInvStep, PTL DEF Spec
=============================================================================
