---- MODULE MpscChannelProofs ----
(***************************************************************************)
(* Safety of the channel, for any senders and any number of messages.      *)
(***************************************************************************)
EXTENDS MpscChannel, SequenceTheorems, TLAPS

AnyPushed == \E s \in Senders : sender[s] = "pushed"

\* A sleeping process node can be woken, message or not.
Wakeable == receiver = "suspended" => waker \/ rpcs > 0 \/ event

\* Between the two steps of a poll, a message in the queue was pushed after the
\* queue was seen empty, and its wake is still to come, is under way, or was lost.
LateMessageAccounted ==
    receiver = "sawEmpty" /\ queue # <<>> => AnyPushed \/ rpcs > 0 \/ windowHit

\* SleepsOnlyInWindow alone is not inductive: Register needs to know of
\* messages that came after Empty was seen, Push of the waker left behind.
IInv ==
    /\ TypeOK
    /\ Wakeable
    /\ LateMessageAccounted
    /\ SleepsOnlyInWindow

LEMMA TypeInit == Init => TypeOK
<1> SUFFICES ASSUME Init PROVE TypeOK
  OBVIOUS
<1>1. sender \in [Senders -> {"unborn", "idle", "pushed", "gone"}]
  <2>1. PICK first \in Senders :
            sender = [s \in Senders |-> IF s = first THEN "idle" ELSE "unborn"]
    BY DEF Init
  <2>. QED
    BY <2>1
<1>2. queue \in Seq(Messages) /\ received \in Seq(Messages)
  BY EmptySeq DEF Init
<1>3. sends \in 0 .. MaxSends
  BY ChannelAssumption DEF ChannelAssumption, Init
<1>. QED
  BY <1>1, <1>2, <1>3 DEF Init, TypeOK

LEMMA TypeStep == TypeOK /\ [Next]_vars => TypeOK'
<1> SUFFICES ASSUME TypeOK, [Next]_vars PROVE TypeOK'
  OBVIOUS
<1> USE DEF TypeOK
<1>1. ASSUME NEW s \in Senders, NEW t \in Senders, Clone(s, t) PROVE TypeOK'
  BY <1>1 DEF Clone, receiverVars, wakeVars
<1>2. ASSUME NEW s \in Senders, Push(s) PROVE TypeOK'
  <2>1. CASE receiver = "dropped"
    BY <1>2, <2>1, ChannelAssumption DEF Push, ChannelAssumption, receiverVars, wakeVars
  <2>2. CASE receiver # "dropped"
    <3>1. sends + 1 \in Messages /\ sends' \in 0 .. MaxSends
      BY <1>2, ChannelAssumption DEF Push, ChannelAssumption, Messages
    <3>2. queue' \in Seq(Messages)
      <4>1. queue' = Append(queue, sends + 1) /\ queue \in Seq(Messages)
        BY <1>2, <2>2 DEF Push
      <4>. QED
        BY <3>1, <4>1, AppendProperties
    <3>. QED
      BY <1>2, <2>2, <3>1, <3>2 DEF Push, receiverVars, wakeVars
  <2>. QED
    BY <2>1, <2>2
<1>3. ASSUME NEW s \in Senders, Wake(s) PROVE TypeOK'
  <2>1. windowHit' \in BOOLEAN /\ waker' \in BOOLEAN
    BY <1>3 DEF Wake
  <2>2. rpcs' \in Nat
    BY <1>3 DEF Wake
  <2>3. sender' \in [Senders -> {"unborn", "idle", "pushed", "gone"}]
    BY <1>3 DEF Wake
  <2>4. UNCHANGED <<queue, received, sends, receiver, event>>
    BY <1>3 DEF Wake, receiverVars
  <2>. QED
    BY <2>1, <2>2, <2>3, <2>4
<1>4. ASSUME NEW s \in Senders, DropSender(s) PROVE TypeOK'
  BY <1>4 DEF DropSender, receiverVars, wakeVars
<1>5. CASE RecvValue
  BY <1>5 DEF RecvValue, senderVars, wakeVars
<1>6. CASE RecvClosed
  BY <1>6 DEF RecvClosed, senderVars, wakeVars
<1>7. CASE RecvEmpty
  BY <1>7 DEF RecvEmpty, senderVars
<1>8. CASE Register
  BY <1>8 DEF Register, senderVars
<1>9. CASE DropReceiver
  BY <1>9 DEF DropReceiver, senderVars, wakeVars
<1>10. CASE DeliverRpc
  BY <1>10 DEF DeliverRpc, receiverVars, senderVars
<1>11. CASE Resume
  BY <1>11 DEF Resume, senderVars
<1>12. CASE ResumeOnTimer
  BY <1>12 DEF ResumeOnTimer, senderVars
<1>13. CASE TimedOut
  BY <1>13 DEF TimedOut, senderVars
<1>14. CASE UNCHANGED vars
  BY <1>14 DEF vars
<1>. QED
  BY <1>1, <1>2, <1>3, <1>4, <1>5, <1>6, <1>7, <1>8, <1>9, <1>10, <1>11, <1>12, <1>13,
     <1>14
  DEF Next, ReceiverStep

LEMMA InvInit == Init => IInv
  BY TypeInit DEF Init, IInv, Wakeable, LateMessageAccounted, SleepsOnlyInWindow

LEMMA InvStep == IInv /\ [Next]_vars => IInv'
<1> DEFINE Rest == Wakeable /\ LateMessageAccounted /\ SleepsOnlyInWindow
<1> SUFFICES ASSUME IInv, [Next]_vars, TypeOK, TypeOK' PROVE Rest'
  BY TypeStep DEF IInv
<1> USE DEF Wakeable, LateMessageAccounted, SleepsOnlyInWindow, WakeComing, AnyPushed
<1>1. ASSUME NEW s \in Senders, NEW t \in Senders, Clone(s, t) PROVE Rest'
  \* The new handle was unborn, so every sender inside send still is.
  <2>1. \A u \in Senders : sender[u] = "pushed" => sender'[u] = "pushed"
    BY <1>1 DEF Clone, TypeOK
  <2>. QED
    BY <1>1, <2>1 DEF Clone, IInv, receiverVars, wakeVars
<1>2. ASSUME NEW s \in Senders, Push(s) PROVE Rest'
  <2>1. CASE receiver = "dropped"
    BY <1>2, <2>1 DEF Push, IInv, receiverVars, wakeVars
  <2>2. CASE receiver # "dropped"
    \* The sender is inside send now, and Wakeable says whom its wake meets.
    <3>1. sender'[s] = "pushed"
      BY <1>2, <2>2 DEF Push, TypeOK
    <3>. QED
      BY <1>2, <2>2, <3>1 DEF Push, IInv, receiverVars, wakeVars
  <2>. QED
    BY <2>1, <2>2
<1>3. ASSUME NEW s \in Senders, Wake(s) PROVE Rest'
  <2>1. CASE waker
    <3>1. rpcs' > 0
      BY <1>3, <2>1 DEF Wake, TypeOK
    <3>. QED
      BY <1>3, <3>1 DEF Wake, receiverVars
  <2>2. CASE ~waker
    \* Nobody is woken: in the window the loss is recorded, outside it the
    \* sleeper has another wake-up coming.
    BY <1>3, <2>2 DEF Wake, IInv, TypeOK, receiverVars
  <2>. QED
    BY <2>1, <2>2
<1>4. ASSUME NEW s \in Senders, DropSender(s) PROVE Rest'
  <2>1. \A u \in Senders : sender[u] = "pushed" => sender'[u] = "pushed"
    BY <1>4 DEF DropSender, TypeOK
  <2>. QED
    BY <1>4, <2>1 DEF DropSender, IInv, receiverVars, wakeVars
<1>5. CASE RecvValue
  BY <1>5 DEF RecvValue
<1>6. CASE RecvClosed
  BY <1>6 DEF RecvClosed
<1>7. CASE RecvEmpty
  BY <1>7 DEF RecvEmpty
<1>8. CASE Register
  BY <1>8 DEF Register, IInv, senderVars
<1>9. CASE DropReceiver
  BY <1>9 DEF DropReceiver
<1>10. CASE DeliverRpc
  BY <1>10 DEF DeliverRpc, InProcess, receiverVars
<1>11. CASE Resume
  BY <1>11 DEF Resume
<1>12. CASE ResumeOnTimer
  BY <1>12 DEF ResumeOnTimer
<1>13. CASE TimedOut
  BY <1>13 DEF TimedOut
<1>14. CASE UNCHANGED vars
  BY <1>14 DEF vars, IInv
<1> HIDE DEF Rest
<1>. QED
  BY <1>1, <1>2, <1>3, <1>4, <1>5, <1>6, <1>7, <1>8, <1>9, <1>10, <1>11, <1>12, <1>13,
     <1>14
  DEF Next, ReceiverStep

\* What is received and what is queued are the messages in the order of their
\* pushes, and a closed channel has neither a message nor a sender left.
InOrder ==
    /\ \A i \in 1 .. Len(received) : received[i] = i
    /\ \A i \in 1 .. Len(queue) : queue[i] = Len(received) + i
    /\ receiver # "dropped" => Len(received) + Len(queue) = sends
    /\ receiver = "closed" => queue = <<>> /\ Alive = {}

LEMMA InOrderInit == Init => InOrder
  BY EmptySeq DEF Init, InOrder

LEMMA InOrderStep == TypeOK /\ InOrder /\ [Next]_vars => InOrder'
<1> SUFFICES ASSUME TypeOK, InOrder, [Next]_vars PROVE InOrder'
  OBVIOUS
<1> USE DEF InOrder
\* Steps of senders other than Push, of the receiver that leave queue and
\* history alone, and of the main loop.
<1>0. ASSUME UNCHANGED <<queue, received, sends>>,
             receiver' \in {receiver, "running", "sawEmpty", "suspended"},
             receiver = "dropped" => receiver' = "dropped",
             receiver' = "closed" => Alive' \subseteq Alive
      PROVE  InOrder'
  BY <1>0
<1>1. ASSUME NEW s \in Senders, NEW t \in Senders, Clone(s, t) PROVE InOrder'
  <2>1. receiver # "closed"
    BY <1>1 DEF Clone
  <2>. QED
    BY <1>0, <1>1, <2>1 DEF Clone, receiverVars
<1>2. ASSUME NEW s \in Senders, Push(s) PROVE InOrder'
  <2>1. receiver # "closed" /\ UNCHANGED <<received, receiver>>
    BY <1>2 DEF Push, Alive, receiverVars
  <2>2. CASE receiver = "dropped"
    BY <1>2, <2>1, <2>2 DEF Push
  <2>3. CASE receiver # "dropped"
    <3>1. queue \in Seq(Messages) /\ received \in Seq(Messages) /\ sends \in Nat
      BY DEF TypeOK
    <3>2. queue' = Append(queue, sends + 1) /\ sends' = sends + 1
      BY <1>2, <2>3 DEF Push
    <3>3. Len(queue') = Len(queue) + 1 /\ Len(queue) \in Nat /\ Len(received) \in Nat
      BY <3>1, <3>2
    <3>4. \A i \in 1 .. Len(queue') : queue'[i] = Len(received) + i
      <4>1. /\ \A i \in 1 .. Len(queue) : queue'[i] = queue[i]
            /\ queue'[Len(queue) + 1] = sends + 1
        BY <3>1, <3>2, AppendProperties
      <4>2. Len(received) + Len(queue) = sends
        BY <2>3
      <4>3. \A i \in 1 .. Len(queue) : queue[i] = Len(received) + i
        OBVIOUS
      <4> TAKE i \in 1 .. Len(queue')
      <4>4. i \in 1 .. Len(queue) \/ i = Len(queue) + 1
        BY <3>3
      <4>5. CASE i \in 1 .. Len(queue)
        BY <4>1, <4>3, <4>5
      <4>6. CASE i = Len(queue) + 1
        BY <3>1, <3>3, <4>1, <4>2, <4>6
      <4>. QED
        BY <4>4, <4>5, <4>6
    <3>. QED
      BY <2>1, <2>3, <3>2, <3>3, <3>4
  <2>. QED
    BY <2>2, <2>3
<1>3. ASSUME NEW s \in Senders, Wake(s) PROVE InOrder'
  BY <1>0, <1>3 DEF Wake, Alive, receiverVars
<1>4. ASSUME NEW s \in Senders, DropSender(s) PROVE InOrder'
  BY <1>0, <1>4 DEF DropSender, Alive, receiverVars, TypeOK
<1>5. CASE RecvValue
  <2>1. queue \in Seq(Messages) /\ received \in Seq(Messages) /\ queue # <<>>
    BY <1>5 DEF RecvValue, TypeOK
  <2>2. /\ received' = Append(received, Head(queue)) /\ queue' = Tail(queue)
        /\ receiver = "running" /\ UNCHANGED <<receiver, sends>>
    BY <1>5 DEF RecvValue, senderVars
  <2>3. /\ Len(received) \in Nat /\ Len(queue) \in Nat \ {0}
        /\ Head(queue) = queue[1]
        /\ Len(received') = Len(received) + 1 /\ Len(queue') = Len(queue) - 1
    BY <2>1, <2>2, EmptySeq
  <2>4. \A i \in 1 .. Len(received') : received'[i] = i
    <3>1. Head(queue) = Len(received) + 1
      BY <2>3
    <3>. QED
      BY <2>1, <2>2, <2>3, <3>1
  <2>5. \A i \in 1 .. Len(queue') : queue'[i] = Len(received') + i
    <3> TAKE i \in 1 .. Len(queue')
    <3>1. queue'[i] = queue[i + 1] /\ i + 1 \in 1 .. Len(queue)
      BY <2>1, <2>2, <2>3
    <3>. QED
      BY <2>3, <3>1
  <2>. QED
    BY <2>2, <2>3, <2>4, <2>5
<1>6. CASE RecvClosed
  BY <1>6 DEF RecvClosed, senderVars, Alive
<1>7. CASE RecvEmpty
  BY <1>0, <1>7 DEF RecvEmpty, senderVars, Alive
<1>8. CASE Register
  BY <1>0, <1>8 DEF Register, senderVars, Alive
<1>9. CASE DropReceiver
  BY <1>9, EmptySeq DEF DropReceiver, senderVars
<1>10. CASE DeliverRpc
  BY <1>0, <1>10 DEF DeliverRpc, receiverVars, senderVars, Alive
<1>11. CASE Resume
  BY <1>0, <1>11 DEF Resume, senderVars, Alive
<1>12. CASE ResumeOnTimer
  BY <1>0, <1>12 DEF ResumeOnTimer, senderVars, Alive
<1>13. CASE TimedOut
  BY <1>0, <1>13 DEF TimedOut, senderVars, Alive
<1>14. CASE UNCHANGED vars
  BY <1>0, <1>14 DEF vars, Alive
<1>. QED
  BY <1>1, <1>2, <1>3, <1>4, <1>5, <1>6, <1>7, <1>8, <1>9, <1>10, <1>11, <1>12, <1>13,
     <1>14
  DEF Next, ReceiverStep

\* recv() returns the messages in the order of their pushes, none twice and none
\* left out, and None only after the last one, for any senders and messages.
THEOREM CloseComesLast == Spec => []ClosedAfterLast
<1>1. InOrder /\ TypeOK => ClosedAfterLast
  <2> SUFFICES ASSUME InOrder, TypeOK, receiver = "closed" PROVE Len(received) = sends
    BY DEF InOrder, ClosedAfterLast
  <2>1. Len(queue) = 0 /\ Len(received) \in Nat /\ sends \in Nat
    BY EmptySeq DEF InOrder, TypeOK
  <2>. QED
    BY <2>1 DEF InOrder
<1>. QED
  BY <1>1, TypeInit, TypeStep, InOrderInit, InOrderStep, PTL DEF Spec

\* Type correctness of the channel.
THEOREM ChannelTypeCorrect == Spec => []TypeOK
<1>1. Init => TypeOK
  BY TypeInit
<1>2. TypeOK /\ [Next]_vars => TypeOK'
  BY TypeStep
<1>. QED
  BY <1>1, <1>2, PTL DEF Spec

\* The process node never sleeps over a message unless a wake fell between the
\* two steps of poll_recv: sending and receiving lose no wake-up elsewhere.
THEOREM WindowIsTheOnlyGap == Spec => []SleepsOnlyInWindow
<1>1. IInv => SleepsOnlyInWindow
  BY DEF IInv
<1>. QED
  BY <1>1, InvInit, InvStep, PTL DEF Spec

\* With every sender on VPP's main thread nothing runs inside the window, so
\* the process node never sleeps over a message at all.
THEOREM MainThreadSendersAreSafe ==
    ASSUME MainSenders = Senders
    PROVE  Spec => []NeverSleepsOverMessage
<1>1. Init => ~windowHit
  BY DEF Init
<1>2. ~windowHit /\ [Next]_vars => ~windowHit'
  BY DEF Next, vars, ReceiverStep, Clone, Push, Wake, MayRun, DropSender, RecvValue,
         RecvClosed, RecvEmpty, Register, TimedOut, DropReceiver, DeliverRpc,
         Resume, ResumeOnTimer, wakeVars
<1>3. SleepsOnlyInWindow /\ ~windowHit => NeverSleepsOverMessage
  BY DEF SleepsOnlyInWindow, NeverSleepsOverMessage
<1>. QED
  BY <1>1, <1>2, <1>3, WindowIsTheOnlyGap, PTL DEF Spec
====
