---- MODULE MpscChannel ----
(***************************************************************************)
(* The channel of vpp-plugin/src/vlib/process_node/mpsc.rs, from any       *)
(* thread into a process node: a std mpsc queue plus an AtomicWaker.       *)
(*                                                                         *)
(* A send is two steps, push and wake; a poll of recv() on an empty queue  *)
(* is two steps, see Empty and register the waker.  Senders on worker      *)
(* threads interleave with them freely.  The process node and the senders  *)
(* in MainSenders share VPP's main thread: a send of theirs is never under *)
(* way while the process node runs, nor is one started between the two     *)
(* steps of a poll.                                                        *)
(*                                                                         *)
(* Not under src/, modelled from its use there: the std queue, AtomicWaker *)
(* (register and wake are atomic), and the way from Waker::wake to the     *)
(* process node: an RPC to the main thread that signals an event.          *)
(***************************************************************************)
EXTENDS Integers, Sequences

CONSTANTS
    Senders,      \* the Sender handles there can ever be
    MainSenders,  \* those that are used on VPP's main thread
    MaxSends      \* bound on the calls of send, for model checking only

ASSUME ChannelAssumption ==
    /\ MainSenders \subseteq Senders
    /\ MaxSends \in Nat

VARIABLES
    queue,      \* the std queue; a message is known by the number of its send
    received,   \* history: the messages recv() has returned
    sender,     \* sender[s]: "unborn", "idle", "pushed" (wake is next) or "gone"
    sends,      \* calls of send so far
    receiver,   \* "running", "sawEmpty" (register is next), "suspended", "closed" or "dropped"
    waker,      \* TRUE if rx_waker holds a waker
    rpcs,       \* wake-up RPCs on their way to the main thread
    event,      \* TRUE if the process node has an event pending
    windowHit   \* history: a wake found no waker since recv() last saw the queue empty

vars == <<queue, received, sender, sends, receiver, waker, rpcs, event, windowHit>>

senderVars   == <<sender, sends>>
receiverVars == <<received, receiver>>
wakeVars     == <<waker, rpcs, event, windowHit>>

Alive == {s \in Senders : sender[s] \in {"idle", "pushed"}}

Init ==
    /\ queue = <<>>
    /\ received = <<>>
    /\ \E first \in Senders :
          sender = [s \in Senders |-> IF s = first THEN "idle" ELSE "unborn"]
    /\ sends = 0
    /\ receiver = "running"
    /\ waker = FALSE
    /\ rpcs = 0
    /\ event = FALSE
    /\ windowHit = FALSE

(***************************************************************************)
(* Who may run.                                                            *)
(***************************************************************************)

InProcess == receiver \in {"running", "sawEmpty"}

\* No sender of the main thread is inside send.
MainOutsideSend == \A s \in MainSenders : sender[s] # "pushed"

\* A main-thread sender runs outside the process node, or is called by the
\* coroutine itself between two polls of recv().
MayRun(s) == s \in MainSenders => receiver # "sawEmpty"

(***************************************************************************)
(* Sender.                                                                 *)
(***************************************************************************)

Clone(s, t) ==
    /\ s \in Alive /\ MayRun(s)
    /\ sender[t] = "unborn"
    /\ sender' = [sender EXCEPT ![t] = "idle"]
    /\ UNCHANGED <<queue, sends, receiverVars, wakeVars>>

\* send, first half; with the receiver dropped it returns Err(value) instead.
Push(s) ==
    /\ sender[s] = "idle" /\ MayRun(s)
    /\ sends < MaxSends
    /\ sends' = sends + 1
    /\ IF receiver = "dropped"
       THEN UNCHANGED <<queue, sender>>
       ELSE /\ queue' = Append(queue, sends + 1)
            /\ sender' = [sender EXCEPT ![s] = "pushed"]
    /\ UNCHANGED <<receiverVars, wakeVars>>

\* Deviation: the waker is only replaced by register, never taken by wake, and
\* is used only while the node is suspended.
WakeIfSuspended(s) ==
    /\ sender[s] = "pushed" /\ MayRun(s)
    /\ sender' = [sender EXCEPT ![s] = "idle"]
    /\ rpcs' = IF receiver = "suspended" THEN rpcs + 1 ELSE rpcs
    /\ UNCHANGED <<queue, sends, receiverVars, waker, event, windowHit>>

\* send, second half: rx_waker.wake() takes the waker and calls wake_by_ref.
Wake(s) ==
    /\ sender[s] = "pushed" /\ MayRun(s)
    /\ sender' = [sender EXCEPT ![s] = "idle"]
    /\ waker' = FALSE
    /\ rpcs' = IF waker THEN rpcs + 1 ELSE rpcs
    /\ windowHit' = (windowHit \/ (~waker /\ receiver = "sawEmpty"))
    /\ UNCHANGED <<queue, sends, receiverVars, event>>

\* Dropping a handle wakes nobody, not even when it is the last one.
DropSender(s) ==
    /\ sender[s] = "idle" /\ MayRun(s)
    /\ sender' = [sender EXCEPT ![s] = "gone"]
    /\ UNCHANGED <<queue, sends, receiverVars, wakeVars>>

(***************************************************************************)
(* Receiver: a coroutine that awaits recv() in a loop.                     *)
(***************************************************************************)

\* poll_recv or try_recv finds a value.  A try_recv that finds none changes
\* nothing, and above all registers no waker.
RecvValue ==
    /\ receiver = "running" /\ MainOutsideSend
    /\ queue # <<>>
    /\ received' = Append(received, Head(queue))
    /\ queue' = Tail(queue)
    /\ UNCHANGED <<receiver, senderVars, wakeVars>>

\* Deviation: the senders are looked at before the queue.
RecvClosedEarly ==
    /\ receiver = "running"
    /\ Alive = {}
    /\ receiver' = "closed"
    /\ UNCHANGED <<queue, received, senderVars, wakeVars>>

\* poll_recv finds Disconnected: Ready(None).
RecvClosed ==
    /\ receiver = "running"
    /\ queue = <<>> /\ Alive = {}
    /\ receiver' = "closed"
    /\ UNCHANGED <<queue, received, senderVars, wakeVars>>

\* poll_recv finds Empty.
RecvEmpty ==
    /\ receiver = "running" /\ MainOutsideSend
    /\ queue = <<>> /\ Alive # {}
    /\ receiver' = "sawEmpty"
    /\ windowHit' = FALSE
    /\ UNCHANGED <<queue, received, senderVars, waker, rpcs, event>>

\* Deviation: Pending without leaving a waker behind.
RegisterNothing ==
    /\ receiver = "sawEmpty"
    /\ receiver' = "suspended"
    /\ UNCHANGED <<queue, received, senderVars, wakeVars>>

\* It registers the waker, returns Pending, and the process node suspends.
Register ==
    /\ receiver = "sawEmpty"
    /\ waker' = TRUE
    /\ receiver' = "suspended"
    /\ UNCHANGED <<queue, received, senderVars, rpcs, event, windowHit>>

\* The recv() is inside a timeout whose delay has elapsed: the waker stays
\* registered, the coroutine goes on with Err(Elapsed) and polls anew.
TimedOut ==
    /\ receiver = "sawEmpty"
    /\ waker' = TRUE
    /\ receiver' = "running"
    /\ UNCHANGED <<queue, received, senderVars, rpcs, event, windowHit>>

DropReceiver ==
    /\ receiver = "running" /\ MainOutsideSend
    /\ receiver' = "dropped"
    /\ queue' = <<>>
    /\ UNCHANGED <<received, senderVars, wakeVars>>

(***************************************************************************)
(* Main loop of VPP.                                                       *)
(***************************************************************************)

\* The RPC runs on the main thread and signals the process node.
DeliverRpc ==
    /\ ~InProcess /\ MainOutsideSend
    /\ rpcs > 0
    /\ rpcs' = rpcs - 1
    /\ event' = TRUE
    /\ UNCHANGED <<queue, receiverVars, senderVars, waker, windowHit>>

\* The node resumes on its event, drains it and polls again.
Resume ==
    /\ receiver = "suspended" /\ MainOutsideSend
    /\ event
    /\ event' = FALSE
    /\ receiver' = "running"
    /\ UNCHANGED <<queue, received, senderVars, waker, rpcs, windowHit>>

\* It also resumes for reasons of its own, such as a timer of the coroutine.
ResumeOnTimer ==
    /\ receiver = "suspended" /\ MainOutsideSend
    /\ event' = FALSE
    /\ receiver' = "running"
    /\ UNCHANGED <<queue, received, senderVars, waker, rpcs, windowHit>>

ReceiverStep == RecvValue \/ RecvClosed \/ RecvEmpty \/ Register \/ TimedOut

Next ==
    \/ \E s, t \in Senders : Clone(s, t)
    \/ \E s \in Senders : Push(s) \/ Wake(s) \/ DropSender(s)
    \/ ReceiverStep \/ DropReceiver
    \/ DeliverRpc \/ Resume \/ ResumeOnTimer

\* A thread inside send goes on, VPP's main loop keeps running, and a running
\* coroutine reaches its next await.  Nobody has to send, drop or clone, and no
\* timer has to be pending.
Fairness ==
    /\ \A s \in Senders : WF_vars(Wake(s))
    /\ WF_vars(ReceiverStep)
    /\ WF_vars(DeliverRpc)
    /\ WF_vars(Resume)

Spec == Init /\ [][Next]_vars

FairSpec == Spec /\ Fairness

(***************************************************************************)
(* Properties.                                                             *)
(***************************************************************************)

Messages == 1 .. MaxSends

InQueue(m) == \E i \in 1 .. Len(queue) : queue[i] = m
Received(m) == \E i \in 1 .. Len(received) : received[i] = m

TypeOK ==
    /\ queue \in Seq(Messages)
    /\ sender \in [Senders -> {"unborn", "idle", "pushed", "gone"}]
    /\ received \in Seq(Messages)
    /\ sends \in 0 .. MaxSends
    /\ receiver \in {"running", "sawEmpty", "suspended", "closed", "dropped"}
    /\ waker \in BOOLEAN
    /\ rpcs \in Nat
    /\ event \in BOOLEAN
    /\ windowHit \in BOOLEAN

\* "The next value or channel close": however sends, wakes, timeouts and drops of
\* handles mix, recv() returns the messages in the order of their pushes, each
\* once, and reports the close only after the last of them, also when a sender
\* pushes and is dropped before the receiver polls.
ClosedAfterLast ==
    /\ \A i \in 1 .. Len(received) : received[i] = i
    /\ receiver = "closed" => Len(received) = sends

\* A wake-up is under way to the process node, or a sender about to wake it
\* will find a waker to do so.
WakeComing ==
    \/ event
    \/ rpcs > 0
    \/ waker /\ \E s \in Senders : sender[s] = "pushed"

\* The process node never sleeps over a message unless a sender's wake fell
\* between the two steps of its last poll: outside that window, no order of
\* pushes, wakes, stale wakers, RPCs and resumptions loses a wake-up.
SleepsOnlyInWindow ==
    receiver = "suspended" /\ queue # <<>> => WakeComing \/ windowHit

\* The process node never sleeps over a message.
NeverSleepsOverMessage ==
    receiver = "suspended" /\ queue # <<>> => WakeComing

\* A message that was pushed is received, if the receiver stays, and if no wake
\* falls into the window.
ReceivedOutsideWindow ==
    \A m \in Messages :
        InQueue(m) ~> (Received(m) \/ receiver = "dropped" \/ windowHit)

\* "Notify the process/executor to resume": a message that was pushed is
\* received, if the receiver stays.
EveryMessageReceived ==
    \A m \in Messages : InQueue(m) ~> (Received(m) \/ receiver = "dropped")

\* "Returns a future that waits for the next value or channel close": when the
\* last sender is dropped, a receiver that stays gets to see it.
CloseIsSeen == (Alive = {}) ~> (receiver \in {"closed", "dropped"})
====
