------------------------------ MODULE Barrier ------------------------------
(***************************************************************************)
(* VPP's threads and its worker barrier, from how vlib/main uses them.  A  *)
(* worker runs plugin code inside node functions only and stops for the    *)
(* barrier between them.  The main thread runs command, API and process    *)
(* node code with the barrier open or held (a BarrierHeldMainRef).  Each   *)
(* thread is in at most one call at a time, which `call` describes.        *)
(* Threads are known by their index, and thread 0 is the main thread.      *)
(***************************************************************************)
EXTENDS Naturals, FiniteSets

CONSTANT NumWorkers

ASSUME ThreadsAssumption == NumWorkers \in Nat

VARIABLES barrier, \* "open", "wanted" by the main thread, or "held" by it
          inNode,  \* the workers inside a node function
          call,    \* per thread, the call under way and its local variables
          aborted  \* a panic left an extern "C" function: the process is gone

barrierVars == <<barrier, inNode, call, aborted>>

Main == 0
Workers == 1..NumWorkers
Threads == 0..NumWorkers

NoCall == [op |-> "none"]

BarrierInit == /\ barrier = "open"
               /\ inNode = {}
               /\ call = [t \in Threads |-> NoCall]
               /\ aborted = FALSE

(* The thread runs plugin code.  The main thread does not while it waits   *)
(* for the workers.                                                        *)
Running(t) == /\ ~aborted
              /\ IF t = Main THEN barrier # "wanted" ELSE t \in inNode

Free(t) == Running(t) /\ call[t] = NoCall

(* The code runs on the main thread with the barrier held. *)
BarrierHeld == Free(Main) /\ barrier = "held"

Set(t, c) == call' = [call EXCEPT ![t] = c]

EnterNode(w) == /\ ~aborted
                /\ barrier = "open"
                /\ w \notin inNode
                /\ inNode' = inNode \cup {w}
                /\ UNCHANGED <<barrier, call, aborted>>

LeaveNode(w) == /\ Free(w)
                /\ inNode' = inNode \ {w}
                /\ UNCHANGED <<barrier, call, aborted>>

WantBarrier == /\ Free(Main)
               /\ barrier = "open"
               /\ barrier' = "wanted"
               /\ UNCHANGED <<inNode, call, aborted>>

HoldBarrier == /\ ~aborted
               /\ barrier = "wanted"
               /\ inNode = {}
               /\ barrier' = "held"
               /\ UNCHANGED <<inNode, call, aborted>>

ReleaseBarrier == /\ BarrierHeld
                  /\ barrier' = "open"
                  /\ UNCHANGED <<inNode, call, aborted>>
=============================================================================
