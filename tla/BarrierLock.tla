---------------------------- MODULE BarrierLock ----------------------------
(***************************************************************************)
(* The read/write lock of vlib/main/sync.rs.  It counts the guards of the  *)
(* main thread only, and nothing ever waits for it: between threads it     *)
(* leaves exclusion to the barrier.                                        *)
(*                                                                         *)
(* A guard's lifetime is that of the lock, so code can keep one for longer *)
(* than the node function or the barrier it was taken under; `kept`        *)
(* records that this happened.                                             *)
(***************************************************************************)
EXTENDS Barrier

CONSTANT MaxGuards    \* bound on the main thread's read guards

VARIABLES readers,    \* BarrierRwLock::readers
          writer,     \* BarrierRwLock::writer
          data,       \* BarrierRwLock::data
          mainGuards, \* the number of read guards the main thread has
          guards,     \* the workers that have a read guard
          writing,    \* there is a write guard
          kept        \* history

lockVars == <<readers, writer, data, mainGuards, guards, writing, kept>>
guardVars == <<mainGuards, guards, writing, kept>>

LockInit == /\ readers = 0
            /\ writer = FALSE
            /\ data = 0
            /\ mainGuards = 0
            /\ guards = {}
            /\ writing = FALSE
            /\ kept = FALSE

Panic == /\ aborted' = TRUE
         /\ UNCHANGED <<barrier, inNode, call, lockVars>>

-----------------------------------------------------------------------------
(* Deviation: the main thread's readers are not told from a worker's. *)
CountsEveryReader(t) == TRUE

CountsReader(t) == t = Main

Read(t) ==
  /\ Free(t)
  /\ IF t = Main THEN mainGuards < MaxGuards ELSE t \notin guards
  /\ IF CountsReader(t) /\ writer
     THEN Panic
     ELSE /\ readers' = IF CountsReader(t) THEN readers + 1 ELSE readers
          /\ IF t = Main
             THEN mainGuards' = mainGuards + 1 /\ UNCHANGED guards
             ELSE guards' = guards \cup {t} /\ UNCHANGED mainGuards
          /\ UNCHANGED <<barrierVars, writer, data, writing, kept>>

(* Deviation: every guard's drop is counted. *)
DropReadCounted(t) ==
  /\ Free(t)
  /\ IF t = Main
     THEN mainGuards > 0 /\ mainGuards' = mainGuards - 1 /\ UNCHANGED guards
     ELSE t \in guards /\ guards' = guards \ {t} /\ UNCHANGED mainGuards
  /\ readers' = readers - 1
  /\ UNCHANGED <<barrierVars, writer, data, writing, kept>>

DropRead(t) ==
  /\ Free(t)
  /\ IF t = Main
     THEN mainGuards > 0 /\ mainGuards' = mainGuards - 1 /\ UNCHANGED guards
     ELSE t \in guards /\ guards' = guards \ {t} /\ UNCHANGED mainGuards
  /\ readers' = IF CountsReader(t) THEN readers - 1 ELSE readers
  /\ UNCHANGED <<barrierVars, writer, data, writing, kept>>

(* Deviation: only another writer is looked for. *)
WriteDespiteReaders ==
  /\ BarrierHeld
  /\ IF writer
     THEN Panic
     ELSE /\ writer' = TRUE
          /\ writing' = TRUE
          /\ UNCHANGED <<barrierVars, readers, data, mainGuards, guards, kept>>

(* Deviation: a MainRef is enough to take the lock for writing. *)
WriteAnyTime ==
  /\ Free(Main)
  /\ IF readers # 0 \/ writer
     THEN Panic
     ELSE /\ writer' = TRUE
          /\ writing' = TRUE
          /\ UNCHANGED <<barrierVars, readers, data, mainGuards, guards, kept>>

Write ==
  /\ BarrierHeld
  /\ IF readers # 0 \/ writer
     THEN Panic
     ELSE /\ writer' = TRUE
          /\ writing' = TRUE
          /\ UNCHANGED <<barrierVars, readers, data, mainGuards, guards, kept>>

WriteData == /\ Free(Main)
             /\ writing
             /\ data' = 1 - data
             /\ UNCHANGED <<barrierVars, readers, writer, guardVars>>

DropWrite == /\ Free(Main)
             /\ writing
             /\ writing' = FALSE
             /\ writer' = FALSE
             /\ UNCHANGED <<barrierVars, readers, data, mainGuards, guards, kept>>

(* The barrier's steps, with the guards that should have been gone. *)
KeepOnLeave(w) == /\ kept' = (kept \/ w \in guards)
                  /\ UNCHANGED <<readers, writer, data, mainGuards, guards, writing>>

KeepOnRelease == /\ kept' = (kept \/ writing)
                 /\ UNCHANGED <<readers, writer, data, mainGuards, guards, writing>>

-----------------------------------------------------------------------------
LockTypeOK == /\ readers \in Nat /\ mainGuards \in Nat
              /\ data \in {0, 1}
              /\ {writer, writing, kept} \subseteq BOOLEAN
              /\ guards \subseteq Workers

(* The lock's fields say what the main thread has: no worker's guard       *)
(* disturbs the counts, whatever is interleaved, and no count outlives its *)
(* guard.  A panic is therefore always about a guard of the main thread.   *)
CountsMainGuards == readers = mainGuards /\ writer = writing

(* While there is a write guard nobody can read, on any thread, unless a   *)
(* guard was kept for longer than the node function or barrier it was      *)
(* taken under.                                                            *)
Exclusion == ~kept /\ writing => mainGuards = 0 /\ guards = {}

(* What a guard shows does not change while it exists. *)
StableWhileRead ==
  [][(~kept' /\ (mainGuards > 0 \/ guards # {})) => data' = data]_<<data, kept>>
=============================================================================
