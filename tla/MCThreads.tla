----------------------------- MODULE MCThreads -----------------------------
(* Threads for TLC: two workers besides the main thread. *)
EXTENDS Threads
=============================================================================
