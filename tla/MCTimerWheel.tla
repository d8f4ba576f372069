---- MODULE MCTimerWheel ----
(* Instance of TimerWheel for TLC: the slab keys are interchangeable. *)
EXTENDS TimerWheel, TLC

Symmetry == Permutations(Keys)
====
