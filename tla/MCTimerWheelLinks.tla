---- MODULE MCTimerWheelLinks ----
(* Instance of TimerWheelLinks for TLC: the slab keys are interchangeable. *)
EXTENDS TimerWheelLinks, TLC

Symmetry == Permutations(Keys)
====
