---- MODULE MCProcessNode ----
(* Instance of ProcessNode for TLC: the keys of each slab are interchangeable. *)
EXTENDS ProcessNode, TLC

Symmetry == Permutations(Keys) \cup Permutations(Handles)
====
