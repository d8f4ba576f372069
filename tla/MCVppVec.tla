------------------------------ MODULE MCVppVec ------------------------------
(* VppVec for TLC: two elements, so that order shows; grow_elts up to 2.   *)
EXTENDS VppVec
=============================================================================
