---- MODULE MCMpscChannel ----
(* Instance of MpscChannel for TLC. *)
EXTENDS MpscChannel
====
