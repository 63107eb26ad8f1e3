----------------------------- MODULE MCNetwork -----------------------------
(* Instances of Network for TLC. *)
EXTENDS Network
=============================================================================
