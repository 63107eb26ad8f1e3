------------------------------ MODULE MCSpiBus ------------------------------
(* Instances of SpiBus for TLC. *)
EXTENDS SpiBus
=============================================================================
