--------------------------- MODULE MCConnections ---------------------------
(* Small instances of Connections for TLC. *)
EXTENDS Connections

\* Any of the devices may be removed.
AnyLayout == SUBSET Slot

\* Every slot has its device, always.
AllConfigured == {Slot}
=============================================================================
