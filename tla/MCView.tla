-------------------------------- MODULE MCView --------------------------------
(* Small instances of View for TLC. *)
EXTENDS View

\* No password or one.
TwoPins == {0, 1}

\* The mains is present or fails.
Mains == {0, 1}
=============================================================================
