-------------------------- MODULE MCConfiguration --------------------------
(* Small instances of Configuration for TLC. *)
EXTENDS Configuration

\* The flash may refuse the address of the device of the first channel.
OneFlaky == {<<"master", 1, 1>>}

\* There may be no memory for the task of the device of the second channel.
OneStarved == {<<"master", 2, 1>>}

\* The values of the cables and the password.
OneValue == {0}

\* Addresses the user types in.
NoneTyped == {}
OneTyped == {1}
=============================================================================
