--------------------------- MODULE SettingsStore ---------------------------
(***************************************************************************)
(* What configuration.c promises of the settings, without its keys: they   *)
(* are kept in parts, the three options and each channel.  A save replaces *)
(* the parts one after the other; a part under way may hold anything, a    *)
(* part done is what the model shows, and the ones to come are untouched.  *)
(* A restart shows what is kept, whenever it comes.                        *)
(***************************************************************************)
CONSTANTS
  Part,   \* what is saved as a unit
  Faulty  \* the parts that the flash may fail to take

VARIABLES
  shown,   \* the settings in memory
  kept,    \* what a restart would bring back
  edited,  \* there may be something to save
  saving,  \* a save is under way
  due,     \* the parts it has not finished
  torn     \* the part that may be a mixture, as a set of at most one

abstractVars == <<shown, kept, edited, saving, due, torn>>

Init ==
  /\ kept = shown
  /\ edited = FALSE /\ saving = FALSE
  /\ due = {} /\ torn = {}

Edit ==
  /\ ~ saving /\ edited' = TRUE
  /\ UNCHANGED <<saving, due, torn, kept>>

Begin ==
  /\ ~ saving /\ saving' = TRUE
  /\ due' = IF edited THEN Part ELSE {}
  /\ UNCHANGED <<edited, torn, kept, shown>>

\* One part is written at a time, and nothing else changes.
OnlyWrites(p) ==
  /\ torn \subseteq {p}
  /\ UNCHANGED <<saving, edited, shown>>
  /\ \A other \in Part \ {p} : kept'[other] = kept[other]

\* A part that is not finished may hold anything.
Touch(p) ==
  /\ p \in due /\ torn' = {p}
  /\ UNCHANGED due /\ OnlyWrites(p)

Finish(p) ==
  /\ due' = due \ {p} /\ torn' = {}
  /\ kept'[p] = shown[p] \/ p \in Faulty
  /\ OnlyWrites(p)

Write == (\E p \in torn' : Touch(p)) \/ (\E p \in due \ due' : Finish(p))

End ==
  /\ saving /\ due = {}
  /\ saving' = FALSE /\ edited' = FALSE
  /\ UNCHANGED <<due, torn, kept, shown>>

\* The power is cut and comes back, or an assertion has failed.
Restart ==
  /\ saving' = FALSE /\ edited' = FALSE
  /\ due' = {} /\ torn' = {}
  /\ shown' = kept /\ UNCHANGED kept

Next == Edit \/ Begin \/ End \/ Restart \/ Write

Spec == Init /\ [][Next]_abstractVars
=============================================================================
