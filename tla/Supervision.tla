---------------------------- MODULE Supervision ----------------------------
(***************************************************************************)
(* What connections.c promises to the rest of the program, without its     *)
(* tables, handles, notifications and event groups: a slot is served by    *)
(* one task at most; a task told to stop never serves again and leaves,    *)
(* sending one more update at most, and none if it was not past the gate;  *)
(* and the tasks of a slot come past its gate one after the other, until   *)
(* one is told to stop in front of it.  DeviceStatus relies on this.       *)
(***************************************************************************)
EXTENDS Naturals

CONSTANTS Slot, Task

VARIABLES
  serving,    \* the task that serves each slot, as a set of at most one
  leaving,    \* the tasks of each slot that were told to stop and are still around
  inside,     \* the tasks of each slot that are past its gate
  overtaken,  \* slots in which a task was told to stop in front of the gate
  silent,     \* the tasks told to stop that send nothing more
  late        \* the updates a task has sent after it was told to stop

abstractVars == <<serving, leaving, inside, overtaken, silent, late>>

Around(s) == serving[s] \cup leaving[s]
InFront(s) == Around(s) \ inside[s]
AtMostOne(T) == \A t, u \in T : t = u

Init ==
  /\ serving = [s \in Slot |-> {}] /\ leaving = [s \in Slot |-> {}]
  /\ inside = [s \in Slot |-> {}]
  /\ overtaken = {} /\ silent = {} /\ late = [t \in Task |-> 0]

\* A new task for a slot that nobody serves.
Start(s, t) ==
  /\ serving[s] = {}
  /\ \A r \in Slot : t \notin Around(r)
  /\ serving' = [serving EXCEPT ![s] = {t}]
  /\ UNCHANGED <<leaving, inside, overtaken, silent, late>>

\* The tasks of some slots are told to stop, all at once; those of Q, among them the
\* ones in front of the gate, at a place from which they send nothing more.
Stop(S, Q) ==
  /\ UNION {serving[s] \ inside[s] : s \in S} \subseteq Q
  /\ Q \subseteq UNION {serving[s] : s \in S}
  /\ serving' = [s \in Slot |-> IF s \in S THEN {} ELSE serving[s]]
  /\ leaving' = [s \in Slot |-> IF s \in S THEN Around(s) ELSE leaving[s]]
  /\ overtaken' = overtaken \cup {s \in S : serving[s] \ inside[s] # {}}
  /\ silent' = silent \cup Q
  /\ UNCHANGED <<inside, late>>

\* A task comes past the gate, when there is nobody or the slot was overtaken.
Enter(s, t) ==
  /\ t \in InFront(s)
  /\ inside[s] = {} \/ s \in overtaken
  /\ inside' = [inside EXCEPT ![s] = @ \cup {t}]
  /\ UNCHANGED <<serving, leaving, overtaken, silent, late>>

\* The last update of a task told to stop, or that it will send none.
LastUpdate(s, t) ==
  /\ t \in leaving[s] \cap inside[s]
  /\ t \notin silent /\ silent' = silent \cup {t}
  /\ late' \in {late, [late EXCEPT ![t] = @ + 1]}
  /\ UNCHANGED <<serving, leaving, inside, overtaken>>

\* A task told to stop leaves, and lets the tasks of W past the gate.
Leave(s, t, W) ==
  /\ t \in leaving[s] \cap inside[s] \cap silent /\ W \subseteq InFront(s)
  /\ leaving' = [leaving EXCEPT ![s] = @ \ {t}]
  /\ inside' = [inside EXCEPT ![s] = (@ \ {t}) \cup W]
  /\ AtMostOne(inside'[s]) \/ s \in overtaken
  /\ overtaken' = IF Around(s) = {t} THEN overtaken \ {s} ELSE overtaken
  /\ silent' = silent \ {t} /\ late' = [late EXCEPT ![t] = 0]
  /\ UNCHANGED serving

Next ==
  \/ \E s \in Slot, t \in Task : Start(s, t) \/ Enter(s, t) \/ LastUpdate(s, t)
  \/ \E S \in SUBSET Slot, Q \in SUBSET Task : Stop(S, Q)
  \/ \E s \in Slot, t \in Task, W \in SUBSET Task : Leave(s, t, W)

Spec == Init /\ [][Next]_abstractVars
=============================================================================
