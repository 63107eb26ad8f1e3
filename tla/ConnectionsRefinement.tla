----------------------- MODULE ConnectionsRefinement -----------------------
(***************************************************************************)
(* Connections implements Supervision, for every number of slots and task  *)
(* blocks.                                                                 *)
(***************************************************************************)
EXTENDS ConnectionsProofs

\* What the supervision sees.
Serving == [s \in Slot |-> {t \in Task : Live(t) /\ home[t] = s}]
Leaving == [s \in Slot |-> {t \in Task : Alive(t) /\ notified[t] /\ home[t] = s}]
Past == [s \in Slot |-> {t \in Task : pc[t] \in Inside /\ home[t] = s}]
Overtaken == {s \in Slot : overtaken[s]}
Silent == {t \in Task : notified[t] /\ pc[t] \notin {"notok", "poll", "report"}}
Seen == <<Serving, Leaving, Past, Overtaken, Silent, late>>

\* The tasks of a slot, and those in front of its gate.
LEMMA AroundOf ==
  ASSUME TypeOK, NEW s \in Slot
  PROVE  /\ Serving[s] \cup Leaving[s] = {t \in Task : Alive(t) /\ home[t] = s}
         /\ (Serving[s] \cup Leaving[s]) \ Past[s] = {t \in Task : InFront(t, s)}
         /\ Serving[s] \ Past[s] = {t \in Task : InFront(t, s) /\ ~notified[t]}
<1>1. \A t \in Task : pc[t] \in TaskState /\ notified[t] \in BOOLEAN
  BY DEF TypeOK
<1>2. \A t \in Task : Alive(t) /\ pc[t] \notin Inside <=> pc[t] \in {"start", "wait"}
  BY <1>1 DEF TaskState, Inside, Alive
<1>3. QED
  BY <1>2 DEF Serving, Leaving, Past, Live, InFront

\* A step that moves no task past a gate, stops none and silences none is a stutter
\* of the supervision.
LEMMA Stutter ==
  ASSUME UNCHANGED <<home, notified, overtaken, late>>,
         \A t \in Task : /\ Alive(t)' <=> Alive(t)
                         /\ pc'[t] \in Inside <=> pc[t] \in Inside,
         Silent' = Silent
  PROVE  UNCHANGED Seen
<1>1. \A t \in Task : Live(t)' <=> Live(t)
  BY DEF Live
<1>2. Serving' = Serving /\ Leaving' = Leaving
  BY <1>1 DEF Serving, Leaving
<1>3. Past' = Past /\ Overtaken' = Overtaken
  BY DEF Past, Overtaken
<1>4. QED
  BY <1>2, <1>3 DEF Seen

\* The steps of the supervision, in terms of what it sees.
LEMMA IsStart ==
  ASSUME NEW s \in Slot, NEW t \in Task, Serving[s] = {},
         \A r \in Slot : t \notin Serving[r] \cup Leaving[r],
         Serving' = [Serving EXCEPT ![s] = {t}], 
         UNCHANGED <<Leaving, Past, Overtaken, Silent, late>>
  PROVE  Supervisor!Next
<1>1. Supervisor!Start(s, t)
  BY DEF Supervisor!Start, Supervisor!Around, Serving, Leaving, Past, Overtaken, Silent
<1>2. QED
  BY <1>1, Zenon DEF Supervisor!Next

LEMMA IsStop ==
  ASSUME NEW S \in SUBSET Slot, NEW Q \in SUBSET Task,
         UNION {Serving[s] \ Past[s] : s \in S} \subseteq Q,
         Q \subseteq UNION {Serving[s] : s \in S},
         Serving' = [s \in Slot |-> IF s \in S THEN {} ELSE Serving[s]],
         Leaving' = [s \in Slot |-> IF s \in S THEN Serving[s] \cup Leaving[s] ELSE Leaving[s]],
         Overtaken' = Overtaken \cup {s \in S : Serving[s] \ Past[s] # {}},
         Silent' = Silent \cup Q, UNCHANGED <<Past, late>>
  PROVE  Supervisor!Next
<1>1. Supervisor!Stop(S, Q)
  BY DEF Supervisor!Stop, Supervisor!Around, Serving, Leaving, Past, Overtaken, Silent
<1>2. QED
  BY <1>1, Zenon DEF Supervisor!Next

LEMMA IsEnter ==
  ASSUME NEW s \in Slot, NEW t \in Task, t \in (Serving[s] \cup Leaving[s]) \ Past[s],
         Past[s] = {} \/ s \in Overtaken,
         Past' = [Past EXCEPT ![s] = @ \cup {t}],
         UNCHANGED <<Serving, Leaving, Overtaken, Silent, late>>
  PROVE  Supervisor!Next
<1>1. Supervisor!Enter(s, t)
  BY DEF Supervisor!Enter, Supervisor!InFront, Supervisor!Around, Serving, Leaving, Past,
         Overtaken, Silent
<1>2. QED
  BY <1>1, Zenon DEF Supervisor!Next

LEMMA IsLastUpdate ==
  ASSUME NEW s \in Slot, NEW t \in Task, t \in Leaving[s] \cap Past[s],
         t \notin Silent, Silent' = Silent \cup {t},
         late' \in {late, [late EXCEPT ![t] = @ + 1]},
         UNCHANGED <<Serving, Leaving, Past, Overtaken>>
  PROVE  Supervisor!Next
<1>1. Supervisor!LastUpdate(s, t)
  BY DEF Supervisor!LastUpdate, Serving, Leaving, Past, Overtaken, Silent
<1>2. QED
  BY <1>1, Zenon DEF Supervisor!Next

LEMMA IsLeave ==
  ASSUME NEW s \in Slot, NEW t \in Task, NEW W \in SUBSET Task,
         t \in Leaving[s] \cap Past[s] \cap Silent, W \subseteq (Serving[s] \cup Leaving[s]) \ Past[s],
         Leaving' = [Leaving EXCEPT ![s] = @ \ {t}],
         Past' = [Past EXCEPT ![s] = (@ \ {t}) \cup W],
         (\A u, v \in Past'[s] : u = v) \/ s \in Overtaken,
         Overtaken' = IF Serving[s] \cup Leaving[s] = {t} THEN Overtaken \ {s} ELSE Overtaken,
         Silent' = Silent \ {t}, late' = [late EXCEPT ![t] = 0], UNCHANGED Serving
  PROVE  Supervisor!Next
<1>1. Supervisor!Leave(s, t, W)
  BY DEF Supervisor!Leave, Supervisor!InFront, Supervisor!Around, Supervisor!AtMostOne,
         Serving, Leaving, Past, Overtaken, Silent
<1>2. QED
  BY <1>1, Zenon DEF Supervisor!Next

-----------------------------------------------------------------------------
\* Tasks are told to stop, among them every task not told before of some slots S, and
\* none of another slot: to the supervision, the slots S are stopped.
LEMMA NotifyStops ==
  ASSUME TypeOK, ApartInv, NEW T \in SUBSET Task, Notify(T), UNCHANGED <<pc, home, late>>,
         NEW S \in SUBSET Slot,
         \A t \in Task : Live(t) => (t \in T <=> home[t] \in S)
  PROVE  Supervisor!Next
<1>1. \A t \in Task : notified'[t] = (notified[t] \/ (t \in T /\ pc[t] # "free"))
  <2>1. notified' = [t \in Task |-> notified[t] \/ (t \in T /\ pc[t] # "free")]
    BY DEF Notify
  <2>2. QED
    BY <2>1, Zenon
<1>2. \A s \in Slot : overtaken'[s] = (overtaken[s] \/ \E t \in T : InFront(t, s))
  <2>1. overtaken' = [s \in Slot |-> overtaken[s] \/ \E t \in T : InFront(t, s)]
    BY DEF Notify
  <2>2. QED
    BY <2>1, Zenon
<1>3. \A t \in Task : home[t] \in Slot /\ (Alive(t)' <=> Alive(t))
  BY DEF TypeOK, Alive
<1>4. \A t \in Task : Live(t)' <=> Live(t) /\ home[t] \notin S
  BY <1>1, <1>3 DEF Live, Alive
<1>5. \A t \in Task : Alive(t)' /\ notified'[t] <=>
        Alive(t) /\ (notified[t] \/ home[t] \in S)
  BY <1>1, <1>3 DEF Live, Alive
<1>6. Serving' = [s \in Slot |-> IF s \in S THEN {} ELSE Serving[s]]
  BY <1>4 DEF Serving
<1>7. Leaving' = [s \in Slot |-> IF s \in S THEN Serving[s] \cup Leaving[s] ELSE Leaving[s]]
  <2>1. ASSUME NEW s \in Slot
        PROVE  Leaving'[s] = IF s \in S THEN Serving[s] \cup Leaving[s] ELSE Leaving[s]
    <3>1. Leaving'[s] = {t \in Task : Alive(t) /\ (notified[t] \/ s \in S) /\ home[t] = s}
      BY <1>5 DEF Leaving
    <3>2. QED
      BY <3>1, AroundOf DEF Leaving
  <2>2. QED
    BY <2>1 DEF Leaving
<1>8. Overtaken' = Overtaken \cup {s \in S : Serving[s] \ Past[s] # {}}
  <2>1. ASSUME NEW s \in Slot
        PROVE  overtaken'[s] <=> overtaken[s] \/ (s \in S /\ Serving[s] \ Past[s] # {})
    <3>1. ASSUME NEW t \in T, InFront(t, s), ~overtaken[s]
          PROVE  s \in S /\ Serving[s] \ Past[s] # {}
      <4>1. ~notified[t] /\ Live(t) /\ home[t] = s
        BY <3>1 DEF ApartInv, Live, Alive, InFront
      <4>2. t \in Serving[s] \ Past[s]
        BY <3>1, <4>1, AroundOf
      <4>3. QED
        BY <4>1, <4>2
    <3>2. ASSUME s \in S, Serving[s] \ Past[s] # {}
          PROVE  \E t \in T : InFront(t, s)
      <4>1. PICK t \in Task : InFront(t, s) /\ ~notified[t]
        BY <3>2, AroundOf
      <4>2. Live(t) /\ home[t] = s
        BY <4>1 DEF Live, Alive, InFront
      <4>3. QED
        BY <3>2, <4>1, <4>2
    <3>3. QED
      BY <1>2, <3>1, <3>2
  <2>2. QED
    BY <2>1 DEF Overtaken
<1>9. UNCHANGED <<Past, late>>
  BY DEF Past
<1> DEFINE Q == {t \in Task : /\ Live(t) /\ home[t] \in S
                             /\ pc[t] \notin {"notok", "poll", "report"}}
<1>10. Silent' = Silent \cup Q
  <2>1. \A t \in Task : notified'[t] <=> notified[t] \/ (Live(t) /\ home[t] \in S)
    BY <1>1 DEF Live, Alive, Walk
  <2>2. QED
    BY <2>1 DEF Silent
<1>11. Q \subseteq UNION {Serving[s] : s \in S}
  BY DEF Serving
<1>12. UNION {Serving[s] \ Past[s] : s \in S} \subseteq Q
  <2>1. ASSUME NEW s \in S, NEW t \in Serving[s] \ Past[s]
        PROVE  t \in Q
    <3>1. t \in Task /\ InFront(t, s) /\ ~notified[t]
      BY AroundOf
    <3>2. QED
      BY <3>1 DEF InFront, Live, Alive
  <2>2. QED
    BY <2>1
<1>13. Q \in SUBSET Task
  OBVIOUS
<1> HIDE DEF Q
<1>14. QED
  BY <1>6, <1>7, <1>8, <1>9, <1>10, <1>11, <1>12, <1>13, IsStop

\* A task goes past the gate at once or waits in front of it.
LEMMA EnterRefines ==
  ASSUME TypeOK, ApartInv, NEW t \in Task, EnterGate(t)
  PROVE  Supervisor!Next \/ UNCHANGED Seen
<1> DEFINE s == home[t]
<1>1. /\ pc[t] = "start" /\ s \in Slot /\ UNCHANGED <<home, notified, overtaken, late>>
      /\ pc' = [pc EXCEPT ![t] = IF gate[s] THEN "check" ELSE "wait"]
  BY DEF EnterGate, Goto, TaskOnly, TypeOK
<1>2. /\ \A u \in Task \ {t} : pc'[u] = pc[u]
      /\ pc'[t] = IF gate[s] THEN "check" ELSE "wait"
  BY <1>1 DEF TypeOK
<1>3. \A u \in Task : Alive(u)' <=> Alive(u)
  BY <1>1, <1>2 DEF Alive
<1> DEFINE Speaking == {"notok", "poll", "report"}
<1>7. Silent' = Silent
  <2>1. \A u \in Task : pc'[u] \in Speaking <=> pc[u] \in Speaking
    BY <1>1, <1>2
  <2>2. QED
    BY <1>1, <2>1 DEF Silent
<1>4. CASE gate[s]
  <2>1. Serving' = Serving /\ Leaving' = Leaving /\ Overtaken' = Overtaken
    BY <1>1, <1>3 DEF Serving, Leaving, Overtaken, Live
  <2>2. t \in (Serving[s] \cup Leaving[s]) \ Past[s]
    BY <1>1, AroundOf DEF InFront
  <2>3. Past[s] = {} \/ s \in Overtaken
    BY <1>1, <1>4 DEF ApartInv, Past, Overtaken
  <2>4. Past' = [Past EXCEPT ![s] = @ \cup {t}]
    <3>1. ASSUME NEW r \in Slot
          PROVE  Past'[r] = IF r = s THEN Past[r] \cup {t} ELSE Past[r]
      <4>1. pc'[t] \in Inside /\ home[t] = s /\ UNCHANGED home
        BY <1>1, <1>2, <1>4 DEF Inside
      <4> HIDE DEF s
      <4>2. \A u \in Task : pc'[u] \in Inside /\ home'[u] = r <=>
              (pc[u] \in Inside /\ home[u] = r) \/ (u = t /\ r = s)
        BY <1>2, <4>1
      <4>3. QED
        BY <4>2 DEF Past
    <3> HIDE DEF s
    <3>2. QED
      BY <1>1, <3>1 DEF Past
  <2>5. QED
    BY <1>1, <1>7, <2>1, <2>2, <2>3, <2>4, IsEnter
<1>5. CASE ~gate[s]
  <2>1. \A u \in Task : pc'[u] \in Inside <=> pc[u] \in Inside
    BY <1>1, <1>2, <1>5 DEF Inside
  <2>2. QED
    BY <1>1, <1>3, <1>7, <2>1, Stutter
<1>6. QED
  BY <1>4, <1>5

\* The only updates that show are those of tasks told to stop.
LEMMA SendRefines ==
  ASSUME TypeOK, NEW t \in Task, SendNotOk(t) \/ Report(t)
  PROVE  Supervisor!Next \/ UNCHANGED Seen
<1>0. PICK s \in Slot : s = home[t]
  BY DEF TypeOK
<1>1. /\ pc[t] \in {"notok", "report"} /\ UNCHANGED <<home, notified, overtaken>>
      /\ pc' = [pc EXCEPT ![t] = IF pc[t] = "notok" THEN "open" ELSE "sleep"]
      /\ late' = [late EXCEPT ![t] = IF notified[t] THEN @ + 1 ELSE @]
  BY DEF SendNotOk, Report, Send, Goto, TaskOnly, TypeOK
<1>2. /\ pc'[t] \in {"open", "sleep"}
      /\ \A u \in Task \ {t} : pc'[u] = pc[u]
  BY <1>1 DEF TypeOK
<1>3. \A u \in Task : /\ Alive(u)' <=> Alive(u)
                      /\ pc'[u] \in Inside <=> pc[u] \in Inside
  BY <1>1, <1>2 DEF Alive, Inside
<1>4. CASE notified[t]
  <2>1. Serving' = Serving /\ Leaving' = Leaving /\ Past' = Past /\ Overtaken' = Overtaken
    BY <1>1, <1>3 DEF Serving, Leaving, Past, Overtaken, Live
  <2>2. t \in Leaving[s] \cap Past[s] /\ t \notin Silent
    BY <1>0, <1>1, <1>4 DEF Leaving, Past, Silent, Alive, Inside
  <2>3. Silent' = Silent \cup {t}
    BY <1>1, <1>2, <1>4 DEF Silent
  <2>4. late' = [late EXCEPT ![t] = @ + 1]
    BY <1>1, <1>4
  <2>5. QED
    BY <2>1, <2>2, <2>3, <2>4, IsLastUpdate
<1>5. CASE ~notified[t]
  <2>1. late' = late
    BY <1>1, <1>5 DEF TypeOK
  <2>2. Silent' = Silent
    BY <1>1, <1>2, <1>5 DEF Silent
  <2>3. QED
    BY <1>1, <1>3, <2>1, <2>2, Stutter
<1>6. QED
  BY <1>4, <1>5

\* A poll that fails is the last a task told to stop does before it leaves.
LEMMA PollRefines ==
  ASSUME TypeOK, NEW t \in Task, Poll(t)
  PROVE  Supervisor!Next \/ UNCHANGED Seen
<1>0. PICK s \in Slot : s = home[t]
  BY DEF TypeOK
<1>1. pc[t] = "poll" /\ UNCHANGED <<home, notified, overtaken, late>>
      /\ \E outcome \in {"report", "check"} : pc' = [pc EXCEPT ![t] = outcome]
  BY DEF Poll, Goto, TaskOnly
<1>2. /\ pc'[t] \in {"report", "check"}
      /\ \A u \in Task \ {t} : pc'[u] = pc[u]
  BY <1>1 DEF TypeOK
<1>3. \A u \in Task : /\ Alive(u)' <=> Alive(u)
                      /\ pc'[u] \in Inside <=> pc[u] \in Inside
  BY <1>1, <1>2 DEF Alive, Inside
<1>4. CASE notified[t] /\ pc'[t] = "check"
  <2>1. Serving' = Serving /\ Leaving' = Leaving /\ Past' = Past /\ Overtaken' = Overtaken
    BY <1>1, <1>3 DEF Serving, Leaving, Past, Overtaken, Live
  <2>2. t \in Leaving[s] \cap Past[s] /\ t \notin Silent
    BY <1>0, <1>1, <1>4 DEF Leaving, Past, Silent, Alive, Inside
  <2>3. Silent' = Silent \cup {t}
    BY <1>1, <1>2, <1>4 DEF Silent
  <2>4. QED
    BY <1>1, <2>1, <2>2, <2>3, IsLastUpdate
<1>5. CASE ~notified[t] \/ pc'[t] = "report"
  <2>1. Silent' = Silent
    BY <1>1, <1>2, <1>5 DEF Silent
  <2>2. QED
    BY <1>1, <1>3, <2>1, Stutter
<1>6. QED
  BY <1>2, <1>4, <1>5

\* A task ends: it leaves, and those it wakes come past the gate.
LEMMA EndRefines ==
  ASSUME TypeOK, LeavesOnRequest, ApartInv', NEW t \in Task, End(t)
  PROVE  Supervisor!Next
<1>0. PICK s \in Slot : s = home[t]
  BY DEF TypeOK
<1> DEFINE W == Waiters(s)
<1>1. pc[t] = "end" /\ notified[t] /\ s \in Slot /\ W \subseteq Task \ {t}
  BY <1>0 DEF End, LeavesOnRequest, Waiters, TypeOK
<1>2. /\ pc'[t] = "free"
      /\ \A u \in W : pc'[u] = "check" /\ pc[u] = "wait" /\ home[u] = s
      /\ \A u \in Task \ ({t} \cup W) : pc'[u] = pc[u]
      /\ \A u \in Task \ {t} : home'[u] = home[u] /\ notified'[u] = notified[u]
                              /\ late'[u] = late[u]
      /\ late'[t] = 0
  BY <1>0, <1>1 DEF End, TypeOK, Waiters
<1>3. overtaken'[s] = (overtaken[s] /\ \E u \in Task \ {t} : Alive(u) /\ home[u] = s)
      /\ \A r \in Slot \ {s} : overtaken'[r] = overtaken[r]
  <2>1. overtaken \in [Slot -> BOOLEAN]
    BY DEF TypeOK
  <2>2. overtaken' = [overtaken EXCEPT ![s] =
                        @ /\ \E u \in Task \ {t} : Alive(u) /\ home[u] = s]
    BY <1>0 DEF End, Emptied, Alive
  <2>3. QED
    BY <1>1, <2>1, <2>2, Zenon
<1> HIDE DEF W
<1>4. ~Alive(t)' /\ Alive(t) /\ ~Live(t)
      /\ \A u \in Task \ {t} : (Alive(u)' <=> Alive(u)) /\ (Live(u)' <=> Live(u))
  BY <1>1, <1>2 DEF Alive, Live
<1>5. Serving' = Serving
  BY <1>2, <1>4 DEF Serving, Live
<1>6. Leaving' = [Leaving EXCEPT ![s] = @ \ {t}]
  <2>1. ASSUME NEW r \in Slot
        PROVE  Leaving'[r] = IF r = s THEN Leaving[r] \ {t} ELSE Leaving[r]
    BY <1>0, <1>2, <1>4 DEF Leaving
  <2>2. QED
    BY <1>1, <2>1 DEF Leaving
<1>7. Past' = [Past EXCEPT ![s] = (@ \ {t}) \cup W]
  <2>1. ASSUME NEW r \in Slot
        PROVE  Past'[r] = IF r = s THEN (Past[r] \ {t}) \cup W ELSE Past[r]
    BY <1>0, <1>1, <1>2 DEF Past, Inside
  <2>2. QED
    BY <1>1, <2>1 DEF Past
<1>8. t \in Leaving[s] \cap Past[s] \cap Silent /\ W \subseteq (Serving[s] \cup Leaving[s]) \ Past[s]
  <2>1. t \in Leaving[s] \cap Past[s] \cap Silent
    BY <1>0, <1>1, <1>4 DEF Leaving, Past, Silent, Inside
  <2>2. QED
    BY <1>1, <1>2, <2>1, AroundOf DEF InFront
<1>9. (\A u, v \in Past'[s] : u = v) \/ s \in Overtaken
  <2>1. ASSUME ~overtaken[s] PROVE \A u, v \in Past'[s] : u = v
    <3>1. ~overtaken'[s]
      BY <1>3, <2>1
    <3>2. OneInside(s)'
      BY <1>1, <3>1, Zenon DEF ApartInv, Apart
    <3>3. QED
      BY <1>1, <3>2 DEF OneInside, Past
  <2>2. s \in Overtaken <=> overtaken[s]
    BY <1>1 DEF Overtaken
  <2>3. QED
    BY <2>1, <2>2
<1>10. Overtaken' = IF Serving[s] \cup Leaving[s] = {t} THEN Overtaken \ {s} ELSE Overtaken
  <2>1. Serving[s] \cup Leaving[s] = {t} <=> ~\E u \in Task \ {t} : Alive(u) /\ home[u] = s
    BY <1>0, <1>1, <1>4, AroundOf
  <2>2. QED
    BY <1>1, <1>3, <2>1 DEF Overtaken
<1>11. Silent' = Silent \ {t} /\ late' = [late EXCEPT ![t] = 0]
  <2>1. ~notified'[t] /\ late' = [late EXCEPT ![t] = 0]
    BY DEF End, TypeOK
  <2>2. QED
    BY <1>1, <1>2, <2>1 DEF Silent
<1>12. W \in SUBSET Task
  BY <1>1
<1>13. QED
  BY <1>1, <1>5, <1>6, <1>7, <1>8, <1>9, <1>10, <1>11, <1>12, IsLeave
-----------------------------------------------------------------------------
LEMMA RefinesInit == Init => Supervisor!Init
<1> SUFFICES ASSUME Init
             PROVE  Supervisor!Init
  OBVIOUS
<1>1. \A t \in Task : ~Alive(t) /\ pc[t] \notin Inside /\ ~notified[t]
  BY DEF Init, Alive, Inside
<1>2. (\A s \in Slot : ~overtaken[s]) /\ late = [t \in Task |-> 0]
  BY DEF Init
<1>3. QED
  BY <1>1, <1>2 DEF Supervisor!Init, Live

LEMMA RefinesStep ==
  TypeOK /\ TableInv /\ ApartInv /\ ApartInv' /\ [Next]_vars
    => [Supervisor!Next]_(Supervisor!abstractVars)
<1> SUFFICES ASSUME TypeOK, TableInv, ApartInv, ApartInv', [Next]_vars
             PROVE  Supervisor!Next \/ UNCHANGED Seen
  BY DEF Supervisor!abstractVars, Seen, Serving, Leaving, Past, Overtaken, Silent
<1>1. CASE UNCHANGED <<pc, home, notified, overtaken, late>>
  BY <1>1, Stutter DEF Alive, Silent
<1>2. CASE LinkDown
  <2>1. CASE main = "boot"
    BY <1>1, <1>2, <2>1 DEF LinkDown
  <2>2. CASE main # "boot"
    <3> DEFINE T == {tasks[s] : s \in Slot} \ {NULL}
    <3>1. Notify(T) /\ UNCHANGED <<pc, home, late>>
      BY <1>2, <2>2 DEF LinkDown, ClearAll
    <3>2. T \in SUBSET Task
      BY DEF TypeOK
    <3>3. ASSUME NEW t \in Task, Live(t)
          PROVE  t \in T /\ home[t] \in Slot
      BY <3>3, ConnectionsAssumption
         DEF ConnectionsAssumption, TableInv, OneLiveTask, TypeOK
    <3>4. Slot \in SUBSET Slot
      OBVIOUS
    <3> HIDE DEF T
    <3>5. QED
      BY <3>1, <3>2, <3>3, <3>4, NotifyStops
  <2>3. QED
    BY <2>1, <2>2
<1>3. CASE ClearNotify
  <2>1. handle \in Task /\ Notify({handle}) /\ UNCHANGED <<pc, home, late>>
    BY <1>3 DEF ClearNotify, TableInv, Walk
  <2>2. PICK h \in Task : h = handle
    BY <2>1
  <2>3. {h} \in SUBSET Task /\ Notify({h})
    BY <2>1, <2>2
  <2>4. CASE Live(h)
    <3>1. PICK s \in Slot : s = home[h]
      BY DEF TypeOK
    <3>2. \A t \in Task : Live(t) => (t \in {h} <=> home[t] \in {s})
      BY <2>4, <3>1 DEF TableInv, OneLiveTask
    <3>3. {s} \in SUBSET Slot
      OBVIOUS
    <3>4. QED
      BY <2>1, <2>3, <3>2, <3>3, NotifyStops
  <2>5. CASE ~Live(h)
    <3>1. \A t \in Task : Live(t) => (t \in {h} <=> home[t] \in {})
      BY <2>5
    <3>2. {} \in SUBSET Slot
      OBVIOUS
    <3>3. QED
      BY <2>1, <2>3, <3>1, <3>2, NotifyStops
  <2>6. QED
    BY <2>4, <2>5
<1>4. CASE Spawn
  <2>1. /\ cur \in Slot /\ main = "spawn"
        /\ UNCHANGED <<notified, overtaken, late>>
    BY <1>4, ConnectionsAssumption DEF ConnectionsAssumption, Spawn, TypeOK, Slot
  <2>2. CASE UNCHANGED <<pc, home>>
    BY <2>1, <2>2, <1>1
  <2>3. ASSUME NEW t \in Task, pc[t] = "free",
               pc' = [pc EXCEPT ![t] = "start"],
               home' = [home EXCEPT ![t] = cur]
        PROVE  Supervisor!Next
    <3>0. PICK s \in Slot : s = cur
      BY <2>1
    <3>1. ~Alive(t) /\ ~notified[t] /\ tasks[s] = NULL
      BY <3>0, <2>1, <2>3 DEF TableInv, Walk, Alive, TypeOK, Slot
    <3>2. /\ \A u \in Task : Live(u)' <=> Live(u) \/ u = t
          /\ \A u \in Task \ {t} : /\ home'[u] = home[u] /\ pc'[u] = pc[u]
                                   /\ Alive(u)' <=> Alive(u)
          /\ home'[t] = s /\ pc'[t] = "start"
      BY <3>0, <2>1, <2>3, <3>1 DEF Live, Alive, TypeOK
    <3>3. Serving[s] = {} /\ \A r \in Slot : t \notin Serving[r] \cup Leaving[r]
      BY <3>0, <2>1, <3>1, ConnectionsAssumption
         DEF ConnectionsAssumption, TableInv, OneLiveTask, Serving, Leaving, Live
    <3>4. Serving' = [Serving EXCEPT ![s] = {t}]
      <4>1. ASSUME NEW r \in Slot
            PROVE  Serving'[r] = IF r = s THEN {t} ELSE Serving[r]
        <5>1. Serving'[r] = {u \in Task : (Live(u) \/ u = t) /\ home'[u] = r}
          BY <3>2 DEF Serving
        <5>2. \A u \in Task : u \in Serving'[r] <=> u \in Serving[r] \/ (u = t /\ r = s)
          BY <5>1, <3>2, <3>1 DEF Serving, Live
        <5>3. Serving'[r] \subseteq Task /\ Serving[r] \subseteq Task
          BY <5>1 DEF Serving
        <5>4. QED
          BY <5>2, <5>3, <3>3
      <4>2. QED
        BY <4>1 DEF Serving
    <3>5. Leaving' = Leaving
      BY <2>1, <3>1, <3>2 DEF Leaving
    <3>6. Past' = Past
      BY <2>3, <3>2 DEF Past, Inside
    <3>7. Overtaken' = Overtaken /\ Silent' = Silent
      BY <2>1, <3>1, <3>2 DEF Overtaken, Silent
    <3>8. QED
      BY <2>1, <3>3, <3>4, <3>5, <3>6, <3>7, IsStart
  <2>4. QED
    BY <1>4, <2>2, <2>3 DEF Spawn, CreateTask
<1>5. ASSUME NEW t \in Task, DeviceTask(t), ~EnterGate(t), ~SendNotOk(t), ~Report(t),
             ~Poll(t), ~End(t)
      PROVE  UNCHANGED Seen
  <2>1. UNCHANGED <<home, notified, overtaken, late>>
    BY <1>5 DEF DeviceTask, Check, OpenSocket, Connect, Retry, Settle, Sleep, TaskOnly
  <2> DEFINE Speaking == {"notok", "poll", "report"}
  <2>2. /\ pc[t] \in Inside \ Speaking
        /\ \E next \in Inside : Goto(t, next) /\ (notified[t] => next \notin Speaking)
    <3> USE DEF Inside
    <3>1. CASE Check(t) \/ OpenSocket(t)
      BY <3>1 DEF Check, OpenSocket
    <3>2. CASE Connect(t)
      BY <3>2 DEF Connect
    <3>3. CASE Retry(t) \/ Settle(t)
      BY <3>3 DEF Retry, Settle
    <3>4. CASE Sleep(t)
      BY <3>4 DEF Sleep
    <3>5. QED
      BY <1>5, <3>1, <3>2, <3>3, <3>4 DEF DeviceTask
  <2>3. /\ pc'[t] \in Inside
        /\ notified[t] => pc'[t] \notin Speaking
        /\ \A u \in Task \ {t} : pc'[u] = pc[u]
    BY <2>2 DEF Goto, TypeOK
  <2>4. \A u \in Task : /\ Alive(u)' <=> Alive(u)
                        /\ pc'[u] \in Inside <=> pc[u] \in Inside
    BY <2>2, <2>3 DEF Inside, Alive
  <2>5. Silent' = Silent
    BY <2>1, <2>2, <2>3 DEF Silent
  <2>6. QED
    BY <2>1, <2>4, <2>5, Stutter
<1>6. CASE GotIp \/ User \/ (MainLoop /\ ~Spawn /\ ~ClearNotify)
  <2>1. UNCHANGED <<notified, home, pc, overtaken, late>>
    BY <1>6 DEF GotIp, User, EditConfig, SaveConfig, MainLoop, SetCallbacks, LeaveGui, TakeRestart,
         ClearTest, ClearForget, ClearDone, SpawnDone, Drain, DrainDone, taskVars, mainVars, dataVars
  <2>2. QED
    BY <2>1, <1>1
<1>7. ASSUME NEW t \in Task, DeviceTask(t)
      PROVE  Supervisor!Next \/ UNCHANGED Seen
  <2>1. LeavesOnRequest
    BY DEF TableInv
  <2>2. QED
    BY <1>5, <1>7, <2>1, EnterRefines, SendRefines, PollRefines, EndRefines
<1>8. QED
  BY <1>1, <1>2, <1>3, <1>4, <1>6, <1>7
     DEF Next, EventTask, vars, taskVars, dataVars

\* The tasks, gates, handles and notifications of connections.c implement the
\* supervision: a slot is served by one task at most, its tasks work one after the
\* other unless a restart overtakes one in front of the gate, and a task told to stop
\* sends one more update at most, or none if it was in front of the gate, and leaves.
THEOREM Refinement == Spec => Supervised
  BY TypeCorrect, TableCorrect, ApartInvariant, RefinesInit, RefinesStep, PTL
     DEF Spec, Supervised, Supervisor!Spec
=============================================================================
