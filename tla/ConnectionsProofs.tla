------------------------- MODULE ConnectionsProofs -------------------------
(***************************************************************************)
(* Theorems about Connections for every number of slots, task blocks,      *)
(* sockets and every queue length.                                         *)
(***************************************************************************)
EXTENDS Connections, SequenceTheorems, TLAPS

\* Notify keeps the queue a sequence of updates and marks no task it may not.
LEMMA NotifyType ==
  ASSUME TypeOK, NEW T, Notify(T)
  PROVE  /\ notified' \in [Task -> BOOLEAN]
         /\ deviceq' \in Seq(Update)
         /\ fresh' \in [Slot -> BOOLEAN]
         /\ overtaken' \in [Slot -> BOOLEAN]
<1>1. notified' \in [Task -> BOOLEAN]
  BY DEF TypeOK, Notify
<1>2. fresh' \in [Slot -> BOOLEAN]
  BY DEF TypeOK, Notify
<1>3. deviceq' \in Seq(Update)
  <2> DEFINE stopped == {home[t] : t \in {u \in T : pc[u] # "free"}}
             mark(i) == [deviceq[i] EXCEPT !.live = @ /\ deviceq[i].slot \notin stopped]
  <2>1. deviceq \in Seq(Update) /\ deviceq' = [i \in DOMAIN deviceq |-> mark(i)]
    BY DEF TypeOK, Notify
  <2>2. Len(deviceq) \in Nat /\ DOMAIN deviceq = 1 .. Len(deviceq)
    BY <2>1
  <2>3. ASSUME NEW i \in 1 .. Len(deviceq)
        PROVE  mark(i) \in Update
    <3>1. deviceq[i] \in Update
      BY <2>1
    <3>2. QED
      BY <3>1 DEF Update
  <2>4. deviceq' \in [1 .. Len(deviceq) -> Update]
    BY <2>1, <2>2, <2>3
  <2>5. QED
    BY <2>2, <2>4, SeqDef
<1>4. overtaken' \in [Slot -> BOOLEAN]
  BY DEF TypeOK, Notify
<1>5. QED
  BY <1>1, <1>2, <1>3, <1>4

\* An update can be appended, and the head removed, without leaving the type.
LEMMA QueueType ==
  ASSUME NEW q \in Seq(Update)
  PROVE  /\ \A s \in Slot, l \in BOOLEAN :
              Append(q, [slot |-> s, live |-> l]) \in Seq(Update)
         /\ q # <<>> => /\ Head(q) \in Update
                        /\ Tail(q) \in Seq(Update)
<1>1. ASSUME NEW s \in Slot, NEW l \in BOOLEAN
      PROVE  Append(q, [slot |-> s, live |-> l]) \in Seq(Update)
  <2>1. [slot |-> s, live |-> l] \in Update
    BY <1>1 DEF Update
  <2>2. QED
    BY <2>1, AppendProperties
<1>2. q # <<>> => Head(q) \in Update /\ Tail(q) \in Seq(Update)
  BY HeadTailProperties
<1>3. QED
  BY <1>1, <1>2

LEMMA InitType == Init => TypeOK
  BY ConnectionsAssumption
     DEF ConnectionsAssumption, Init, TypeOK, Slot, TaskState, Inside, MainState

LEMMA StepType == TypeOK /\ [Next]_vars => TypeOK'
<1> SUFFICES ASSUME TypeOK, [Next]_vars
             PROVE  TypeOK'
  OBVIOUS
<1> USE ConnectionsAssumption DEF ConnectionsAssumption
<1>1. CASE UNCHANGED vars
  BY <1>1 DEF TypeOK, vars, taskVars, mainVars, dataVars
<1>2. CASE LinkDown
  <2>1. CASE main = "boot"
    BY <1>2, <2>1 DEF LinkDown, TypeOK, mainVars
  <2>2. CASE main # "boot"
    <3>1. Notify({tasks[s] : s \in Slot} \ {NULL})
      BY <1>2, <2>2 DEF LinkDown, ClearAll
    <3>2. QED
      BY <1>2, <2>2, <3>1, NotifyType DEF LinkDown, ClearAll, TypeOK, mainVars
  <2>3. QED
    BY <2>1, <2>2
<1>3. CASE GotIp
  BY <1>3 DEF GotIp, TypeOK, taskVars, dataVars
<1>4. CASE User
  BY <1>4 DEF User, EditConfig, SaveConfig, BeginRestart, TypeOK, MainState, taskVars, dataVars
<1>5. CASE SetCallbacks \/ LeaveGui \/ TakeRestart \/ ClearDone \/ SpawnDone \/ DrainDone
  BY <1>5 DEF SetCallbacks, LeaveGui, TakeRestart, BeginRestart, ClearDone, SpawnDone,
              DrainDone, TypeOK, MainState, taskVars, dataVars
<1>6. CASE ClearTest
  BY <1>6 DEF ClearTest, TypeOK, MainState, Slot, taskVars, dataVars
<1>7. CASE ClearNotify
  BY <1>7, NotifyType DEF ClearNotify, TypeOK, MainState
<1>8. CASE ClearForget
  BY <1>8 DEF ClearForget, TypeOK, MainState, Slot, dataVars
<1>9. CASE Spawn
  <2>1. fresh' \in [Slot -> BOOLEAN]
    BY <1>9 DEF Spawn, TypeOK
  <2>2. /\ pc' \in [Task -> TaskState] /\ home' \in [Task -> Slot]
        /\ tasks' \in [Slot -> Task \cup {NULL}]
    <3>1. cur \in Slot
      BY <1>9 DEF Spawn, TypeOK, Slot
    <3>2. CASE CreateTask(cur)
      <4>1. CASE UNCHANGED <<pc, home, tasks>>
        BY <4>1 DEF TypeOK
      <4>2. ASSUME NEW t \in Task,
                   pc' = [pc EXCEPT ![t] = "start"],
                   home' = [home EXCEPT ![t] = cur],
                   tasks' = [tasks EXCEPT ![cur] = t]
            PROVE  /\ pc' \in [Task -> TaskState] /\ home' \in [Task -> Slot]
                   /\ tasks' \in [Slot -> Task \cup {NULL}]
        BY <3>1, <4>2 DEF TypeOK, TaskState
      <4>3. QED
        BY <3>2, <4>1, <4>2 DEF CreateTask
    <3>3. CASE UNCHANGED <<pc, home, tasks>>
      BY <3>3 DEF TypeOK
    <3>4. QED
      BY <1>9, <3>2, <3>3 DEF Spawn
  <2>3. QED
    BY <1>9, <2>1, <2>2 DEF Spawn, TypeOK
<1>10. CASE Drain
  BY <1>10, QueueType DEF Drain, TypeOK, Update, taskVars, mainVars
<1>11. ASSUME NEW t \in Task, DeviceTask(t)
       PROVE  TypeOK'
  <2>1. CASE \/ EnterGate(t) \/ Check(t) \/ OpenSocket(t) \/ Connect(t)
             \/ Retry(t) \/ Settle(t) \/ Poll(t) \/ Sleep(t)
    <3>1. pc' \in [Task -> TaskState]
      BY <2>1 DEF EnterGate, Check, OpenSocket, Connect, Retry, Settle, Poll, Sleep, Goto,
                  TypeOK, TaskState, Inside
    <3>2. gate' \in [Slot -> BOOLEAN]
      BY <2>1 DEF EnterGate, Check, OpenSocket, Connect, Retry, Settle, Poll, Sleep, TypeOK
    <3>3. leaked' \in Nat
      BY <2>1 DEF EnterGate, Check, OpenSocket, Connect, Retry, Settle, Poll, Sleep, TypeOK
    <3>4. TaskOnly /\ UNCHANGED <<deviceq, late>>
      BY <2>1 DEF EnterGate, Check, OpenSocket, Connect, Retry, Settle, Poll, Sleep
    <3>5. QED
      BY <3>1, <3>2, <3>3, <3>4 DEF TaskOnly, mainVars, TypeOK
  <2>2. ASSUME Send(t)
        PROVE  deviceq' \in Seq(Update) /\ late' \in [Task -> Nat]
    <3>1. late' \in [Task -> Nat]
      BY <2>2 DEF Send, TypeOK
    <3>2. home[t] \in Slot /\ (~notified[t]) \in BOOLEAN
      BY DEF TypeOK
    <3>3. deviceq' \in Seq(Update)
      BY <2>2, <3>2, QueueType DEF Send, TypeOK
    <3>4. QED
      BY <3>1, <3>3
  <2>3. CASE SendNotOk(t)
    BY <2>3, <2>2 DEF SendNotOk, Goto, TaskOnly, TypeOK, TaskState, Inside, mainVars
  <2>4. CASE Report(t)
    BY <2>4, <2>2 DEF Report, Goto, TaskOnly, TypeOK, TaskState, Inside, mainVars
  <2>5. CASE End(t)
    BY <2>5 DEF End, Emptied, TypeOK, TaskState, Inside, Slot, mainVars
  <2>6. QED
    BY <1>11, <2>1, <2>3, <2>4, <2>5 DEF DeviceTask
<1>12. QED
  BY <1>1, <1>2, <1>3, <1>4, <1>5, <1>6, <1>7, <1>8, <1>9, <1>10, <1>11
     DEF Next, EventTask, MainLoop

\* Every variable keeps to its type, whatever the sizes of the tables.
THEOREM TypeCorrect == Spec => []TypeOK
  BY InitType, StepType, PTL DEF Spec

-----------------------------------------------------------------------------
\* A task that only moves along its own loop does not disturb the table.
LEMMA TableFrame ==
  ASSUME TypeOK, TableInv,
         UNCHANGED <<tasks, home, notified, main, cur, handle>>,
         \A u \in Task : Alive(u)' <=> Alive(u),
         LeavesOnRequest'
  PROVE  TableInv'
<1>1. \A u \in Task : Live(u)' <=> Live(u)
  BY DEF Live
<1>2. \A s \in Slot : tasks[s] # NULL => tasks[s] \in Task
  BY DEF TypeOK
<1>3. QED
  BY <1>1, <1>2 DEF TableInv, OneLiveTask, RecordedTask, Walk

LEMMA TableInit == Init => TableInv
  BY ConnectionsAssumption
     DEF ConnectionsAssumption, Init, TableInv, OneLiveTask, RecordedTask, Walk, LeavesOnRequest, Live, Alive, Slot

LEMMA TableStep == TypeOK /\ TypeOK' /\ TableInv /\ [Next]_vars => TableInv'
<1> SUFFICES ASSUME TypeOK, TypeOK', TableInv, [Next]_vars
             PROVE  TableInv'
  OBVIOUS
<1> USE ConnectionsAssumption DEF ConnectionsAssumption
<1>1. CASE UNCHANGED vars
  BY <1>1, TableFrame DEF vars, taskVars, mainVars, Alive, TableInv, LeavesOnRequest
<1>2. CASE LinkDown
  <2>1. CASE main = "boot"
    BY <1>2, <2>1, TableFrame DEF LinkDown, mainVars, Alive, TableInv, LeavesOnRequest
  <2>2. CASE main # "boot"
    <3>1. /\ \A s \in Slot : tasks'[s] = NULL
          /\ UNCHANGED <<pc, home, main, cur, handle>>
      BY <1>2, <2>2 DEF LinkDown, ClearAll, mainVars
    <3>2. \A t \in Task : notified'[t] <=>
             notified[t] \/ (Alive(t) /\ \E s \in Slot : tasks[s] = t)
      <4>1. notified' = [t \in Task |-> notified[t] \/
                          (t \in {tasks[s] : s \in Slot} \ {NULL} /\ pc[t] # "free")]
        BY <1>2, <2>2 DEF LinkDown, ClearAll, Notify
      <4>2. \A t \in Task : notified'[t] =
              (notified[t] \/ (t \in {tasks[s] : s \in Slot} \ {NULL} /\ pc[t] # "free"))
        BY <4>1, Zenon
      <4>3. \A t \in Task : t # NULL
        OBVIOUS
      <4>4. QED
        BY <4>2, <4>3 DEF Alive
    <3>3. \A t \in Task : ~Live(t)'
      <4> SUFFICES ASSUME NEW t \in Task, Live(t)'
                   PROVE  FALSE
        OBVIOUS
      <4>1. Live(t) /\ ~notified'[t]
        BY <3>1, <3>2 DEF Live, Alive
      <4>2. tasks[home[t]] = t /\ home[t] \in Slot
        BY <4>1 DEF TableInv, OneLiveTask, TypeOK
      <4>3. QED
        BY <3>2, <4>1, <4>2 DEF Live
    <3>4. QED
      BY <3>1, <3>2, <3>3 DEF TableInv, OneLiveTask, RecordedTask, Walk, LeavesOnRequest, Live, Alive, TypeOK
  <2>3. QED
    BY <2>1, <2>2
<1>3. CASE GotIp \/ EditConfig
  BY <1>3, TableFrame DEF GotIp, EditConfig, taskVars, Alive, TableInv, LeavesOnRequest
<1>4. CASE SetCallbacks \/ LeaveGui \/ Drain \/ DrainDone
  BY <1>4 DEF SetCallbacks, LeaveGui, Drain, DrainDone, taskVars, mainVars,
              TableInv, OneLiveTask, RecordedTask, Walk, LeavesOnRequest, Live, Alive
<1>5. CASE SaveConfig \/ TakeRestart
  BY <1>5 DEF SaveConfig, TakeRestart, BeginRestart, taskVars, TableInv, OneLiveTask,
              RecordedTask, Walk, LeavesOnRequest, Live, Alive, Slot
<1>6. CASE ClearTest
  BY <1>6 DEF ClearTest, taskVars, TableInv, OneLiveTask, RecordedTask, Walk, LeavesOnRequest,
              Live, Alive, Slot, TypeOK
<1>7. CASE ClearNotify
  <2>1. /\ handle \in Task /\ cur \in Slot
        /\ tasks[cur] \in {handle, NULL}
        /\ tasks[cur] = handle \/ ~Live(handle)
    BY <1>7 DEF ClearNotify, TableInv, Walk, TypeOK
  <2>2. /\ UNCHANGED <<tasks, pc, home, cur, handle>> /\ main' = "forget"
        /\ \A t \in Task : notified'[t] <=> notified[t] \/ (t = handle /\ Alive(t))
    BY <1>7 DEF ClearNotify, Notify, Alive, TypeOK
  <2>3. \A t \in Task : Live(t)' <=> Live(t) /\ t # handle
    BY <2>1, <2>2 DEF Live, Alive
  <2>4. OneLiveTask'
    BY <2>2, <2>3 DEF TableInv, OneLiveTask
  <2>5. RecordedTask'
    <3> SUFFICES ASSUME NEW s \in Slot, tasks[s] # NULL
                 PROVE  \/ Live(tasks[s])' /\ home[tasks[s]] = s
                        \/ cur = s /\ handle = tasks[s]
      BY <2>2 DEF RecordedTask
    <3>1. Live(tasks[s]) /\ home[tasks[s]] = s /\ tasks[s] \in Task
      BY <1>7 DEF ClearNotify, TableInv, RecordedTask, TypeOK
    <3>2. CASE tasks[s] # handle
      BY <2>2, <2>3, <3>1, <3>2
    <3>3. CASE tasks[s] = handle
      <4>1. tasks[cur] = handle
        BY <2>1, <3>1, <3>3
      <4>2. home[handle] = cur
        BY <1>7, <2>1, <4>1, <3>3 DEF ClearNotify, TableInv, RecordedTask
      <4>3. QED
        BY <3>1, <3>3, <4>2
    <3>4. QED
      BY <3>2, <3>3
  <2>6. Walk'
    BY <2>1, <2>2, <2>3, <1>7 DEF TableInv, Walk, Alive, ClearNotify, TypeOK
  <2>7. LeavesOnRequest'
    BY <2>2, <1>7 DEF TableInv, LeavesOnRequest, Alive
  <2>8. QED
    BY <2>4, <2>5, <2>6, <2>7 DEF TableInv
<1>8. CASE ClearForget
  <2>1. /\ cur \in Slot /\ cur' = cur + 1 /\ main = "forget" /\ main' = "clear"
        /\ UNCHANGED <<pc, home, notified>>
        /\ tasks' = [tasks EXCEPT ![cur] = NULL]
    BY <1>8 DEF ClearForget, TypeOK
  <2>2. ~Live(handle) /\ tasks[cur] \in {handle, NULL} /\ handle \in Task
    BY <2>1 DEF TableInv, Walk
  <2>3. \A t \in Task : Live(t)' <=> Live(t)
    BY <2>1 DEF Live, Alive
  <2>4. OneLiveTask'
    BY <2>1, <2>2, <2>3 DEF TableInv, OneLiveTask, TypeOK
  <2>5. RecordedTask'
    BY <2>1, <2>2, <2>3 DEF TableInv, RecordedTask, TypeOK
  <2>6. Walk'
    BY <2>1, <2>2 DEF TableInv, Walk, Alive, TypeOK, Slot
  <2>7. QED
    BY <2>1, <2>4, <2>5, <2>6 DEF TableInv, LeavesOnRequest
<1>9. CASE ClearDone \/ SpawnDone
  <2>1. /\ UNCHANGED <<tasks, pc, home, notified, handle>>
        /\ main \notin {"notify", "forget"} /\ main' \notin {"clear", "notify", "forget"}
        /\ main' = "spawn" => \A s \in Slot : tasks[s] = NULL
    BY <1>9 DEF ClearDone, SpawnDone, taskVars, TableInv, Walk, Slot, TypeOK
  <2>2. QED
    BY <2>1 DEF TableInv, OneLiveTask, RecordedTask, Walk, LeavesOnRequest, Live, Alive
<1>10. CASE Spawn
  <2>1. /\ cur \in Slot /\ cur' = cur + 1 /\ main = "spawn" /\ main' = "spawn"
        /\ UNCHANGED <<notified, handle>>
    BY <1>10 DEF Spawn, TypeOK, Slot
  <2>2. CASE UNCHANGED <<pc, home, tasks>>
    BY <2>1, <2>2 DEF TableInv, OneLiveTask, RecordedTask, Walk, LeavesOnRequest, Live, Alive, TypeOK, Slot
  <2>3. ASSUME NEW t \in Task, pc[t] = "free",
               pc' = [pc EXCEPT ![t] = "start"],
               home' = [home EXCEPT ![t] = cur],
               tasks' = [tasks EXCEPT ![cur] = t]
        PROVE  TableInv'
    <3>1. ~Alive(t) /\ ~notified[t] /\ tasks[cur] = NULL
      BY <2>1, <2>3 DEF TableInv, Walk, Alive, TypeOK, Slot
    <3>2. \A u \in Task : Live(u)' <=> Live(u) \/ u = t
      BY <2>1, <2>3, <3>1 DEF Live, Alive, TypeOK
    <3>3. OneLiveTask'
      BY <2>1, <2>3, <3>1, <3>2 DEF TableInv, OneLiveTask, TypeOK
    <3>4. RecordedTask'
      BY <2>1, <2>3, <3>1, <3>2 DEF TableInv, RecordedTask, TypeOK, Live
    <3>5. Walk'
      BY <2>1, <2>3, <3>1 DEF TableInv, Walk, Alive, TypeOK, Slot
    <3>6. LeavesOnRequest'
      BY <2>1, <2>3 DEF TableInv, LeavesOnRequest, TypeOK
    <3>7. QED
      BY <3>3, <3>4, <3>5, <3>6 DEF TableInv
  <2>4. QED
    BY <1>10, <2>2, <2>3 DEF Spawn, CreateTask
<1>11. ASSUME NEW t \in Task, DeviceTask(t)
       PROVE  TableInv'
  <2>1. CASE End(t)
    <3>1. /\ pc[t] = "end" /\ UNCHANGED <<tasks, main, cur, handle>>
          /\ pc' = [u \in Task |-> CASE u = t                 -> "free"
                                     [] u \in Waiters(home[t]) -> "check"
                                     [] OTHER                 -> pc[u]]
          /\ home' = [home EXCEPT ![t] = 0]
          /\ notified' = [notified EXCEPT ![t] = FALSE]
      BY <2>1 DEF End, mainVars
    <3>2. ~Alive(t)' /\ ~notified'[t]
      <4>1. pc'[t] = "free"
        BY <3>1 DEF Waiters
      <4>2. notified'[t] = FALSE
        BY <3>1 DEF TypeOK
      <4>3. QED
        BY <4>1, <4>2 DEF Alive
    <3>3. \A u \in Task \ {t} : /\ Alive(u)' <=> Alive(u)
                                /\ (pc[u] = "end")' => pc[u] = "end"
                                /\ notified'[u] = notified[u] /\ home'[u] = home[u]
      BY <3>1 DEF TypeOK, Alive, Waiters
    <3>4. ~Live(t) /\ ~Live(t)'
      BY <3>1, <3>2 DEF TableInv, LeavesOnRequest, Live
    <3>5. \A u \in Task : Live(u)' => Live(u) /\ u # t
      BY <3>3, <3>4 DEF Live
    <3>6. \A u \in Task : Live(u) => Live(u)' /\ u # t /\ home'[u] = home[u]
      BY <3>3, <3>4 DEF Live
    <3>7. OneLiveTask'
      BY <3>1, <3>3, <3>5 DEF TableInv, OneLiveTask
    <3>8. RecordedTask'
      BY <3>1, <3>6 DEF TableInv, RecordedTask, TypeOK
    <3>9. Walk'
      BY <3>1, <3>2, <3>3, <3>5 DEF TableInv, Walk
    <3>10. LeavesOnRequest'
      BY <3>1, <3>2, <3>3 DEF TableInv, LeavesOnRequest, Alive
    <3>11. QED
      BY <3>7, <3>8, <3>9, <3>10 DEF TableInv
  <2>2. CASE ~End(t)
    <3>1. UNCHANGED <<tasks, home, notified, main, cur, handle>>
      BY <1>11, <2>2 DEF DeviceTask, EnterGate, Check, SendNotOk, OpenSocket, Connect, Retry,
           Settle, Poll, Report, Sleep, TaskOnly, mainVars
    <3>2. PICK next \in TaskState \ {"free"} :
            /\ pc[t] # "free" /\ Goto(t, next)
            /\ next = "end" => notified[t]
      <4> USE DEF TaskState, Inside
      <4>1. CASE EnterGate(t)
        BY <4>1 DEF EnterGate
      <4>2. CASE Check(t)
        BY <4>2 DEF Check
      <4>3. CASE SendNotOk(t)
        BY <4>3 DEF SendNotOk
      <4>4. CASE OpenSocket(t)
        BY <4>4 DEF OpenSocket
      <4>5. CASE Report(t)
        BY <4>5 DEF Report
      <4>6. CASE Connect(t) \/ Poll(t)
        BY <4>6 DEF Connect, Poll
      <4>7. CASE Retry(t)
        BY <4>7 DEF Retry
      <4>8. CASE Settle(t)
        BY <4>8 DEF Settle
      <4>9. CASE Sleep(t)
        BY <4>9 DEF Sleep
      <4>10. QED
        BY <1>11, <2>2, <4>1, <4>2, <4>3, <4>4, <4>5, <4>6, <4>7, <4>8, <4>9 DEF DeviceTask
    <3>3. (\A u \in Task : Alive(u)' <=> Alive(u)) /\ LeavesOnRequest'
      BY <3>1, <3>2 DEF Goto, Alive, TableInv, LeavesOnRequest, TypeOK
    <3>4. QED
      BY <3>1, <3>3, TableFrame
  <2>3. QED
    BY <2>1, <2>2
<1>12. QED
  BY <1>1, <1>2, <1>3, <1>4, <1>5, <1>6, <1>7, <1>8, <1>9, <1>10, <1>11
     DEF Next, EventTask, User, MainLoop

\* No slot ever has two tasks that were not told to stop, and none of them is
\* missing from tasks[]: the table and the tasks agree in spite of the race
\* between connections_restart and the callback of a lost link.
THEOREM TableCorrect == Spec => []TableInv
  BY TypeCorrect, TableInit, TableStep, PTL DEF Spec

-----------------------------------------------------------------------------
\* The fields the gates depend on, as a step of a task other than End, EnterGate
\* and Spawn leaves them: no one comes or goes in front of or behind a gate.
LEMMA GateFrame ==
  ASSUME TypeOK, GateNotLost, NoMissedWakeup, UNCHANGED gate,
         \A u \in Task : pc[u] \in Inside => pc'[u] \in Inside /\ home'[u] = home[u],
         \A u \in Task : pc'[u] = "wait" => pc[u] = "wait" /\ home'[u] = home[u]
  PROVE  (GateNotLost /\ NoMissedWakeup)'
  BY DEF GateNotLost, NoMissedWakeup

LEMMA GateInit == Init => GateNotLost /\ NoMissedWakeup
  BY DEF Init, GateNotLost, NoMissedWakeup

LEMMA GateStep ==
  TypeOK /\ GateNotLost /\ NoMissedWakeup /\ [Next]_vars => (GateNotLost /\ NoMissedWakeup)'
<1> SUFFICES ASSUME TypeOK, GateNotLost, NoMissedWakeup, [Next]_vars
             PROVE  (GateNotLost /\ NoMissedWakeup)'
  OBVIOUS
<1>1. CASE UNCHANGED <<gate, pc, home>>
  BY <1>1, GateFrame
<1>2. CASE Spawn
  <2>1. CASE UNCHANGED <<gate, pc, home>>
    BY <2>1, <1>1
  <2>2. ASSUME NEW t \in Task, pc[t] = "free",
               pc' = [pc EXCEPT ![t] = "start"],
               home' = [home EXCEPT ![t] = cur]
        PROVE  (GateNotLost /\ NoMissedWakeup)'
    <3>1. /\ \A u \in Task : pc[u] \in Inside => pc'[u] \in Inside /\ home'[u] = home[u]
          /\ \A u \in Task : pc'[u] = "wait" => pc[u] = "wait" /\ home'[u] = home[u]
      BY <2>2 DEF TypeOK, Inside
    <3>2. QED
      BY <1>2, <3>1, GateFrame DEF Spawn
  <2>3. QED
    BY <1>2, <2>1, <2>2 DEF Spawn, CreateTask
<1>3. ASSUME NEW t \in Task, EnterGate(t)
      PROVE  (GateNotLost /\ NoMissedWakeup)'
  <2>1. /\ pc[t] = "start" /\ home[t] \in Slot /\ UNCHANGED home
        /\ pc' = [pc EXCEPT ![t] = IF gate[home[t]] THEN "check" ELSE "wait"]
        /\ gate' = [gate EXCEPT ![home[t]] = FALSE]
    BY <1>3 DEF EnterGate, Goto, TaskOnly, TypeOK
  <2>2. GateNotLost'
    <3>1. ~gate[home[t]] => \E u \in Task \ {t} : pc[u] \in Inside /\ home[u] = home[t]
      BY <2>1 DEF GateNotLost, Inside
    <3>2. gate[home[t]] => pc'[t] \in Inside
      BY <2>1 DEF TypeOK, Inside
    <3>3. \A s \in Slot \ {home[t]} : gate'[s] = gate[s]
      BY <2>1 DEF TypeOK
    <3>4. \A u \in Task \ {t} : pc'[u] = pc[u]
      BY <2>1 DEF TypeOK
    <3>5. ASSUME NEW s \in Slot \ {home[t]}, ~gate[s]
          PROVE  \E u \in Task \ {t} : pc[u] \in Inside /\ home[u] = s
      BY <3>5 DEF GateNotLost
    <3>6. QED
      BY <2>1, <3>1, <3>2, <3>3, <3>4, <3>5 DEF GateNotLost
  <2>3. NoMissedWakeup'
    BY <2>1 DEF NoMissedWakeup, TypeOK
  <2>4. QED
    BY <2>2, <2>3
<1>4. ASSUME NEW t \in Task, End(t)
      PROVE  (GateNotLost /\ NoMissedWakeup)'
  <2>1. /\ pc[t] = "end" /\ home[t] \in Slot /\ t \notin Waiters(home[t])
        /\ home' = [home EXCEPT ![t] = 0]
        /\ gate' = [gate EXCEPT ![home[t]] = (Waiters(home[t]) = {})]
    BY <1>4 DEF End, TypeOK, Waiters
  <2>2. /\ pc'[t] = "free"
        /\ \A u \in Waiters(home[t]) : pc'[u] = "check" /\ home'[u] = home[t]
        /\ \A u \in Task \ ({t} \cup Waiters(home[t])) : pc'[u] = pc[u] /\ home'[u] = home[u]
    BY <1>4, <2>1 DEF End, TypeOK, Waiters
  <2>3. gate'[home[t]] <=> Waiters(home[t]) = {}
    BY <2>1 DEF TypeOK
  <2>4. \A s \in Slot \ {home[t]} : gate'[s] = gate[s]
    BY <2>1 DEF TypeOK
  <2>5. GateNotLost'
    <3>1. ~gate'[home[t]] => \E u \in Task : pc'[u] \in Inside /\ home'[u] = home[t]
      BY <2>2, <2>3 DEF Inside, Waiters
    <3>2. ASSUME NEW s \in Slot \ {home[t]}, ~gate[s]
          PROVE  \E u \in Task : pc'[u] \in Inside /\ home'[u] = s
      <4>1. PICK u \in Task : pc[u] \in Inside /\ home[u] = s
        BY <3>2 DEF GateNotLost
      <4>2. u # t /\ u \notin Waiters(home[t])
        BY <3>2, <4>1 DEF Waiters
      <4>3. QED
        BY <2>2, <4>1, <4>2
    <3>3. QED
      BY <2>4, <3>1, <3>2 DEF GateNotLost
  <2>6. NoMissedWakeup'
    <3> SUFFICES ASSUME NEW u \in Task, pc'[u] = "wait"
                 PROVE  ~gate'[home'[u]]
      BY DEF NoMissedWakeup
    <3>1. u # t /\ u \notin Waiters(home[t])
      BY <2>2
    <3>2. pc[u] = "wait" /\ home'[u] = home[u] /\ home[u] \in Slot /\ home[u] # home[t]
      BY <2>2, <3>1 DEF Waiters, TypeOK
    <3>3. QED
      BY <2>4, <3>2 DEF NoMissedWakeup
  <2>7. QED
    BY <2>5, <2>6
<1>5. ASSUME NEW t \in Task, DeviceTask(t), ~EnterGate(t), ~End(t)
      PROVE  (GateNotLost /\ NoMissedWakeup)'
  <2>1. UNCHANGED <<gate, home>>
    BY <1>5 DEF DeviceTask, Check, SendNotOk, OpenSocket, Connect, Retry, Settle, Poll,
                Report, Sleep, TaskOnly
  <2>2. \E next \in Inside : Goto(t, next)
    <3> USE DEF Inside
    <3>1. CASE Check(t)
      BY <3>1 DEF Check
    <3>2. CASE SendNotOk(t)
      BY <3>2 DEF SendNotOk
    <3>3. CASE OpenSocket(t)
      BY <3>3 DEF OpenSocket
    <3>4. CASE Report(t)
      BY <3>4 DEF Report
    <3>5. CASE Connect(t) \/ Poll(t)
      BY <3>5 DEF Connect, Poll
    <3>6. CASE Retry(t)
      BY <3>6 DEF Retry
    <3>7. CASE Settle(t)
      BY <3>7 DEF Settle
    <3>8. CASE Sleep(t)
      BY <3>8 DEF Sleep
    <3>9. QED
      BY <1>5, <3>1, <3>2, <3>3, <3>4, <3>5, <3>6, <3>7, <3>8 DEF DeviceTask
  <2>3. /\ \A u \in Task : pc[u] \in Inside => pc'[u] \in Inside
        /\ \A u \in Task : pc'[u] = "wait" => pc[u] = "wait"
    BY <2>2 DEF Goto, TypeOK, Inside
  <2>4. QED
    BY <2>1, <2>3, GateFrame
<1>6. CASE EventTask \/ User \/ (MainLoop /\ ~Spawn)
  <2>1. UNCHANGED <<gate, pc, home>>
    BY <1>6 DEF EventTask, LinkDown, GotIp, User, EditConfig, SaveConfig, MainLoop, SetCallbacks,
         LeaveGui, TakeRestart, ClearTest, ClearNotify, ClearForget, ClearDone, SpawnDone, Drain,
         DrainDone, taskVars, mainVars
  <2>2. QED
    BY <2>1, <1>1
<1>7. QED
  BY <1>1, <1>2, <1>3, <1>4, <1>5, <1>6 DEF Next, vars, taskVars

\* A shut gate always has a task behind it that will open it, and nobody waits
\* in front of an open one, however many restarts follow each other.
THEOREM GateCorrect == Spec => [](GateNotLost /\ NoMissedWakeup)
  BY TypeCorrect, GateInit, GateStep, PTL DEF Spec

\* In particular the bit that a leaving task sets always wakes whoever waits for it.
THEOREM WakeupCorrect == Spec => []NoMissedWakeup
  BY GateCorrect, PTL

-----------------------------------------------------------------------------
\* Nobody goes past a gate, and nobody of a slot that was not overtaken is told to
\* stop in front of one.
LEMMA ApartFrame ==
  ASSUME TypeOK, ApartInv, UNCHANGED gate,
         \A s \in Slot : ~overtaken'[s] => ~overtaken[s],
         \A u \in Task : pc'[u] \in Inside => pc[u] \in Inside /\ home'[u] = home[u],
         \A s \in Slot, u \in Task :
           ~overtaken'[s] /\ InFront(u, s)' => ~notified'[u]
  PROVE  ApartInv'
  BY DEF ApartInv, Apart, OneInside

\* Whoever is in front of a gate when told to stop makes the slot overtaken.
LEMMA NotifyApart ==
  ASSUME TypeOK, ApartInv, NEW T, Notify(T), UNCHANGED <<gate, pc, home>>
  PROVE  ApartInv'
<1>1. \A u \in Task : notified'[u] = (notified[u] \/ (u \in T /\ pc[u] # "free"))
  <2>1. notified' = [u \in Task |-> notified[u] \/ (u \in T /\ pc[u] # "free")]
    BY DEF Notify
  <2>2. QED
    BY <2>1, Zenon
<1>2. \A s \in Slot : overtaken'[s] = (overtaken[s] \/ \E t \in T : InFront(t, s))
  <2>1. overtaken' = [s \in Slot |-> overtaken[s] \/ \E t \in T : InFront(t, s)]
    BY DEF Notify
  <2>2. QED
    BY <2>1, Zenon
<1>3. ASSUME NEW s \in Slot, NEW u \in Task, ~overtaken'[s], InFront(u, s)'
      PROVE  ~notified'[u]
  <2>1. ~overtaken[s] /\ InFront(u, s) /\ u \notin T
    BY <1>2, <1>3 DEF InFront
  <2>2. ~notified[u]
    BY <2>1 DEF ApartInv
  <2>3. QED
    BY <1>1, <2>1, <2>2, Zenon
<1>4. \A s \in Slot : ~overtaken'[s] => ~overtaken[s]
  BY <1>2
<1>5. QED
  BY <1>3, <1>4, ApartFrame

LEMMA ApartInit == Init => ApartInv
  BY DEF Init, ApartInv, Apart, OneInside, InFront, Inside

LEMMA ApartEnter ==
  ASSUME TypeOK, ApartInv, NEW t \in Task, EnterGate(t)
  PROVE  ApartInv'
<1>1. /\ pc[t] = "start" /\ home[t] \in Slot /\ UNCHANGED <<home, notified, overtaken>>
      /\ pc' = [pc EXCEPT ![t] = IF gate[home[t]] THEN "check" ELSE "wait"]
      /\ gate' = [gate EXCEPT ![home[t]] = FALSE]
  BY DEF EnterGate, Goto, TaskOnly, TypeOK
<1>2. /\ \A u \in Task \ {t} : pc'[u] = pc[u]
      /\ pc'[t] = IF gate[home[t]] THEN "check" ELSE "wait"
      /\ \A s \in Slot \ {home[t]} : gate'[s] = gate[s]
      /\ gate'[home[t]] = FALSE
  BY <1>1 DEF TypeOK
<1>3. pc[t] \notin Inside /\ "wait" \notin Inside
  BY <1>1 DEF Inside
<1>4. ASSUME NEW s \in Slot, ~overtaken[s]
      PROVE  /\ OneInside(s)'
             /\ \A u \in Task : InFront(u, s)' => ~notified[u]
             /\ gate'[s] => \A u \in Task : pc'[u] \in Inside => home[u] # s
  <2>1. /\ OneInside(s)
        /\ \A u \in Task : InFront(u, s) => ~notified[u]
        /\ gate[s] => \A u \in Task : pc[u] \in Inside => home[u] # s
    BY <1>4, Zenon DEF ApartInv, Apart, OneInside
  <2>2. \A u \in Task : InFront(u, s)' => InFront(u, s)
    BY <1>1, <1>2 DEF InFront
  <2>3. CASE s = home[t]
    BY <1>1, <1>2, <1>3, <2>1, <2>2, <2>3 DEF OneInside
  <2>4. CASE s # home[t]
    BY <1>1, <1>2, <1>3, <2>1, <2>2, <2>4 DEF OneInside
  <2>5. QED
    BY <2>3, <2>4
<1>5. QED
  BY <1>1, <1>4 DEF ApartInv, Apart, OneInside

\* The waiters a task wakes are not told to stop, so there is one at most.
LEMMA ApartEnd ==
  ASSUME TypeOK, ApartInv, OneLiveTask, NEW t \in Task, End(t)
  PROVE  ApartInv'
<1> DEFINE woken == Waiters(home[t])
<1>1. /\ pc[t] = "end" /\ home[t] \in Slot /\ t \notin woken /\ pc[t] \in Inside
      /\ gate' = [gate EXCEPT ![home[t]] = (woken = {})]
  BY DEF End, TypeOK, Waiters, Inside
<1>2. /\ pc'[t] = "free"
      /\ \A u \in woken : pc'[u] = "check"
      /\ \A u \in Task \ ({t} \cup woken) : pc'[u] = pc[u]
      /\ \A u \in Task \ {t} : home'[u] = home[u] /\ notified'[u] = notified[u]
  BY <1>1 DEF End, TypeOK, Waiters
<1>3. /\ \A s \in Slot \ {home[t]} : gate'[s] = gate[s] /\ overtaken'[s] = overtaken[s]
      /\ gate'[home[t]] => woken = {}
  BY <1>1 DEF End, Emptied, TypeOK
<1>4. overtaken'[home[t]] = (overtaken[home[t]] /\ \E u \in Task \ {t} : Alive(u) /\ home[u] = home[t])
  <2>1. overtaken \in [Slot -> BOOLEAN]
    BY DEF TypeOK
  <2>2. overtaken' = [overtaken EXCEPT ![home[t]] =
                        @ /\ \E u \in Task \ {t} : Alive(u) /\ home[u] = home[t]]
    BY DEF End, Emptied, Alive
  <2>3. QED
    BY <1>1, <2>1, <2>2, Zenon
<1>5. \A u \in woken : u \in Task /\ pc[u] = "wait" /\ home[u] = home[t] /\ InFront(u, home[t])
  BY DEF Waiters, InFront
<1>6. "free" \notin Inside /\ "wait" \notin Inside
  BY DEF Inside
<1>7. \A s \in Slot, u \in Task : InFront(u, s)' => u # t /\ InFront(u, s)
  BY <1>2 DEF InFront
<1>8. ASSUME NEW s \in Slot, ~overtaken'[s]
      PROVE  /\ OneInside(s)'
             /\ \A u \in Task : InFront(u, s)' => ~notified'[u]
             /\ gate'[s] => \A u \in Task : pc'[u] \in Inside => home'[u] # s
  <2>1. CASE s # home[t]
    <3>1. \A u \in Task : pc'[u] \in Inside /\ home'[u] = s => pc[u] \in Inside /\ home[u] = s
      BY <1>2, <1>5, <1>6, <2>1
    <3>2. ~overtaken[s] /\ gate'[s] = gate[s]
      BY <1>3, <1>8, <2>1
    <3>3. \A u \in Task : InFront(u, s)' => ~notified'[u]
      BY <1>2, <1>7, <3>2 DEF ApartInv
    <3>4. OneInside(s)'
      BY <3>1, <3>2, Zenon DEF ApartInv, Apart, OneInside
    <3>5. gate'[s] => \A u \in Task : pc'[u] \in Inside => home'[u] # s
      BY <3>1, <3>2, Zenon DEF ApartInv
    <3>6. QED
      BY <3>3, <3>4, <3>5, Zenon
  <2>2. CASE s = home[t] /\ ~overtaken[s]
    <3>1. \A u \in Task : InFront(u, s) => ~notified[u]
      BY <2>2 DEF ApartInv
    <3>2. \A u \in woken : tasks[home[t]] = u
      BY <1>5, <2>2, <3>1 DEF OneLiveTask, Live, Alive
    <3>3. \A u \in Task : pc[u] \in Inside /\ home[u] = s => u = t
      BY <1>1, <2>2 DEF ApartInv, Apart, OneInside
    <3>4. \A u \in Task : pc'[u] \in Inside /\ home'[u] = s => u \in woken
      BY <1>2, <1>6, <3>3
    <3>5. OneInside(s)'
      BY <3>2, <3>4, Zenon DEF OneInside
    <3>6. \A u \in Task : InFront(u, s)' => ~notified'[u]
      BY <1>2, <1>7, <3>1
    <3>7. gate'[s] => \A u \in Task : pc'[u] \in Inside => home'[u] # s
      BY <1>3, <2>2, <3>4
    <3>8. QED
      BY <3>5, <3>6, <3>7, Zenon
  <2>3. CASE s = home[t] /\ overtaken[s]
    <3>1. \A u \in Task \ {t} : home[u] = s => pc[u] = "free"
      BY <1>4, <1>8, <2>3 DEF Alive
    <3>2. \A u \in Task : home'[u] = s => pc'[u] = "free"
      BY <1>2, <1>5, <3>1
    <3>3. \A u \in Task : ~InFront(u, s)' /\ ~(pc'[u] \in Inside /\ home'[u] = s)
      BY <1>6, <3>2 DEF InFront
    <3>4. QED
      BY <3>3, Zenon DEF OneInside
  <2>4. QED
    BY <2>1, <2>2, <2>3
<1>9. QED
  BY <1>8 DEF ApartInv, Apart, OneInside

LEMMA ApartStep ==
  TypeOK /\ OneLiveTask /\ Walk /\ ApartInv /\ [Next]_vars => ApartInv'
<1> SUFFICES ASSUME TypeOK, OneLiveTask, Walk, ApartInv, [Next]_vars
             PROVE  ApartInv'
  OBVIOUS
<1>1. CASE UNCHANGED <<gate, pc, home, notified, overtaken>>
  BY <1>1 DEF ApartInv, Apart, OneInside, InFront
<1>2. CASE LinkDown
  <2>1. CASE main = "boot"
    BY <1>2, <2>1, <1>1 DEF LinkDown
  <2>2. CASE main # "boot"
    <3>1. Notify({tasks[s] : s \in Slot} \ {NULL}) /\ UNCHANGED <<gate, pc, home>>
      BY <1>2, <2>2 DEF LinkDown, ClearAll
    <3>2. QED
      BY <3>1, NotifyApart
  <2>3. QED
    BY <2>1, <2>2
<1>3. CASE ClearNotify
  BY <1>3, NotifyApart DEF ClearNotify
<1>4. CASE Spawn
  <2>1. UNCHANGED <<gate, notified, overtaken>>
    BY <1>4 DEF Spawn
  <2>2. CASE UNCHANGED <<pc, home>>
    BY <2>1, <2>2, <1>1
  <2>3. ASSUME NEW t \in Task, pc[t] = "free",
               pc' = [pc EXCEPT ![t] = "start"],
               home' = [home EXCEPT ![t] = cur]
        PROVE  ApartInv'
    <3>1. ~notified[t] /\ "start" \notin Inside
      BY <2>3 DEF Walk, Alive, Inside
    <3>2. /\ pc'[t] = "start"
          /\ \A u \in Task \ {t} : pc'[u] = pc[u] /\ home'[u] = home[u]
      BY <2>3 DEF TypeOK
    <3>3. ASSUME NEW s \in Slot, NEW u \in Task, ~overtaken'[s], InFront(u, s)'
          PROVE  ~notified'[u]
      BY <2>1, <3>1, <3>2, <3>3 DEF ApartInv, InFront
    <3>4. QED
      BY <2>1, <3>1, <3>2, <3>3, ApartFrame
  <2>4. QED
    BY <1>4, <2>2, <2>3 DEF Spawn, CreateTask
<1>5. CASE GotIp \/ User \/ (MainLoop /\ ~Spawn /\ ~ClearNotify)
  <2>1. UNCHANGED <<gate, pc, home, notified, overtaken>>
    BY <1>5 DEF GotIp, User, EditConfig, SaveConfig, MainLoop, SetCallbacks, LeaveGui, TakeRestart,
         ClearTest, ClearForget, ClearDone, SpawnDone, Drain, DrainDone, taskVars, mainVars, dataVars
  <2>2. QED
    BY <2>1, <1>1
<1>6. ASSUME NEW t \in Task, DeviceTask(t), ~EnterGate(t), ~End(t)
      PROVE  ApartInv'
  <2>1. UNCHANGED <<gate, home, notified, overtaken>>
    BY <1>6 DEF DeviceTask, Check, SendNotOk, OpenSocket, Connect, Retry, Settle, Poll,
                Report, Sleep, TaskOnly
  <2>2. pc[t] \in Inside /\ \E next \in Inside : Goto(t, next)
    <3> USE DEF Inside
    <3>1. CASE Check(t)
      BY <3>1 DEF Check
    <3>2. CASE SendNotOk(t) \/ Report(t)
      BY <3>2 DEF SendNotOk, Report
    <3>3. CASE OpenSocket(t)
      BY <3>3 DEF OpenSocket
    <3>4. CASE Connect(t) \/ Poll(t)
      BY <3>4 DEF Connect, Poll
    <3>5. CASE Retry(t)
      BY <3>5 DEF Retry
    <3>6. CASE Settle(t)
      BY <3>6 DEF Settle
    <3>7. CASE Sleep(t)
      BY <3>7 DEF Sleep
    <3>8. QED
      BY <1>6, <3>1, <3>2, <3>3, <3>4, <3>5, <3>6, <3>7 DEF DeviceTask
  <2>3. \A u \in Task : /\ pc'[u] \in Inside <=> pc[u] \in Inside
                        /\ pc'[u] \in {"start", "wait"} <=> pc[u] \in {"start", "wait"}
    BY <2>2 DEF Goto, TypeOK, Inside
  <2>4. \A s \in Slot, u \in Task : InFront(u, s)' <=> InFront(u, s)
    BY <2>1, <2>3 DEF InFront
  <2>5. QED
    BY <2>1, <2>3, <2>4 DEF ApartInv, Apart, OneInside
<1>7. QED
  BY <1>1, <1>2, <1>3, <1>4, <1>5, <1>6, ApartEnter, ApartEnd
     DEF Next, EventTask, DeviceTask, vars, taskVars, dataVars

LEMMA ApartInvariant == Spec => []ApartInv
<1>1. TableInv => OneLiveTask /\ Walk
  BY DEF TableInv
<1>2. QED
  BY TypeCorrect, TableCorrect, ApartInit, ApartStep, <1>1, PTL DEF Spec

\* Unless a restart overtook a task still in front of the gate, no two tasks of a
\* slot are ever past it together, for any number of tasks, restarts and links lost.
THEOREM ApartCorrect == Spec => []Apart
<1>1. ApartInv => Apart
  BY DEF ApartInv
<1>2. QED
  BY ApartInvariant, <1>1, PTL

-----------------------------------------------------------------------------
\* Outside the device tasks nothing moves a task that has been told to stop.
LEMMA LateFrame ==
  ASSUME LateInv, UNCHANGED late,
         \A t \in Task : notified[t] => notified'[t],
         \A t \in Task : pc[t] # "free" => pc'[t] = pc[t]
  PROVE  LateInv'
  BY DEF LateInv

LEMMA NotifyKeeps ==
  ASSUME TypeOK, NEW T, Notify(T)
  PROVE  \A t \in Task : notified[t] => notified'[t]
<1>1. notified' = [t \in Task |-> notified[t] \/ (t \in T /\ pc[t] # "free")]
  BY DEF Notify
<1>2. \A t \in Task : notified'[t] = (notified[t] \/ (t \in T /\ pc[t] # "free"))
  BY <1>1, Zenon
<1>3. QED
  BY <1>2, Zenon

LEMMA LateInit == Init => LateInv
  BY DEF Init, LateInv

LEMMA LateStep == TypeOK /\ LateInv /\ LeavesOnRequest /\ [Next]_vars => LateInv'
<1> SUFFICES ASSUME TypeOK, LateInv, LeavesOnRequest, [Next]_vars
             PROVE  LateInv'
  OBVIOUS
<1>1. CASE UNCHANGED <<late, notified, pc>>
  BY <1>1, LateFrame
<1>2. CASE LinkDown
  <2>1. CASE main = "boot"
    BY <1>2, <2>1, <1>1 DEF LinkDown
  <2>2. CASE main # "boot"
    <3>1. Notify({tasks[s] : s \in Slot} \ {NULL}) /\ UNCHANGED <<late, pc>>
      BY <1>2, <2>2 DEF LinkDown, ClearAll
    <3>2. QED
      BY <3>1, NotifyKeeps, LateFrame
  <2>3. QED
    BY <2>1, <2>2
<1>3. CASE ClearNotify
  BY <1>3, NotifyKeeps, LateFrame DEF ClearNotify
<1>4. CASE Spawn
  <2>1. UNCHANGED <<late, notified>>
    BY <1>4 DEF Spawn
  <2>2. \A t \in Task : pc[t] # "free" => pc'[t] = pc[t]
    BY <1>4 DEF Spawn, CreateTask, TypeOK
  <2>3. QED
    BY <2>1, <2>2, LateFrame
<1>5. CASE GotIp \/ User \/ (MainLoop /\ ~Spawn /\ ~ClearNotify)
  <2>1. UNCHANGED <<late, notified, pc>>
    BY <1>5 DEF GotIp, User, EditConfig, SaveConfig, MainLoop, SetCallbacks, LeaveGui, TakeRestart,
         ClearTest, ClearForget, ClearDone, SpawnDone, Drain, DrainDone, taskVars, mainVars, dataVars
  <2>2. QED
    BY <2>1, <1>1
<1>6. ASSUME NEW t \in Task, DeviceTask(t)
      PROVE  LateInv'
  <2> DEFINE LateOK(u) == \/ late[u] = 0
                          \/ /\ late[u] = 1 /\ notified[u]
                             /\ pc[u] \in {"open", "connect", "retry", "settle", "sleep",
                                           "check", "end"}
  <2>1. ASSUME NEW u \in Task \ {t}
        PROVE  LateOK(u)'
    <3>1. LateOK(u)
      BY DEF LateInv
    <3>2. /\ late'[u] = late[u] /\ (notified[u] => notified'[u])
          /\ pc'[u] = pc[u] \/ pc[u] = "wait"
      <4>1. CASE End(t)
        BY <4>1 DEF End, Waiters, TypeOK
      <4>2. CASE ~End(t)
        <5>1. \A x : Goto(t, x) => pc'[u] = pc[u]
          BY DEF Goto, TypeOK
        <5>2. late'[u] = late[u] /\ UNCHANGED notified
          BY <1>6, <4>2 DEF DeviceTask, EnterGate, Check, SendNotOk, OpenSocket, Connect, Retry,
               Settle, Poll, Report, Sleep, TaskOnly, Send, TypeOK
        <5>3. pc'[u] = pc[u]
          BY <1>6, <4>2, <5>1 DEF DeviceTask, EnterGate, Check, SendNotOk, OpenSocket, Connect,
               Retry, Settle, Poll, Report, Sleep
        <5>4. QED
          BY <5>2, <5>3
      <4>3. QED
        BY <4>1, <4>2
    <3>3. QED
      BY <3>1, <3>2
  <2>2. LateOK(t)'
    <3>1. LateOK(t)
      BY DEF LateInv
    <3>2. CASE End(t)
      BY <3>2 DEF End, TypeOK
    <3>3. CASE EnterGate(t)
      BY <3>1, <3>3 DEF EnterGate, Goto, TaskOnly
    <3>4. CASE Check(t) \/ Retry(t) \/ Settle(t) \/ Sleep(t)
      BY <3>1, <3>4 DEF Check, Retry, Settle, Sleep, Goto, TaskOnly, TypeOK
    <3>5. CASE OpenSocket(t) \/ Connect(t)
      BY <3>1, <3>5 DEF OpenSocket, Connect, Goto, TaskOnly, TypeOK
    <3>6. CASE Poll(t)
      BY <3>1, <3>6 DEF Poll, Goto, TaskOnly, TypeOK
    <3>7. CASE SendNotOk(t) \/ Report(t)
      <4>1. late[t] = 0 /\ pc'[t] \in {"open", "sleep"} /\ UNCHANGED notified
        BY <3>1, <3>7 DEF SendNotOk, Report, Goto, TaskOnly, TypeOK
      <4>2. late'[t] = IF notified[t] THEN late[t] + 1 ELSE late[t]
        BY <3>7 DEF SendNotOk, Report, Send, TypeOK
      <4>3. QED
        BY <4>1, <4>2
    <3>8. QED
      BY <1>6, <3>2, <3>3, <3>4, <3>5, <3>6, <3>7 DEF DeviceTask
  <2>3. QED
    BY <2>1, <2>2 DEF LateInv
<1>7. QED
  BY <1>1, <1>2, <1>3, <1>4, <1>5, <1>6 DEF Next, EventTask, vars, taskVars, dataVars

LEMMA LateInvariant == Spec => []LateInv
<1>1. TableInv => LeavesOnRequest
  BY DEF TableInv
<1>2. Spec => []LeavesOnRequest
  BY TableCorrect, <1>1, PTL
<1>3. QED
  BY TypeCorrect, LateInit, LateStep, <1>2, PTL DEF Spec

\* A task told to stop sends at most one more update, wherever it was.
THEOREM LateCorrect == Spec => []OneLateUpdate
<1>1. LateInv => OneLateUpdate
  BY DEF LateInv, OneLateUpdate
<1>2. QED
  BY LateInvariant, <1>1, PTL

-----------------------------------------------------------------------------
\* While the loop of connections_restart is under way only the configuration it
\* reads has tasks; afterwards this holds until the user edits or the link fails.
Obedient == \A s \in Slot : tasks[s] # NULL => s \in configured
ConfigInv ==
  /\ main = "boot" => \A s \in Slot : tasks[s] = NULL
  /\ main = "spawn" => Obedient
  /\ main \in {"gui", "queue", "drain"} /\ link = "up" /\ restartq = 0 /\ changed = 0 => Obedient

\* Handles only disappear, and the configuration stays.
LEMMA ObedientFrame ==
  ASSUME UNCHANGED configured, \A s \in Slot : tasks'[s] \in {tasks[s], NULL}
  PROVE  Obedient => Obedient'
  BY DEF Obedient

LEMMA ConfigStep == TypeOK /\ TableInv /\ ConfigInv /\ [Next]_vars => ConfigInv'
<1> SUFFICES ASSUME TypeOK, TableInv, ConfigInv, [Next]_vars
             PROVE  ConfigInv'
  OBVIOUS
<1>1. CASE UNCHANGED <<tasks, mainVars, link>>
  BY <1>1 DEF ConfigInv, Obedient, mainVars
<1>2. CASE LinkDown
  <2>1. UNCHANGED <<mainVars>> /\ link' = "down"
    BY <1>2 DEF LinkDown
  <2>2. \A s \in Slot : tasks'[s] \in {tasks[s], NULL}
    BY <1>2 DEF LinkDown, ClearAll
  <2>3. QED
    BY <2>1, <2>2, ObedientFrame DEF ConfigInv, mainVars
<1>3. CASE GotIp
  <2>1. UNCHANGED <<tasks, main, configured, changed>> /\ restartq' = IF main = "boot" THEN restartq ELSE 1
    BY <1>3 DEF GotIp, taskVars
  <2>2. QED
    BY <2>1 DEF ConfigInv, Obedient
<1>4. CASE EditConfig
  BY <1>4 DEF EditConfig, ConfigInv
<1>5. CASE SaveConfig
  BY <1>5 DEF SaveConfig, BeginRestart, ConfigInv
<1>6. CASE SetCallbacks
  BY <1>6 DEF SetCallbacks, taskVars, ConfigInv, Obedient
<1>7. CASE LeaveGui \/ DrainDone
  BY <1>7 DEF LeaveGui, DrainDone, taskVars, ConfigInv, Obedient
<1>8. CASE TakeRestart
  BY <1>8 DEF TakeRestart, BeginRestart, taskVars, ConfigInv, Obedient
<1>9. CASE ClearTest \/ ClearNotify \/ ClearForget
  <2>1. main' \in {"clear", "notify", "forget"}
    BY <1>9 DEF ClearTest, ClearNotify, ClearForget
  <2>2. QED
    BY <2>1 DEF ConfigInv
<1>10. CASE ClearDone
  <2>1. cur = NumConnections /\ main = "clear" /\ main' = "spawn" /\ UNCHANGED <<tasks, configured>>
    BY <1>10 DEF ClearDone, taskVars
  <2>2. \A s \in Slot : tasks[s] = NULL
    BY <2>1, ConnectionsAssumption DEF ConnectionsAssumption, TableInv, Walk, Slot
  <2>3. QED
    BY <2>1, <2>2 DEF ConfigInv, Obedient
<1>11. CASE Spawn
  <2>1. main = "spawn" /\ UNCHANGED <<main, configured>> /\ Obedient
    BY <1>11 DEF Spawn, ConfigInv
  <2>2. CASE cur \in configured
    <3>1. \A s \in Slot : s # cur => tasks'[s] = tasks[s]
      BY <1>11, <2>2 DEF Spawn, CreateTask, TypeOK
    <3>2. QED
      BY <2>1, <2>2, <3>1 DEF ConfigInv, Obedient
  <2>3. CASE cur \notin configured
    BY <1>11, <2>1, <2>3 DEF Spawn, ConfigInv, Obedient
  <2>4. QED
    BY <2>2, <2>3
<1>12. CASE SpawnDone
  BY <1>12 DEF SpawnDone, taskVars, ConfigInv, Obedient, TypeOK
<1>13. CASE Drain
  BY <1>13, <1>1 DEF Drain, taskVars
<1>14. ASSUME NEW t \in Task, DeviceTask(t)
       PROVE  ConfigInv'
  <2>1. UNCHANGED <<tasks, mainVars, link>>
    BY <1>14 DEF DeviceTask, EnterGate, Check, SendNotOk, OpenSocket, Connect, Retry, Settle, Poll,
         Report, Sleep, End, TaskOnly
  <2>2. QED
    BY <2>1, <1>1
<1>15. CASE UNCHANGED vars
  BY <1>15, <1>1 DEF vars, taskVars
<1>16. QED
  BY <1>2, <1>3, <1>4, <1>5, <1>6, <1>7, <1>8, <1>9, <1>10, <1>11, <1>12, <1>13, <1>14, <1>15
     DEF Next, EventTask, User, MainLoop

\* With the link up, nothing to restart and the configuration saved, tasks serve
\* configured devices only.
THEOREM ConfiguredCorrect == Spec => []OnlyConfigured
<1>1. Init => ConfigInv
  BY DEF Init, ConfigInv
<1>2. ConfigInv => OnlyConfigured
  BY DEF ConfigInv, Obedient, OnlyConfigured
<1>3. QED
  BY TypeCorrect, TableCorrect, ConfigStep, <1>1, <1>2, PTL DEF Spec
=============================================================================
