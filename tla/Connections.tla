---------------------------- MODULE Connections ----------------------------
(***************************************************************************)
(* The supervisor of the device tasks (src/main/controller/connections.c)  *)
(* together with the code that drives it: the main loop of                 *)
(* src/main/controller/controller.c, and the two callbacks that the        *)
(* Ethernet event task runs on a link change.                              *)
(*                                                                         *)
(* One task is created per configured device.  A task is stopped by        *)
(* incrementing its notification value; it leaves the next time it looks   *)
(* at that value, and then opens the gate of its slot (an event group) so  *)
(* that a task created later for the same slot may start.  Three kinds of  *)
(* processes interleave: the main loop, the device tasks, and the          *)
(* handlers of the event task, which run to completion when seen from the  *)
(* main loop (same core, higher priority, nothing in them blocks once they *)
(* have begun to walk tasks[]).                                            *)
(***************************************************************************)
EXTENDS Naturals, Sequences, FiniteSets

CONSTANTS
  NumConnections,   \* length of tasks[] and stopped[]
  SlotsPerChannel,  \* MAX_MASTERS_PER_CHANNEL + MAX_MINIONS_PER_CHANNEL
  Configs,          \* the sets of slots a saved configuration may use
  Task,             \* task control blocks the heap has room for
  QueueLength,      \* capacity of deviceq
  MaxSockets,       \* lwIP sockets left to the device tasks
  NULL              \* a NULL TaskHandle_t

Slot == 0 .. NumConnections - 1

ASSUME ConnectionsAssumption ==
  /\ NumConnections \in Nat \ {0}
  /\ SlotsPerChannel \in Nat \ {0}
  /\ Configs \subseteq SUBSET Slot /\ Configs # {}
  /\ QueueLength \in Nat \ {0}
  /\ MaxSockets \in Nat
  /\ NULL \notin Task

VARIABLES
  tasks,       \* tasks[i], the handle of the task that serves slot i
  gate,        \* bit 1 of the event group stopped[i]
  pc,          \* where each task is; "free" is an unallocated control block
  home,        \* the slot a task was created for (its args)
  notified,    \* the notification value of the task is above zero
  main,        \* where the main loop is
  ret,         \* where connections_restart returns to
  cur,         \* the loop index of connections_clear / connections_restart
  handle,      \* the handle connections_clear has tested
  restartq,    \* how many messages queue holds (xQueueCreate(1, 1))
  link,        \* EVENT_GOT_IP in the Ethernet event group
  configured,  \* the slots the model says are configured
  changed,     \* model->network_config_changed
  deviceq,     \* updates on their way from the tasks to the model
  fresh,       \* the model holds what the task now in the slot has reported
  leaked       \* sockets nobody can close any more

\* History variables: no action reads them.
VARIABLES
  late,        \* updates a task has sent after it was told to stop
  overtaken    \* a task was told to stop in front of the gate of the slot, and
               \* the slot has not been empty since

taskVars == <<tasks, gate, pc, home, notified, leaked>>
mainVars == <<main, ret, cur, handle, restartq, configured, changed>>
dataVars == <<deviceq, fresh, late, overtaken>>
vars == <<taskVars, mainVars, link, dataVars>>

\* A device task is past its gate from xEventGroupWaitBits to xEventGroupSetBits.
Inside == {"check", "notok", "open", "connect", "retry", "settle", "poll",
           "report", "sleep", "end"}
TaskState == Inside \cup {"free", "start", "wait"}
HoldsSocket == {"connect", "settle", "poll", "report", "sleep"}

MainState == {"boot", "gui", "queue", "clear", "notify", "forget", "spawn", "drain"}
\* An update, reduced to its slot and to whether its sender still serves it.
Update == [slot : Slot, live : BOOLEAN]

SocketsInUse == leaked + Cardinality({t \in Task : pc[t] \in HoldsSocket})
ChannelOf(s) == s \div SlotsPerChannel

Init ==
  /\ tasks = [s \in Slot |-> NULL]
  /\ gate = [s \in Slot |-> TRUE]
  /\ pc = [t \in Task |-> "free"]
  /\ home = [t \in Task |-> 0]
  /\ notified = [t \in Task |-> FALSE]
  /\ leaked = 0
  /\ main = "boot" /\ ret = "gui" /\ cur = 0 /\ handle = NULL
  /\ restartq = 0 /\ link = "down"
  /\ configured \in Configs /\ changed = 0
  /\ deviceq = <<>>
  /\ fresh = [s \in Slot |-> FALSE]
  /\ late = [t \in Task |-> 0]
  /\ overtaken = [s \in Slot |-> FALSE]

-----------------------------------------------------------------------------
(* Stopping tasks: xTaskNotify(.., 1, eIncrement).                         *)

InFront(t, s) == home[t] = s /\ pc[t] \in {"start", "wait"}

\* Notify the tasks of T.  A block that was freed meanwhile is not a task.
\* What those tasks still have in deviceq is from now on out of date.
Notify(T) ==
  LET stoppedNow == {home[t] : t \in {u \in T : pc[u] # "free"}}
  IN /\ notified' = [t \in Task |-> notified[t] \/ (t \in T /\ pc[t] # "free")]
     /\ deviceq' = [i \in DOMAIN deviceq |->
          [deviceq[i] EXCEPT !.live = @ /\ deviceq[i].slot \notin stoppedNow]]
     /\ fresh' = [s \in Slot |-> fresh[s] /\ s \notin stoppedNow]
     /\ overtaken' = [s \in Slot |-> overtaken[s] \/ \E t \in T : InFront(t, s)]

\* Mutant: the callback forgets to write NULL.
ClearAllKeepsHandles == Notify({tasks[s] : s \in Slot} \ {NULL}) /\ UNCHANGED tasks

\* connections_clear as the event task runs it: no step of the main loop
\* comes in between.
ClearAll ==
  /\ Notify({tasks[s] : s \in Slot} \ {NULL})
  /\ tasks' = [s \in Slot |-> NULL]

\* ETHERNET_EVENT_DISCONNECTED.  The callbacks are not set during boot.
LinkDown ==
  /\ link' = "down"
  /\ IF main = "boot" THEN UNCHANGED <<tasks, notified, deviceq, fresh, overtaken>> ELSE ClearAll
  /\ UNCHANGED <<gate, pc, home, leaked, mainVars, late>>

\* IP_EVENT_ETH_GOT_IP: xQueueOverwrite on the restart queue.
GotIp ==
  /\ link' = "up"
  /\ restartq' = IF main = "boot" THEN restartq ELSE 1
  /\ UNCHANGED <<taskVars, main, ret, cur, handle, configured, changed, dataVars>>

EventTask == LinkDown \/ GotIp

-----------------------------------------------------------------------------
(* The main loop: controller_manage_gui, then controller_manage.           *)

SetCallbacks ==
  /\ main = "boot"
  /\ main' = "gui"
  /\ UNCHANGED <<taskVars, ret, cur, handle, restartq, configured, changed, link, dataVars>>

\* The user adds, removes or readdresses devices on the configuration pages.
EditConfig ==
  /\ main = "gui"
  /\ configured' \in Configs
  /\ changed' = 1
  /\ UNCHANGED <<taskVars, main, ret, cur, handle, restartq, link, dataVars>>

BeginRestart(from) == main' = "clear" /\ ret' = from /\ cur' = 0

\* Mutant: the new configuration is saved but the tasks are not restarted.
SaveConfigNoRestart ==
  /\ main = "gui"
  /\ changed = 1
  /\ changed' = 0
  /\ UNCHANGED <<taskVars, main, ret, cur, handle, restartq, configured, link, dataVars>>

\* VIEW_CONTROLLER_COMMAND_CODE_SAVE_CONFIG, the network part.
SaveConfig ==
  /\ main = "gui"
  /\ changed = 1
  /\ IF link = "up"
     THEN BeginRestart("gui") /\ UNCHANGED changed
     ELSE changed' = 0 /\ UNCHANGED <<main, ret, cur>>
  /\ UNCHANGED <<taskVars, handle, restartq, configured, link, dataVars>>

LeaveGui ==
  /\ main = "gui"
  /\ main' = "queue"
  /\ UNCHANGED <<taskVars, ret, cur, handle, restartq, configured, changed, link, dataVars>>

\* xQueueReceive(queue, &msg, 0)
TakeRestart ==
  /\ main = "queue"
  /\ IF restartq = 1
     THEN restartq' = 0 /\ BeginRestart("drain")
     ELSE main' = "drain" /\ UNCHANGED <<restartq, ret, cur>>
  /\ UNCHANGED <<taskVars, handle, configured, changed, link, dataVars>>

\* Mutant: the handle is forgotten and the task never told.
ClearTestNoNotify ==
  /\ main = "clear"
  /\ cur < NumConnections
  /\ IF tasks[cur] # NULL
     THEN main' = "forget" /\ handle' = tasks[cur] /\ UNCHANGED cur
     ELSE cur' = cur + 1 /\ UNCHANGED <<main, handle>>
  /\ UNCHANGED <<taskVars, ret, restartq, configured, changed, link, dataVars>>

\* connections_clear as the main loop runs it; the event task may clear the
\* same table between any two of its steps.
ClearTest ==
  /\ main = "clear"
  /\ cur < NumConnections
  /\ IF tasks[cur] # NULL
     THEN main' = "notify" /\ handle' = tasks[cur] /\ UNCHANGED cur
     ELSE cur' = cur + 1 /\ UNCHANGED <<main, handle>>
  /\ UNCHANGED <<taskVars, ret, restartq, configured, changed, link, dataVars>>

ClearNotify ==
  /\ main = "notify"
  /\ Notify({handle})
  /\ main' = "forget"
  /\ UNCHANGED <<tasks, gate, pc, home, leaked, ret, cur, handle, restartq,
                 configured, changed, link, late>>

ClearForget ==
  /\ main = "forget"
  /\ tasks' = [tasks EXCEPT ![cur] = NULL]
  /\ main' = "clear" /\ handle' = NULL /\ cur' = cur + 1
  /\ UNCHANGED <<gate, pc, home, notified, leaked, ret, restartq, configured,
                 changed, link, dataVars>>

ClearDone ==
  /\ main = "clear"
  /\ cur = NumConnections
  /\ main' = "spawn" /\ cur' = 0
  /\ UNCHANGED <<taskVars, ret, handle, restartq, configured, changed, link, dataVars>>

\* xTaskCreate: the handle is stored before the task can run; without memory
\* for the task tasks[index] keeps its NULL.
CreateTask(s) ==
  \/ \E t \in Task :
       /\ pc[t] = "free"
       /\ pc' = [pc EXCEPT ![t] = "start"]
       /\ home' = [home EXCEPT ![t] = s]
       /\ tasks' = [tasks EXCEPT ![s] = t]
  \/ /\ \A t \in Task : pc[t] # "free"
     /\ UNCHANGED <<pc, home, tasks>>

\* One turn of the loops of connections_restart.  The first slot of a channel
\* is reached right after model_reset_channel_state on that channel.
Spawn ==
  /\ main = "spawn"
  /\ cur < NumConnections
  /\ LET wiped == IF cur % SlotsPerChannel = 0
                  THEN {s \in configured : ChannelOf(s) = ChannelOf(cur)}
                  ELSE {}
     IN fresh' = [s \in Slot |-> fresh[s] /\ s \notin wiped]
  /\ IF cur \in configured THEN CreateTask(cur) ELSE UNCHANGED <<pc, home, tasks>>
  /\ cur' = cur + 1
  /\ UNCHANGED <<gate, notified, leaked, main, ret, handle, restartq, configured,
                 changed, link, deviceq, late, overtaken>>

SpawnDone ==
  /\ main = "spawn"
  /\ cur = NumConnections
  /\ main' = ret /\ cur' = 0
  /\ changed' = IF ret = "gui" THEN 0 ELSE changed
  /\ UNCHANGED <<taskVars, ret, handle, restartq, configured, link, dataVars>>

\* while (xQueueReceive(deviceq, &message, 0) == pdTRUE) model_update_channel
Drain ==
  /\ main = "drain"
  /\ deviceq # <<>>
  /\ fresh' = [fresh EXCEPT ![Head(deviceq).slot] = Head(deviceq).live]
  /\ deviceq' = Tail(deviceq)
  /\ UNCHANGED <<taskVars, mainVars, link, late, overtaken>>

DrainDone ==
  /\ main = "drain"
  /\ deviceq = <<>>
  /\ main' = "gui"
  /\ UNCHANGED <<taskVars, ret, cur, handle, restartq, configured, changed, link, dataVars>>

User == EditConfig \/ SaveConfig
MainLoop ==
  \/ SetCallbacks \/ LeaveGui \/ TakeRestart
  \/ ClearTest \/ ClearNotify \/ ClearForget \/ ClearDone
  \/ Spawn \/ SpawnDone \/ Drain \/ DrainDone

-----------------------------------------------------------------------------
(* device_communication_task.                                              *)

Goto(t, state) == pc' = [pc EXCEPT ![t] = state]
TaskOnly == UNCHANGED <<mainVars, link, tasks, home, notified, fresh, overtaken>>

\* Mutant: the bit is not cleared on the way in.
EnterKeepsBit(t) ==
  /\ pc[t] = "start"
  /\ Goto(t, IF gate[home[t]] THEN "check" ELSE "wait")
  /\ TaskOnly /\ UNCHANGED <<gate, leaked, deviceq, late>>

\* xEventGroupWaitBits(group, 1, clear on exit, all, forever)
EnterGate(t) ==
  /\ pc[t] = "start"
  /\ IF gate[home[t]] THEN Goto(t, "check") ELSE Goto(t, "wait")
  /\ gate' = [gate EXCEPT ![home[t]] = FALSE]
  /\ TaskOnly /\ UNCHANGED <<leaked, deviceq, late>>

\* Mutant: a new task connects without reporting its device as not connected.
CheckSkipsNotOk(t) ==
  /\ pc[t] = "check"
  /\ Goto(t, IF notified[t] THEN "end" ELSE "open")
  /\ TaskOnly /\ UNCHANGED <<gate, leaked, deviceq, late>>

\* WAIT_OR_YIELD(0): a task told to stop leaves the loop.
Check(t) ==
  /\ pc[t] = "check"
  /\ Goto(t, IF notified[t] THEN "end" ELSE "notok")
  /\ TaskOnly /\ UNCHANGED <<gate, leaked, deviceq, late>>

\* xQueueSend(queue, &update, portMAX_DELAY)
Send(t) ==
  /\ Len(deviceq) < QueueLength
  /\ deviceq' = Append(deviceq, [slot |-> home[t], live |-> ~notified[t]])
  /\ late' = [late EXCEPT ![t] = IF notified[t] THEN @ + 1 ELSE @]

\* device_not_ok
SendNotOk(t) ==
  /\ pc[t] = "notok"
  /\ Send(t)
  /\ Goto(t, "open")
  /\ TaskOnly /\ UNCHANGED <<gate, leaked>>

\* device_connect up to socket(): there may be no socket left.
OpenSocket(t) ==
  /\ pc[t] = "open"
  /\ Goto(t, IF SocketsInUse < MaxSockets THEN "connect" ELSE "retry")
  /\ TaskOnly /\ UNCHANGED <<gate, leaked, deviceq, late>>

\* The rest of device_connect: connected, or refused or timed out and closed.
Connect(t) ==
  /\ pc[t] = "connect"
  /\ \E outcome \in {"settle", "retry"} : Goto(t, outcome)
  /\ TaskOnly /\ UNCHANGED <<gate, leaked, deviceq, late>>

\* Mutant: the pause between two attempts does not look at the notification.
RetryIgnoresStop(t) ==
  /\ pc[t] = "retry"
  /\ Goto(t, "open")
  /\ TaskOnly /\ UNCHANGED <<gate, leaked, deviceq, late>>

\* WAIT_OR_YIELD(2000), then the next turn of the outer loop.
Retry(t) ==
  /\ pc[t] = "retry"
  /\ Goto(t, IF notified[t] THEN "end" ELSE "check")
  /\ TaskOnly /\ UNCHANGED <<gate, leaked, deviceq, late>>

\* WAIT_OR_YIELD(500): the break leaves the loop with the socket still open.
Settle(t) ==
  /\ pc[t] = "settle"
  /\ Goto(t, IF notified[t] THEN "end" ELSE "poll")
  /\ leaked' = IF notified[t] THEN leaked + 1 ELSE leaked
  /\ TaskOnly /\ UNCHANGED <<gate, deviceq, late>>

\* device_get_state: an answer, or an error after which the socket is closed.
Poll(t) ==
  /\ pc[t] = "poll"
  /\ \E outcome \in {"report", "check"} : Goto(t, outcome)
  /\ TaskOnly /\ UNCHANGED <<gate, leaked, deviceq, late>>

\* device_update
Report(t) ==
  /\ pc[t] = "report"
  /\ Send(t)
  /\ Goto(t, "sleep")
  /\ TaskOnly /\ UNCHANGED <<gate, leaked>>

\* Mutant: the pause between two polls does not look at the notification.
SleepIgnoresStop(t) ==
  /\ pc[t] = "sleep"
  /\ Goto(t, "poll")
  /\ TaskOnly /\ UNCHANGED <<gate, leaked, deviceq, late>>

\* xTaskNotifyWait(.., 4000): stopped, the socket is closed; else poll again.
Sleep(t) ==
  /\ pc[t] = "sleep"
  /\ Goto(t, IF notified[t] THEN "check" ELSE "poll")
  /\ TaskOnly /\ UNCHANGED <<gate, leaked, deviceq, late>>

Waiters(s) == {t \in Task : pc[t] = "wait" /\ home[t] = s}

\* The last task of a slot leaves it.
Emptied(t) ==
  overtaken' = [overtaken EXCEPT ![home[t]] =
    @ /\ \E u \in Task \ {t} : pc[u] # "free" /\ home[u] = home[t]]

\* Mutant: a task ends without xEventGroupSetBits.
EndNoSignal(t) ==
  /\ pc[t] = "end"
  /\ Goto(t, "free")
  /\ home' = [home EXCEPT ![t] = 0]
  /\ notified' = [notified EXCEPT ![t] = FALSE]
  /\ late' = [late EXCEPT ![t] = 0] /\ Emptied(t)
  /\ UNCHANGED <<gate, mainVars, link, tasks, leaked, deviceq, fresh>>

\* Mutant: the bit is set and stays set, the waiters are not woken.
EndWakesNobody(t) ==
  /\ pc[t] = "end"
  /\ Goto(t, "free")
  /\ gate' = [gate EXCEPT ![home[t]] = TRUE]
  /\ home' = [home EXCEPT ![t] = 0]
  /\ notified' = [notified EXCEPT ![t] = FALSE]
  /\ late' = [late EXCEPT ![t] = 0] /\ Emptied(t)
  /\ UNCHANGED <<mainVars, link, tasks, leaked, deviceq, fresh>>

\* xEventGroupSetBits lets every waiter through, and the bit stays set only
\* if there was none (clear on exit); vTaskDelete then frees the block.
End(t) ==
  /\ pc[t] = "end"
  /\ LET woken == Waiters(home[t])
     IN /\ pc' = [u \in Task |-> CASE u = t       -> "free"
                                   [] u \in woken -> "check"
                                   [] OTHER       -> pc[u]]
        /\ gate' = [gate EXCEPT ![home[t]] = (woken = {})]
  /\ home' = [home EXCEPT ![t] = 0]
  /\ notified' = [notified EXCEPT ![t] = FALSE]
  /\ late' = [late EXCEPT ![t] = 0] /\ Emptied(t)
  /\ UNCHANGED <<mainVars, link, tasks, leaked, deviceq, fresh>>

DeviceTask(t) ==
  \/ EnterGate(t) \/ Check(t) \/ SendNotOk(t) \/ OpenSocket(t) \/ Connect(t)
  \/ Retry(t) \/ Settle(t) \/ Poll(t) \/ Report(t) \/ Sleep(t) \/ End(t)

-----------------------------------------------------------------------------
Next == EventTask \/ User \/ MainLoop \/ (\E t \in Task : DeviceTask(t))

Spec == Init /\ [][Next]_vars

\* The scheduler runs every ready task, every wait of a task has a timeout, and
\* a task blocked on a full queue is served in its turn (strong fairness).  The
\* loop over the user's events in controller_manage_gui ends, however often the
\* user saves.  The user and the network owe nothing.
Fairness ==
  /\ WF_vars(MainLoop) /\ SF_vars(LeaveGui)
  /\ \A t \in Task : WF_vars(DeviceTask(t))
  /\ \A t \in Task : SF_vars(SendNotOk(t)) /\ SF_vars(Report(t))

FairSpec == Spec /\ Fairness

-----------------------------------------------------------------------------
(* Properties.                                                             *)

\* The values the variables range over.
TypeOK ==
  /\ tasks \in [Slot -> Task \cup {NULL}]
  /\ gate \in [Slot -> BOOLEAN]
  /\ pc \in [Task -> TaskState]
  /\ home \in [Task -> Slot]
  /\ notified \in [Task -> BOOLEAN]
  /\ leaked \in Nat
  /\ main \in MainState /\ ret \in {"gui", "drain"}
  /\ cur \in 0 .. NumConnections
  /\ main \in {"notify", "forget"} => cur \in Slot
  /\ handle \in Task \cup {NULL}
  /\ restartq \in 0 .. 1 /\ link \in {"up", "down"}
  /\ configured \in SUBSET Slot /\ changed \in 0 .. 1
  /\ deviceq \in Seq(Update)
  /\ fresh \in [Slot -> BOOLEAN]
  /\ late \in [Task -> Nat]
  /\ overtaken \in [Slot -> BOOLEAN]

Alive(t) == pc[t] # "free"
Live(t) == Alive(t) /\ ~notified[t]

\* Whatever the main loop and the event task do to tasks[] at the same time,
\* no task that was not told to stop is lost: it is the one recorded in its
\* slot.  Hence a slot never has two of them (connections.c:39-91).
OneLiveTask == \A t \in Task : Live(t) => tasks[home[t]] = t

\* A handle in tasks[] is the handle of an existing task of that slot, not told
\* to stop; the only time it can be stale is between the notification and the
\* assignment of NULL in connections_clear (connections.c:42-43).
RecordedTask ==
  \A s \in Slot : tasks[s] # NULL =>
    \/ Live(tasks[s]) /\ home[tasks[s]] = s
    \/ main = "forget" /\ cur = s /\ handle = tasks[s]

\* What the two loops over tasks[] may assume of it while the event task can
\* clear it under their hands: the part already walked is empty, the tested
\* handle is still in its place or its task was told to stop, and a block
\* that is free carries no notification into the task it is used for next.
Walk ==
  /\ \A t \in Task : ~Alive(t) => ~notified[t]
  /\ main \in {"clear", "notify", "forget"} => \A s \in Slot : s < cur => tasks[s] = NULL
  /\ main = "spawn" => \A s \in Slot : s >= cur => tasks[s] = NULL
  /\ main \in {"notify", "forget"} => handle \in Task /\ tasks[cur] \in {handle, NULL}
  /\ main = "notify" => tasks[cur] = handle \/ ~Live(handle)
  /\ main = "forget" => ~Live(handle)

\* A task only leaves its loops because it was told to.
LeavesOnRequest == \A t \in Task : pc[t] = "end" => notified[t]

\* The inductive invariant behind OneLiveTask.
TableInv == OneLiveTask /\ RecordedTask /\ Walk /\ LeavesOnRequest

OneInside(s) ==
  \A t, u \in Task : pc[t] \in Inside /\ pc[u] \in Inside /\ home[t] = s /\ home[u] = s => t = u

\* Two tasks never work for one slot at the same time: each leaves before the
\* next one may start.  The gate grants it unless a restart overtakes a task that
\* is still in front of the gate: that one is let through as well, sees that it
\* is to stop and sets the bit, while a later task is already inside
\* (connections.c:39-46, 111 and 154).
Apart == \A s \in Slot : ~overtaken[s] => OneInside(s)

\* The inductive invariant behind Apart, with TableInv: the tasks in front of the
\* gate are not told to stop, and an open gate has nobody past it.
ApartInv ==
  /\ Apart
  /\ \A s \in Slot : ~overtaken[s] =>
       /\ \A t \in Task : InFront(t, s) => ~notified[t]
       /\ gate[s] => \A t \in Task : pc[t] \in Inside => home[t] # s

\* The right to run in a slot is never lost: if the gate is shut, a task that
\* will open it again is past it (connections.c:111 and 154).
GateNotLost ==
  \A s \in Slot : gate[s] \/ \E t \in Task : pc[t] \in Inside /\ home[t] = s

\* Nobody sleeps in front of an open gate.
NoMissedWakeup == \A t \in Task : pc[t] = "wait" => ~gate[home[t]]

\* Once told to stop, a task sends at most one more update, wherever in its
\* loops the notification reaches it.
OneLateUpdate == \A t \in Task : late[t] <= 1

\* The inductive invariant behind OneLateUpdate: after its late update a task is
\* on a path that leads out without another one.
LateInv ==
  \A t \in Task :
    \/ late[t] = 0
    \/ /\ late[t] = 1 /\ notified[t]
       /\ pc[t] \in {"open", "connect", "retry", "settle", "sleep", "check", "end"}

\* With the link up, no restart pending and the configuration saved, the main
\* loop comes back to the user interface only with tasks for configured devices.
OnlyConfigured ==
  main = "gui" /\ link = "up" /\ restartq = 0 /\ changed = 0 =>
    \A s \in Slot : tasks[s] # NULL => s \in configured

\* Every socket a task opened is closed when the task is gone: the stop path
\* of the polling loop logs "Socket chiusa" and closes it (connections.c:143-148).
NoSocketLeak == leaked = 0

\* The tasks of connections.c, gates and handles and races of the callbacks
\* included, implement the supervision of Supervision.tla.
Supervisor == INSTANCE Supervision WITH
  serving <- [s \in Slot |-> {t \in Task : Live(t) /\ home[t] = s}],
  leaving <- [s \in Slot |-> {t \in Task : Alive(t) /\ notified[t] /\ home[t] = s}],
  inside <- [s \in Slot |-> {t \in Task : pc[t] \in Inside /\ home[t] = s}],
  overtaken <- {s \in Slot : overtaken[s]},
  silent <- {t \in Task : notified[t] /\ pc[t] \notin {"notok", "poll", "report"}}
Supervised == Supervisor!Spec

\* A task that stays in its slot gets through the gate, even if several
\* stopped tasks of the slot are still on their way out.
LiveTaskRuns ==
  \A s \in Slot : <>[](tasks[s] # NULL)
                    => <>[](\E t \in Task : tasks[s] = t /\ pc[t] \in Inside)

\* What the model says of a device is in the end what its present task says,
\* although updates of stopped tasks may still be queued or sent.
Settles == \A s \in Slot : <>[](tasks[s] # NULL) => <>[]fresh[s]

\* When no slot is served any more, every task ends and gives its memory back.
AllStop == <>[](\A s \in Slot : tasks[s] = NULL) => <>[](\A t \in Task : pc[t] = "free")
=============================================================================
