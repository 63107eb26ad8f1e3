---------------------------- MODULE DeviceStatus ----------------------------
(***************************************************************************)
(* The state of the devices on its way from a poll to the relays and to    *)
(* the Modbus registers: the lists of the model (src/main/model/model.c    *)
(* and channel.c), the updates the device tasks send and the main loop     *)
(* applies (src/main/controller/connections.c and controller.c), and the   *)
(* registers modbus_server_update writes (modbus_server.c).                *)
(*                                                                         *)
(* The device tasks are the ones of module Connections, reduced to what    *)
(* the model sees of them, as that module justifies: a slot has at most    *)
(* one task that was not told to stop (TableInv), a task told to stop      *)
(* sends one more update at most (OneLateUpdate), and the tasks of a slot  *)
(* are past its gate one at a time unless a restart has overtaken one in   *)
(* front of it (Apart); from then on the gate may let in anybody.          *)
(***************************************************************************)
EXTENDS Naturals, Sequences

CONSTANTS
  Channel,       \* 0 .. MAX_CHANNELS - 1
  MaxMasters,    \* MAX_MASTERS_PER_CHANNEL
  MaxMinions,    \* MAX_MINIONS_PER_CHANNEL
  Addr,          \* the addresses devices may have
  Typed,         \* those the user types in
  Task,          \* places for tasks past the gate of a slot
  Scenario,      \* the configurations loaded at boot, the lists of each channel, and
                 \* the bound on the outside world that goes with each: the kinds of
                 \* disturbance that may come first, second and so on
  AtBoot,        \* the conditions a device may be in at boot
  Stack,         \* what the stack of app_main may hold in the places of devices
  Fault,         \* the faults an answer can tell
  QueueLength,   \* capacity of deviceq
  NULL

Kind == {"master", "minion"}
Capacity == [master |-> MaxMasters, minion |-> MaxMinions]
\* A place of a channel: <<channel, kind, index>>.
Slot == {s \in Channel \X Kind \X (0 .. MaxMasters + MaxMinions) : s[3] < Capacity[s[2]]}

Counts == {n \in [Channel \X Kind -> 0 .. MaxMasters + MaxMinions] :
             \A l \in Channel \X Kind : n[l] <= Capacity[l[2]]}

Relay == {"antenna", "radio"}

\* A silent device tells no fault.
Condition == {w \in [connected : BOOLEAN, faults : SUBSET Fault] : w.connected \/ w.faults = {}}

Disturbance == {"add", "remove", "readdress", "link", "device", "memory", "test"}

ASSUME DeviceStatusAssumption ==
  /\ MaxMasters \in Nat /\ MaxMinions \in Nat
  /\ Scenario \subseteq [count : Counts, addr : [Slot -> Addr],
                          coming : Seq(SUBSET Disturbance)]
  /\ Fault \subseteq {"radio", "antenna", "failed_tx", "tx_disabled"}
  /\ AtBoot \subseteq Condition /\ AtBoot # {}
  /\ Stack \subseteq [connected : BOOLEAN, faults : SUBSET Fault, from : {NULL}]
  /\ QueueLength \in Nat \ {0}
  /\ Typed \subseteq Addr
  /\ NULL \notin Addr

VARIABLES
  count,      \* num_masters and num_minions of each channel
  addr,       \* masters[i].addr and minions[i].addr
  info,       \* masters[i].info and minions[i].info
  changed,    \* model->network_config_changed
  connected,  \* model->connected
  link,       \* EVENT_GOT_IP in the Ethernet event group
  restartq,   \* how many messages queue holds
  task,       \* the tasks past the gate of each slot
  next,       \* the address of the task in front of the gate, if not told to stop
  overtaken,  \* a task of the slot was told to stop in front of the gate
  unstarted,  \* the slots whose task the last restart could not create
  deviceq,    \* updates on their way to the model
  main,       \* where the main loop is
  due,        \* channels modbus_server_update has not come to
  errors,     \* modbus_server_state.errors: the channels whose bit 8+c is set
  registers,  \* modbus_server_state.channels: the devices whose bit is set
  told,       \* the relays of the faults the main loop has last commanded on
  test,       \* test of controller.c
  afterTest,  \* update_after_test
  world,      \* what each device would answer
  coming      \* the disturbances that may still come

modelVars == <<count, addr, info>>
netVars == <<link, restartq>>
taskVars == <<task, next, overtaken, unstarted>>
mainVars == <<changed, connected, main, due>>
relayVars == <<told, test, afterTest>>
outVars == <<errors, registers, relayVars>>
vars == <<modelVars, netVars, taskVars, deviceq, mainVars, outVars, world, coming>>

\* What the model knows of a device, and whose answer it is.
Info == [connected : BOOLEAN, faults : SUBSET Fault, from : Addr \cup {NULL}]
NotConnected == [connected |-> FALSE, faults |-> {}, from |-> NULL]
Answer(a) == [connected |-> world[a].connected, faults |-> world[a].faults, from |-> a]

\* A task: whether it was told to stop, and whether it found no other in its slot.
NoTask == [at |-> "none", addr |-> NULL, stopped |-> FALSE, alone |-> TRUE,
           value |-> NotConnected]
Place == Slot \X Task

Listed(s) == s[3] < count[<<s[1], s[2]>>]
InChannel(c) == {s \in Slot : s[1] = c /\ Listed(s)}

\* app_main has its model on the stack, and no device is listed when model_init
\* resets the information of the listed ones: what is there is arbitrary.
\* The link has come up for the first time.
Init ==
  /\ \E boot \in Scenario : count = boot.count /\ addr = boot.addr /\ coming = boot.coming
  /\ \E stack \in Stack : info = [s \in Slot |-> stack]
  /\ changed = 0 /\ connected = FALSE
  /\ link = "up" /\ restartq = 1
  /\ task = [p \in Place |-> NoTask]
  /\ next = [s \in Slot |-> NULL]
  /\ overtaken = [s \in Slot |-> FALSE] /\ unstarted = {}
  /\ deviceq = <<>>
  /\ main = "gui" /\ due = {}
  /\ errors = {} /\ registers = [c \in Channel |-> {}]
  /\ told = Relay /\ test = 0 /\ afterTest = 0
  /\ world \in [Addr -> AtBoot]

-----------------------------------------------------------------------------
(* The user edits the lists; the network and the devices change.           *)

Disturb(kind) ==
  /\ coming # <<>>
  /\ kind \in Head(coming)
  /\ coming' = Tail(coming)

Editing(kind) ==
  /\ main = "gui"
  /\ Disturb(kind)
  /\ changed' = 1
  /\ UNCHANGED <<netVars, taskVars, deviceq, connected, main, due, outVars, world>>

\* Mutant: the lists are not bounded.
AddDeviceUnchecked(c, k) ==
  /\ Editing("add")
  /\ count' = [count EXCEPT ![<<c, k>>] = @ + 1]
  /\ \E a \in Addr : addr' = [s \in Slot |-> IF s = <<c, k, count[<<c, k>>]>> THEN a ELSE addr[s]]
  /\ UNCHANGED info

\* model_add_master_to_channel and model_add_minion_to_channel: the place
\* keeps whatever information is there.
AddDevice(c, k) ==
  /\ Editing("add")
  /\ count[<<c, k>>] < Capacity[k]
  /\ count' = [count EXCEPT ![<<c, k>>] = @ + 1]
  /\ \E a \in Addr : addr' = [addr EXCEPT ![<<c, k, count[<<c, k>>]>>] = a]
  /\ UNCHANGED info

\* model_remove_master_from_channel and model_remove_minion_from_channel: the
\* devices behind the removed one move up with their information.
RemoveDevice(s) ==
  LET last == <<s[1], s[2], count[<<s[1], s[2]>>] - 1>>
      moved(f) == [r \in Slot |->
        IF r[1] = s[1] /\ r[2] = s[2] /\ r[3] \in s[3] .. last[3] - 1
        THEN f[<<r[1], r[2], r[3] + 1>>] ELSE f[r]]
  IN /\ Editing("remove")
     /\ Listed(s)
     /\ count' = [count EXCEPT ![<<s[1], s[2]>>] = @ - 1]
     /\ addr' = moved(addr) /\ info' = moved(info)

\* model_set_channel_master_ip and model_set_channel_minion_ip
SetAddress(s) ==
  /\ Editing("readdress")
  /\ Listed(s)
  /\ \E a \in Typed \ {addr[s]} : addr' = [addr EXCEPT ![s] = a]
  /\ UNCHANGED <<count, info>>

StopTasks ==
  /\ task' = [p \in Place |-> IF task[p] = NoTask THEN NoTask
                              ELSE [task[p] EXCEPT !.stopped = TRUE]]
  /\ overtaken' = [s \in Slot |-> overtaken[s] \/ next[s] # NULL]

\* connections_clear
StopAll == StopTasks /\ next' = [s \in Slot |-> NULL] /\ UNCHANGED unstarted

\* The listed devices get a task each, but those for which xTaskCreate fails.
StartBut(failed) ==
  /\ StopTasks
  /\ next' = [s \in Slot |-> IF Listed(s) /\ s \notin failed THEN addr[s] ELSE NULL]
  /\ unstarted' = failed

StartListed ==
  \/ StartBut({}) /\ UNCHANGED coming
  \/ Disturb("memory") /\ \E failed \in SUBSET {s \in Slot : Listed(s)} : StartBut(failed)

\* connections_restart, which resets the listed devices first.
Restart ==
  /\ StartListed
  /\ info' = [s \in Slot |-> IF Listed(s) THEN NotConnected ELSE info[s]]
NoRestart == UNCHANGED <<taskVars, info, coming>>

\* Mutant: the tasks go on with the addresses they were started with.
SaveNoRestart ==
  /\ main = "gui" /\ changed = 1 /\ changed' = 0
  /\ UNCHANGED <<modelVars, netVars, taskVars, deviceq, connected, main, due,
                 outVars, world, coming>>

\* VIEW_CONTROLLER_COMMAND_CODE_SAVE_CONFIG, the network part.
Save ==
  /\ main = "gui" /\ changed = 1 /\ changed' = 0
  /\ IF link = "up" THEN Restart ELSE NoRestart
  /\ UNCHANGED <<count, addr, netVars, deviceq, connected, main, due, outVars, world>>

\* ETHERNET_EVENT_DISCONNECTED
LinkDown ==
  /\ link = "up" /\ Disturb("link")
  /\ link' = "down"
  /\ StopAll
  /\ UNCHANGED <<modelVars, restartq, deviceq, mainVars, outVars, world>>

\* IP_EVENT_ETH_GOT_IP: restart_connections.  That a lost link comes back is no
\* disturbance more.
GotIp ==
  /\ IF link = "down" THEN UNCHANGED coming ELSE Disturb("link")
  /\ link' = "up" /\ restartq' = 1
  /\ UNCHANGED <<modelVars, taskVars, deviceq, mainVars, outVars, world>>

\* A device breaks, recovers, falls silent or answers again.
DeviceChanges ==
  /\ Disturb("device")
  /\ \E a \in Addr : \E w \in Condition \ {world[a]} : world' = [world EXCEPT ![a] = w]
  /\ UNCHANGED <<modelVars, netVars, taskVars, deviceq, mainVars, outVars>>

\* VIEW_CONTROLLER_COMMAND_TEST: the test switches the relays off.
BeginTest ==
  /\ main = "gui" /\ test = 0 /\ Disturb("test")
  /\ test' = 1 /\ told' = {}
  /\ UNCHANGED <<modelVars, netVars, taskVars, deviceq, mainVars, errors, registers,
                 afterTest, world>>

\* The buttons of the test page command the relays meanwhile; what they have left
\* them at shows when the page is left (VIEW_CONTROLLER_COMMAND_TEST_RELE).
EndTest ==
  /\ main = "gui" /\ test = 1
  /\ test' = 0 /\ afterTest' = 1 /\ told' \in SUBSET Relay
  /\ UNCHANGED <<modelVars, netVars, taskVars, deviceq, mainVars, errors, registers,
                 world, coming>>

Testing == BeginTest \/ EndTest

Environment ==
  \/ \E c \in Channel, k \in Kind : AddDevice(c, k)
  \/ \E s \in Slot : RemoveDevice(s) \/ SetAddress(s)
  \/ LinkDown \/ GotIp \/ DeviceChanges

-----------------------------------------------------------------------------
(* The device tasks.                                                       *)

At(p, place) == task[p].at = place
TaskOnly == UNCHANGED <<modelVars, netVars, overtaken, unstarted, mainVars, outVars, world, coming>>

Empty(s) == \A q \in Task : task[<<s, q>>] = NoTask

\* Mutant: a task does not wait for the one before it.
EnterAtOnce(s) ==
  /\ next[s] # NULL
  /\ \E q \in Task : task[<<s, q>>] = NoTask
  /\ LET q == CHOOSE r \in Task : task[<<s, r>>] = NoTask
     IN task' = [task EXCEPT ![<<s, q>>] = [NoTask EXCEPT !.at = "notok", !.addr = next[s]]]
  /\ next' = [next EXCEPT ![s] = NULL]
  /\ TaskOnly /\ UNCHANGED deviceq

\* xEventGroupWaitBits, and the notification is looked at.
Enter(s) ==
  /\ next[s] # NULL
  /\ Empty(s) \/ overtaken[s]
  /\ \E q \in Task : task[<<s, q>>] = NoTask
  /\ LET q == CHOOSE r \in Task : task[<<s, r>>] = NoTask
         t == [NoTask EXCEPT !.at = "notok", !.addr = next[s], !.alone = Empty(s)]
     IN task' = [task EXCEPT ![<<s, q>>] = t]
  /\ next' = [next EXCEPT ![s] = NULL]
  /\ TaskOnly /\ UNCHANGED deviceq

Send(p, i) ==
  /\ Len(deviceq) < QueueLength
  /\ deviceq' = Append(deviceq, [slot |-> p[1], info |-> i])

\* device_not_ok
SendNotOk(p) ==
  /\ At(p, "notok")
  /\ Send(p, NotConnected)
  /\ task' = [task EXCEPT ![p].at = "ask"]
  /\ TaskOnly /\ UNCHANGED next

\* Mutant: a silent device is waited for.
AskWaits(p) ==
  /\ At(p, "ask")
  /\ task[p].stopped \/ world[task[p].addr].connected
  /\ task' = [task EXCEPT ![p] =
       IF task[p].stopped THEN NoTask
       ELSE [@ EXCEPT !.at = "report", !.value = Answer(task[p].addr)]]
  /\ TaskOnly /\ UNCHANGED <<next, deviceq>>

\* A wait for a notification, which makes the task leave, and the exchange with
\* the device that follows it: device_connect and device_get_state.
Ask(p) ==
  /\ At(p, "ask")
  /\ task' = [task EXCEPT ![p] =
       IF task[p].stopped THEN NoTask
       ELSE IF world[task[p].addr].connected
       THEN [@ EXCEPT !.at = "report", !.value = Answer(task[p].addr)]
       ELSE [@ EXCEPT !.at = "notok"]]
  /\ TaskOnly /\ UNCHANGED <<next, deviceq>>

\* device_update
Report(p) ==
  /\ At(p, "report")
  /\ Send(p, task[p].value)
  /\ task' = [task EXCEPT ![p].at = "ask", ![p].value = NotConnected]
  /\ TaskOnly /\ UNCHANGED next

DeviceTask(p) == SendNotOk(p) \/ Ask(p) \/ Report(p)
TasksOf(s) == Enter(s) \/ \E q \in Task : DeviceTask(<<s, q>>)

-----------------------------------------------------------------------------
(* controller_manage and modbus_server_update.                             *)

\* channel_device_info_ok
InfoOk(i) == i.connected /\ i.faults \cap {"failed_tx", "radio", "tx_disabled"} = {}

\* Mutant: a fault of the radio is left out.
ChannelOkNoRadio(c) ==
  \A s \in InChannel(c) : info[s].connected /\ info[s].faults \subseteq {"radio"}

\* channel_is_ok
ChannelOk(c) == \A s \in InChannel(c) : info[s].connected /\ info[s].faults = {}

\* The device whose assignment to the register of c comes last.
LastDevice(c) ==
  {s \in InChannel(c) :
     /\ s[3] = count[<<c, s[2]>>] - 1
     /\ s[2] = "master" => count[<<c, "minion">>] = 0}

Loop == UNCHANGED <<count, addr, link, test, world>>

\* 500 ms have passed: model_set_connected, and modbus_server_update begins.
BeginPublish ==
  /\ main = "gui"
  /\ connected' = (link = "up")
  /\ main' = "publish" /\ due' = Channel
  /\ Loop /\ UNCHANGED <<info, restartq, taskVars, deviceq, changed, outVars, coming>>

\* One turn of the loop over the channels, between xSemaphoreTake and Give.
Publish(c) ==
  /\ main = "publish" /\ c \in due
  /\ errors' = IF connected /\ ChannelOk(c) THEN errors \ {c} ELSE errors \cup {c}
  /\ registers' = [registers EXCEPT ![c] = {s \in LastDevice(c) : ~InfoOk(info[s])}]
  /\ due' = due \ {c}
  /\ main' = IF due' = {} THEN "queue" ELSE "publish"
  /\ Loop
  /\ UNCHANGED <<info, restartq, taskVars, deviceq, changed, connected, told, afterTest,
                 coming>>

\* channel_guasto_antenna and channel_guasto_radio over every channel.
Faults(i, f) == \E s \in Slot : Listed(s) /\ i[s].faults \cap f # {}
Found(i) == (IF Faults(i, {"antenna", "failed_tx"}) THEN {"antenna"} ELSE {})
            \cup (IF Faults(i, {"radio"}) THEN {"radio"} ELSE {})

\* model_update_channel: without a connection only the flag is cleared.
Apply(i, u) ==
  [i EXCEPT ![u.slot] = IF u.info.connected THEN u.info
                        ELSE [@ EXCEPT !.connected = FALSE, !.from = NULL]]

\* The relays of the faults, which controller_manage leaves to the user in a test.
Refresh(i) == told' = IF test = 1 THEN told ELSE Found(i)

\* The rest of controller_manage up to the first update: the restart the link asks
\* for.  Without an update the relays are refreshed after a test, or when the cables
\* ask for it.
Manage ==
  /\ main \in {"gui", "queue"}
  /\ restartq' = 0
  /\ IF restartq = 1 THEN Restart ELSE NoRestart
  /\ IF deviceq = <<>>
     THEN /\ main' = "gui" /\ afterTest' = 0
          /\ Refresh(info') \/ (afterTest = 0 /\ UNCHANGED told)
     ELSE main' = "drain" /\ UNCHANGED <<told, afterTest>>
  /\ Loop /\ UNCHANGED <<deviceq, changed, connected, due, errors, registers>>

\* One turn of the loop over the updates, among which the tasks may send more, and
\* the relays after the last.
Drain ==
  /\ main = "drain" /\ deviceq # <<>>
  /\ info' = Apply(info, Head(deviceq))
  /\ deviceq' = Tail(deviceq)
  /\ IF deviceq' = <<>> THEN main' = "gui" /\ Refresh(info') /\ afterTest' = 0
                        ELSE UNCHANGED <<main, told, afterTest>>
  /\ Loop /\ UNCHANGED <<restartq, taskVars, changed, connected, due, errors, registers, coming>>

MainLoop ==
  \/ BeginPublish \/ (\E c \in Channel : Publish(c))
  \/ Manage \/ Drain

-----------------------------------------------------------------------------
Next == Environment \/ Testing \/ Save \/ MainLoop \/ (\E s \in Slot : TasksOf(s))

Spec == Init /\ [][Next]_vars

\* As in Connections; besides, 500 ms pass again and again.
FairSpec ==
  /\ Spec
  /\ WF_vars(MainLoop) /\ SF_main(BeginPublish)
  /\ \A s \in Slot : SF_task(TasksOf(s))

-----------------------------------------------------------------------------
(* Properties.                                                             *)

\* The values the variables range over.
TypeOK ==
  /\ count \in Counts /\ addr \in [Slot -> Addr] /\ info \in [Slot -> Info]
  /\ changed \in 0 .. 1 /\ connected \in BOOLEAN
  /\ link \in {"up", "down"} /\ restartq \in 0 .. 1
  /\ task \in [Place -> [at : {"none", "notok", "ask", "report"}, addr : Addr \cup {NULL},
                         stopped : BOOLEAN, alone : BOOLEAN, value : Info]]
  /\ overtaken \in [Slot -> BOOLEAN] /\ unstarted \subseteq Slot
  /\ next \in [Slot -> Addr \cup {NULL}]
  /\ deviceq \in Seq([slot : Slot, info : Info]) /\ Len(deviceq) <= QueueLength
  /\ main \in {"gui", "publish", "queue", "drain"} /\ due \subseteq Channel
  /\ errors \subseteq Channel /\ registers \in [Channel -> SUBSET Slot]
  /\ told \subseteq Relay /\ test \in 0 .. 1 /\ afterTest \in 0 .. 1
  /\ world \in [Addr -> Condition]
  /\ coming \in Seq(SUBSET Disturbance)

\* The Modbus server reads one register at a time, at any moment: a register of a
\* channel never tells of a device while the summary calls the channel well,
\* although the two are computed from different lists of conditions
\* (modbus_server.c:56-74, channel.c:134-167).
RegistersAgree == \A c \in Channel : registers[c] # {} => c \in errors

\* The tasks past the gate of a slot that were not told to stop.
Serving(s) == {t \in {task[<<s, q>>] : q \in Task} : t.at # "none" /\ ~t.stopped}

\* The devices a slot is about to be polled for, or is polled for.
Polled(s) == ({next[s]} \ {NULL}) \cup {t.addr : t \in Serving(s)}

\* The edits are saved, and the tasks restarted since the link is up.
Applied == changed = 0 /\ link = "up" /\ restartq = 0

\* Then every listed device, and no other, is polled at the address its slot lists,
\* although removals move the devices between the slots; only one whose task the last
\* restart could not create, which connections.c does not look at, is not polled at
\* all (channel.c:87-108, controller.c:53-60, connections.c:72, 88).
ServesListed ==
  Applied =>
    \A s \in Slot : Polled(s) = IF Listed(s) /\ s \notin unstarted THEN {addr[s]} ELSE {}

\* From the time its task has told the model that the device is not connected, a
\* slot holds nothing another device has answered, whatever a stopped task of that
\* slot had sent before: the gate keeps the two apart.  Only a task let in beside a
\* stopped one, after a restart overtook another in front of the gate, may find the
\* late update of that one in its slot (connections.c:111, 118, 141, model.c:301-308).
OwnAnswers ==
  Applied =>
    \A s \in Slot : \A t \in Serving(s) :
      /\ t.at \in {"ask", "report"} /\ t.alone
      /\ \A i \in 1 .. Len(deviceq) : deviceq[i].slot = s => deviceq[i].info.connected
      => info[s].from \in {NULL, addr[s]}

Well(s) == world[addr[s]].connected /\ world[addr[s]].faults = {}
SummaryRight == \A c \in Channel : c \in errors <=> \E s \in InChannel(c) : ~Well(s)

AllAnswer == \E s \in Slot : Listed(s) /\ \A r \in Slot : Listed(r) => world[addr[r]].connected
Exists(f) == \E s \in Slot : Listed(s) /\ world[addr[s]].faults \cap f # {}
RelaysRight == /\ "antenna" \in told <=> Exists({"antenna", "failed_tx"})
               /\ "radio" \in told <=> Exists({"radio"})

\* When the disturbances have ended with the link up, the edits saved, the test page
\* left and a task for every listed device, the summary a Modbus client reads comes to
\* tell exactly what the devices of the channel would answer, whatever edits,
\* restarts, late updates and link changes there were; and if every listed device
\* answers, so do the relays of the antenna and radio faults
\* (modbus_server.c:48-75, controller.c:71-80, 88-105 and 124-139).
OutputsTell ==
  <>[](link = "up" /\ changed = 0 /\ test = 0 /\ unstarted = {}) =>
    <>[](SummaryRight /\ (AllAnswer => RelaysRight))
=============================================================================
