---------------------------- MODULE Configuration ----------------------------
(***************************************************************************)
(* The configuration of the system: the pages edit it in memory            *)
(* (src/main/model/model.c, channel.c), the main loop writes it key by key *)
(* to the flash (src/main/controller/storage/configuration.c) and restarts *)
(* the device tasks from it (controller_process_msg of                     *)
(* src/main/controller/controller.c); a boot reads it back.  The power may *)
(* be cut between any two writes, and a failed assertion reboots.          *)
(***************************************************************************)
EXTENDS Integers, Sequences

CONSTANTS
  Channels,     \* MAX_CHANNELS
  MaxMasters,   \* MAX_MASTERS_PER_CHANNEL
  MaxMinions,   \* MAX_MINIONS_PER_CHANNEL
  Octets,       \* values of the last part of an address (256)
  DefaultOctet, \* the one model_init gives the controller
  Typed,        \* addresses the user types in
  OptionValues, \* values of the cables and of the password
  Flaky,        \* the keys whose writes to the flash may fail
  Starved       \* the places <<kind, channel, index>> whose task a restart may not create

Channel == 1 .. Channels
Kind == {"master", "minion"}
Address == 0 .. Octets - 1
Garbage == -1  \* a device address no load has set: app_main has its model on the stack
Absent == -2   \* a key never written
NoTask == -3   \* in place of the address of a device that no task talks to

ASSUME ConfigurationAssumption ==
  /\ Channels \in Nat \ {0} /\ MaxMasters \in Nat /\ MaxMinions \in Nat
  /\ Octets \in Nat \ {0} /\ DefaultOctet \in Address
  /\ Typed \subseteq Address
  /\ OptionValues \subseteq Nat /\ 0 \in OptionValues

Limit == [k \in Kind |-> IF k = "master" THEN MaxMasters ELSE MaxMinions]

VARIABLES
  setting,    \* ip_addr, cavi and password of the model
  devices,    \* the addresses of each channel, by kind
  toSave,     \* to_save
  netChanged, \* network_config_changed
  main,       \* what the main loop does: "gui", "save", "restart" from a save
  unwritten,  \* the keys configuration_save still has to write
  nvs,        \* the flash
  linked,     \* ethernet_is_connected
  handler,    \* the callback the event task is about to make: "up", "down", "none"
  restart,    \* a restart waits in the queue of the controller
  running,    \* the addresses the device tasks talk to
  aborted     \* the last boot followed a failed assertion

\* History variables: no action reads them.
VARIABLES
  before,     \* the flash when the present save began
  lost        \* keys that the last save failed to write

model == <<setting, devices, toSave, netChanged>>
link == <<linked, handler, restart, running>>
vars == <<model, main, unwritten, nvs, link, aborted, before, lost>>

-----------------------------------------------------------------------------
(* Keys.  <<k, c, 0>> holds the number of devices, <<k, c, j>> an address. *)

Setting == {"IPADDR", "CABLES", "PASSWORD"}

Key == (Setting \X {0} \X {0})
       \cup {key \in Kind \X Channel \X (0 .. MaxMasters + MaxMinions) :
               key[3] <= Limit[key[1]]}

\* What the model holds at a key in use.
ModelValue(key) ==
  IF key[1] \in Setting THEN setting[key[1]]
  ELSE IF key[3] = 0 THEN Len(devices[key[2]][key[1]])
  ELSE devices[key[2]][key[1]][key[3]]

KeysInUse ==
  {key \in Key : key[1] \in Setting \/ key[3] <= Len(devices[key[2]][key[1]])}

\* Mutant: the numbers of all the channels come before the addresses.
PositionNumbersFirst(key) ==
  IF key[1] \in Setting
  THEN IF key[1] = "IPADDR" THEN 0 ELSE IF key[1] = "CABLES" THEN 1 ELSE 2
  ELSE IF key[3] = 0 THEN 3 + 2 * key[2] + (IF key[1] = "master" THEN 0 ELSE 1)
  ELSE 5 + 2 * Channels + (key[2] - 1) * (MaxMasters + MaxMinions)
       + (IF key[1] = "master" THEN key[3] ELSE MaxMasters + key[3])

\* The place of a key in the order of configuration_save.
Position(key) ==
  IF key[1] \in Setting
  THEN IF key[1] = "IPADDR" THEN 0 ELSE IF key[1] = "CABLES" THEN 1 ELSE 2
  ELSE 3 + (key[2] - 1) * (2 + MaxMasters + MaxMinions)
       + (IF key[3] = 0
          THEN IF key[1] = "master" THEN 0 ELSE 1
          ELSE IF key[1] = "master" THEN 1 + key[3] ELSE 1 + MaxMasters + key[3])

\* What model_init leaves at a key.
Default(key) ==
  IF key[1] = "IPADDR" THEN DefaultOctet
  ELSE IF key[1] \in Setting \/ key[3] = 0 THEN 0
  ELSE Garbage

\* What configuration_load reads from a flash: a key it misses keeps its default.
Loaded(flash, key) == IF flash[key] = Absent THEN Default(key) ELSE flash[key]

LoadedChannel(flash, c) ==
  [k \in Kind |-> [j \in 1 .. Loaded(flash, <<k, c, 0>>) |-> Loaded(flash, <<k, c, j>>)]]

NoDevices == [c \in Channel |-> [k \in Kind |-> <<>>]]

-----------------------------------------------------------------------------
Init ==
  /\ nvs = [key \in Key |-> Absent]
  /\ setting = [s \in Setting |-> Default(<<s, 0, 0>>)] /\ devices = NoDevices
  /\ toSave = 0 /\ netChanged = 0
  /\ main = "gui" /\ unwritten = {}
  /\ linked = 0 /\ handler = "none" /\ restart = 0 /\ running = NoDevices
  /\ aborted = 0 /\ before = nvs /\ lost = {}

\* The board starts again: model_init, configuration_load.
Boot ==
  /\ setting' = [s \in Setting |-> Loaded(nvs, <<s, 0, 0>>)]
  /\ devices' = [c \in Channel |-> LoadedChannel(nvs, c)]
  /\ toSave' = 0 /\ netChanged' = 0
  /\ main' = "gui" /\ unwritten' = {}
  /\ linked' = 0 /\ handler' = "none" /\ restart' = 0 /\ running' = NoDevices
  /\ before' = nvs /\ lost' = {}
  /\ UNCHANGED nvs

-----------------------------------------------------------------------------
(* The pages edit the model.                                               *)

Own == setting["IPADDR"]

\* The bound of the loops of model_ip_address_already_in_use, which ask for the
\* number of devices of channel j, not i.
Scanned(k) ==
  {j \in Channel : \A i \in 1 .. j : i <= Len(devices[i][k])}

\* model_ip_address_already_in_use
AlreadyInUse(ip) ==
  \/ ip = Own
  \/ \E c \in Channel, k \in Kind : \E j \in Scanned(k) :
       j <= Len(devices[c][k]) /\ devices[c][k][j] = ip

\* next_ip_addr returns ip: the first free address after the controller's own, or
\* its own when there is none.
IsNextAddress(ip) ==
  \/ ip = Own /\ \A other \in Address : AlreadyInUse(other)
  \/ /\ ~ AlreadyInUse(ip)
     /\ \E i \in 1 .. Octets : /\ ip = (Own + i) % Octets
                              /\ \A j \in 1 .. i - 1 : AlreadyInUse((Own + j) % Octets)

\* The search asks channel_get_minion_ip for more minions than it accepts.
SearchAborts == \E j \in Scanned("minion") : j > MaxMasters

NetworkEdited == toSave' = 1 /\ netChanged' = 1
OnlyEdits == UNCHANGED <<main, unwritten, nvs, link, aborted, before, lost>>

\* The page shows its button below the limit only.
AddDevice(c, k) ==
  /\ main = "gui" /\ Len(devices[c][k]) < Limit[k] /\ ~ SearchAborts
  /\ \E ip \in Address : /\ IsNextAddress(ip)
                         /\ devices' = [devices EXCEPT ![c][k] = Append(@, ip)]
  /\ NetworkEdited
  /\ UNCHANGED setting /\ OnlyEdits

\* Mutant: the removal is not marked.
RemoveDeviceForgets(c, k) ==
  /\ main = "gui"
  /\ \E i \in 1 .. Len(devices[c][k]) :
       devices' = [devices EXCEPT ![c][k] = SubSeq(@, 1, i - 1) \o SubSeq(@, i + 1, Len(@))]
  /\ UNCHANGED <<setting, toSave, netChanged>> /\ OnlyEdits

RemoveDevice(c, k) ==
  /\ main = "gui"
  /\ \E i \in 1 .. Len(devices[c][k]) :
       devices' = [devices EXCEPT ![c][k] = SubSeq(@, 1, i - 1) \o SubSeq(@, i + 1, Len(@))]
  /\ NetworkEdited
  /\ UNCHANGED setting /\ OnlyEdits

\* Mutant: the new address is saved, the network is left as it is.
SetAddressQuietly(c, k) ==
  /\ main = "gui"
  /\ \E j \in 1 .. Len(devices[c][k]), ip \in Typed :
       devices' = [devices EXCEPT ![c][k][j] = ip]
  /\ toSave' = 1
  /\ UNCHANGED <<setting, netChanged>> /\ OnlyEdits

\* The pages of a master and of a minion.
SetAddress(c, k) ==
  /\ main = "gui"
  /\ \E j \in 1 .. Len(devices[c][k]), ip \in Typed :
       /\ k = "minion" => j <= MaxMasters
       /\ devices' = [devices EXCEPT ![c][k][j] = ip]
  /\ NetworkEdited
  /\ UNCHANGED setting /\ OnlyEdits

\* model_set_my_ip_parts
SetOwn ==
  /\ main = "gui"
  /\ \E ip \in Typed : setting' = [setting EXCEPT !["IPADDR"] = ip]
  /\ NetworkEdited
  /\ UNCHANGED devices /\ OnlyEdits

\* model_set_cable, model_set_password
SetOption ==
  /\ main = "gui"
  /\ \E s \in Setting \ {"IPADDR"}, v \in OptionValues :
       setting' = [setting EXCEPT ![s] = v]
  /\ toSave' = 1
  /\ UNCHANGED <<devices, netChanged>> /\ OnlyEdits

Edit ==
  \/ \E c \in Channel, k \in Kind : AddDevice(c, k) \/ RemoveDevice(c, k) \/ SetAddress(c, k)
  \/ SetOwn \/ SetOption

-----------------------------------------------------------------------------
(* VIEW_CONTROLLER_COMMAND_CODE_SAVE_CONFIG.                               *)

\* Mutant: the settings are written when the network has changed only.
BeginSaveNetwork ==
  /\ main = "gui" /\ main' = "save"
  /\ unwritten' = IF netChanged = 1 THEN KeysInUse ELSE {}
  /\ before' = nvs
  /\ lost' = IF toSave = 1 THEN {} ELSE lost
  /\ UNCHANGED <<model, nvs, link, aborted>>

BeginSave ==
  /\ main = "gui" /\ main' = "save"
  /\ unwritten' = IF toSave = 1 THEN KeysInUse ELSE {}
  /\ before' = nvs
  /\ lost' = IF toSave = 1 THEN {} ELSE lost
  /\ UNCHANGED <<model, nvs, link, aborted>>

\* One call of save_*_option: a failure is only logged.
WriteKey ==
  /\ main = "save"
  /\ \E key \in unwritten : \E ok \in IF key \in Flaky THEN BOOLEAN ELSE {TRUE} :
       /\ \A other \in unwritten : Position(key) <= Position(other)
       /\ unwritten' = unwritten \ {key}
       /\ nvs' = IF ok THEN [nvs EXCEPT ![key] = ModelValue(key)] ELSE nvs
       /\ lost' = IF ok THEN lost \ {key} ELSE lost \cup {key}
  /\ UNCHANGED <<model, main, link, aborted, before>>

\* A minion that channel_get_minion_ip does not accept.
TooManyMinions == \E c \in Channel : Len(devices[c]["minion"]) > MaxMasters

\* model_set_saved, then the network if it changed.
EndSave ==
  /\ main = "save" /\ unwritten = {}
  /\ toSave' = 0
  /\ IF netChanged = 1 /\ linked = 1
     THEN main' = "restart" /\ UNCHANGED netChanged
     ELSE main' = "gui" /\ netChanged' = 0
  /\ before' = nvs
  /\ UNCHANGED <<setting, devices, unwritten, nvs, link, aborted, lost>>

\* connections_restart: a task for every device, but those for which xTaskCreate fails.
\* Its interleavings are those of Connections.
Restarted ==
  \E failed \in SUBSET Starved :
    running' = [c \in Channel |-> [k \in Kind |-> [j \in 1 .. Len(devices[c][k]) |->
                  IF <<k, c, j>> \in failed THEN NoTask ELSE devices[c][k][j]]]]

RestartFromSave ==
  /\ main = "restart" /\ ~ TooManyMinions
  /\ main' = "gui" /\ netChanged' = 0 /\ Restarted
  /\ UNCHANGED <<setting, devices, toSave, unwritten, nvs, linked, handler, restart,
                 aborted, before, lost>>

-----------------------------------------------------------------------------
(* The link.                                                               *)

\* The handlers of the event task set or clear the bit, then make their callback.
GotIp ==
  /\ handler = "none" /\ handler' = "up" /\ linked' = 1
  /\ UNCHANGED <<model, main, unwritten, nvs, restart, running, aborted, before, lost>>

LinkDown ==
  /\ handler = "none" /\ handler' = "down" /\ linked' = 0
  /\ UNCHANGED <<model, main, unwritten, nvs, restart, running, aborted, before, lost>>

\* restart_connections, connections_clear
Callback ==
  /\ handler # "none" /\ handler' = "none"
  /\ IF handler = "up" THEN restart' = 1 /\ UNCHANGED running
                       ELSE running' = NoDevices /\ UNCHANGED restart
  /\ UNCHANGED <<model, main, unwritten, nvs, linked, aborted, before, lost>>

\* controller_manage finds the message of restart_connections.
TakeRestart ==
  /\ main = "gui" /\ restart = 1 /\ ~ TooManyMinions
  /\ restart' = 0 /\ Restarted
  /\ UNCHANGED <<model, main, unwritten, nvs, linked, handler, aborted, before, lost>>

-----------------------------------------------------------------------------
\* assert(m < MAX_MASTERS_PER_CHANNEL) fails for a minion: on its page, in the
\* search for a free address, in connections_restart.
AbortDue == TooManyMinions /\ main \in {"gui", "restart"}

\* The power is cut and comes back, at any time, or an assertion has failed.
Reboot == Boot /\ \E failed \in 0 .. 1 : (failed = 1 => AbortDue) /\ aborted' = failed

Next ==
  Edit \/ BeginSave \/ WriteKey \/ EndSave \/ RestartFromSave
  \/ GotIp \/ LinkDown \/ Callback \/ TakeRestart \/ Reboot

Spec == Init /\ [][Next]_vars
-----------------------------------------------------------------------------
(* Properties.                                                             *)

Table(values) == [Channel -> [Kind -> Seq(values)]]
DeviceTable == Table(Address \cup {Garbage})
TaskTable == Table(Address \cup {Garbage, NoTask})

FitsLimits(table) == \A c \in Channel, k \in Kind : Len(table[c][k]) <= Limit[k]

\* What a key can hold.
KeyValues(key) ==
  IF key[1] = "IPADDR" THEN Address
  ELSE IF key[1] \in Setting THEN OptionValues
  ELSE IF key[3] = 0 THEN 0 .. Limit[key[1]]
  ELSE Address \cup {Garbage}

FlashOK(flash) ==
  flash \in [Key -> Int] /\ \A key \in Key : flash[key] \in KeyValues(key) \cup {Absent}

\* The values the variables range over.
TypeOK ==
  /\ setting \in [Setting -> Int] /\ \A s \in Setting : setting[s] \in KeyValues(<<s, 0, 0>>)
  /\ devices \in DeviceTable /\ FitsLimits(devices)
  /\ running \in TaskTable /\ FitsLimits(running)
  /\ toSave \in 0 .. 1 /\ netChanged \in 0 .. 1
  /\ main \in {"gui", "save", "restart"} /\ handler \in {"none", "up", "down"}
  /\ unwritten \subseteq (IF main = "save" THEN KeysInUse ELSE {})
  /\ FlashOK(nvs) /\ FlashOK(before) /\ lost \subseteq Key
  /\ linked \in 0 .. 1 /\ restart \in 0 .. 1 /\ aborted \in 0 .. 1

\* With nothing to save, a boot would bring back the model as it is, whatever was
\* added, removed, saved, torn and booted before; only a failed write, which
\* configuration_save does not report, is forgiven (model.c:225, controller.c:48-51).
StoredWhenSaved ==
  main = "gui" /\ toSave = 0 =>
    \A key \in KeysInUse \ lost : Loaded(nvs, key) = ModelValue(key)

\* The inductive form of StoredWhenSaved: a save under way has only the unwritten
\* keys left to bring up to date.
SaveInv ==
  /\ toSave = 0 => unwritten = {}
  /\ main = "save" \/ toSave = 0 =>
       \A key \in KeysInUse \ (lost \cup unwritten) : Loaded(nvs, key) = ModelValue(key)

\* Cutting the power during a save tears one channel at most: every other one comes
\* back as it was before the save or as it was to become (configuration.c:57-79).
AtMostOneTorn ==
  main = "save" /\ toSave = 1 /\ lost = {} =>
    \E torn \in Channel : \A c \in Channel \ {torn} :
      LoadedChannel(nvs, c) \in {LoadedChannel(before, c), devices[c]}

\* The options and the channels, each saved as a unit.
Part == (Setting \X {0}) \cup ({"CHANNEL"} \X Channel)
PartOf(key) == IF key[1] \in Setting THEN <<key[1], 0>> ELSE <<"CHANNEL", key[2]>>

\* What the model holds of a part, and what a boot would load of it.
Shown == [p \in Part |-> IF p[2] = 0 THEN setting[p[1]] ELSE devices[p[2]]]
Kept == [p \in Part |-> IF p[2] = 0 THEN Loaded(nvs, <<p[1], 0, 0>>)
                       ELSE LoadedChannel(nvs, p[2])]

\* The parts a save has not finished, and the one it has begun: the number of its
\* masters is the first key of a channel.
Due == {PartOf(key) : key \in unwritten}
Torn == {p \in Due : p[2] # 0 /\ <<"master", p[2], 0>> \notin unwritten}

\* The keys of the flash implement the store of SettingsStore.tla: whenever the power
\* is cut, whatever edits and saves came before, one part at most comes back as
\* neither what was kept nor what was to be (configuration.c:21-80).
Store == INSTANCE SettingsStore WITH
  Faulty <- {PartOf(key) : key \in Flaky},
  shown <- Shown, kept <- Kept, edited <- toSave = 1, saving <- main = "save",
  due <- Due, torn <- Torn
Stored == Store!Spec

\* The tasks talk to the devices of the table, but for those whose task the last
\* restart could not create.
TalksTo(table) ==
  \A c \in Channel, k \in Kind :
    /\ Len(running[c][k]) = Len(table[c][k])
    /\ \A j \in 1 .. Len(table[c][k]) : running[c][k][j] \in {table[c][k][j], NoTask}

\* While the link is up, the event task has told so, no restart is due and the
\* network was not edited, the tasks talk to the addresses of the model and to no
\* other, in the middle of a save as well (ethernet.c:155-206, controller.c:53-60,
\* 95-98, connections.c:72, 88).
RunningIsConfigured ==
  linked = 1 /\ handler = "none" /\ restart = 0 /\ netChanged = 0 => TalksTo(devices)

\* Its inductive form: the callback that clears the tasks is due without link only.
RunningInv == RunningIsConfigured /\ (handler = "down" => linked = 0)

\* channel.h allows four minions in a channel (MAX_MINIONS_PER_CHANNEL), and no
\* assertion of channel.c fails for one of them.
NoAbort == aborted = 0
=============================================================================
