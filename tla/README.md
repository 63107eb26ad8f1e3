# A formal model of the radio supervision panel

The program is the firmware of a wall panel (ESP32, FreeRTOS, C) that supervises radio-over-IP
devices.  Up to five *channels* are configured on a touch display, each with up to two *masters* and
four *minions*.  For every configured device the firmware keeps a task that polls it over TCP; what
the devices report is shown on the display, published on a Modbus/TCP server and driven onto four
relays.  Line numbers below are those of `src/main`.

This directory holds TLA+ modules of that code, the TLC configurations that check them on small
instances, and proofs, checked by TLAPS, of what holds for every size.

## Inventory

### Components, their state and their operations

| component | source | state | operations |
|---|---|---|---|
| connection supervisor | `controller/connections.c` | `tasks[]`, `stopped[]`, notification values, one loop per task | init, clear, restart, the device task, the two kinds of update |
| main controller | `controller/controller.c`, `gui.c`, `main.c` | `queue` (1), `deviceq` (30), `test`, `update_after_test`, static copies of the cable state | init, process_msg (save, test, test of a relay, re-enable), manage |
| model | `model/model.c`, `model/channel.c` | channels, addresses, device information, `to_save`, `network_config_changed` | add, remove, set address, update, reset, status queries |
| configuration | `controller/storage/configuration.c`, `peripherals/storage.c` | NVS keys | load at boot, save key by key, compatibility check |
| management board | `peripherals/management_board.c` | relay `queue` (8), `state`, four output pins | set_relay, the task, queries |
| ethernet | `peripherals/ethernet.c` | `EVENT_GOT_IP`, `current_ip`, two callbacks | set_ip, set_callbacks, the two event handlers |
| device protocol | `controller/device.c` | a socket, a reception buffer | connect, get_state |
| Modbus server | `controller/modbus_server.c` | `errors`, `channels[]`, one connection | update, the task, the register callback |
| API manager | `network/api_manager.c` | `queue` (8), HTTP buffers | enable_async, the task, the HTTP event handler |
| view | `view/view.c`, `view/pages/*.c`, `view/common.c` | page stack, event queue (32), page data | change, rebase, back, process_event of ten pages |
| SPI bus lock | `peripherals/system.c` | one mutex | take, give |
| display and touch drivers | `peripherals/display/` | the average of a touch | initialise, reconfigure, flush, read of a touch |
| heartbeat, theme, images, simulator, tools | | | a led, layout and off-target code |

### How they interact

* The **main loop** (`main.c:47-52`) alternates `controller_manage_gui` and `controller_manage`.  It
  owns the model and is the only reader of `queue` and `deviceq`.
* The **event task** of ESP-IDF runs the Ethernet handlers; they call back into the supervisor
  (`connections_clear`) and into the controller (`restart_connections`, which overwrites `queue`).
* A **device task** per device sends updates through `deviceq`, blocking when it is full; it is
  stopped by a task notification and passes an event group (`stopped[]`, here the *gate*) at its
  start, which its predecessor opens at its end.
* The **board task** takes relay commands from a queue of eight and samples the inputs, over the SPI
  bus on which the main loop drives the display and reads the touch panel.
* The **Modbus task** reads registers that the main loop rewrites every 500 ms, under a mutex.
* The **API task** performs the HTTP requests the user asked for.  Device tasks, Modbus task and API
  task take their sockets from one pool of sixteen (`CONFIG_LWIP_MAX_SOCKETS`).

### What is hard, and what makes each component correct

* *Supervisor*: `tasks[]` is walked by the main loop and by the event task at once; a restart starts
  new tasks before the old ones have gone; the stop signal may arrive anywhere.  Correct means: no
  task is lost without being told to stop, a slot never has two tasks in service, the gate is neither
  lost nor left shut, a stopped task sends at most one more update, everything ends when nothing is
  served, and what the model shows is in the end what the present task reports.
* *Controller and board*: relay commands go through a queue that drops them when it is full, test
  mode suspends the automatic commands, and two writers share an output.  Correct means: outside test
  mode each relay comes to show the fault it stands for.
* *Configuration*: the save writes key after key, the power may fail in between, the boot trusts
  what it finds.  Correct means: `to_save = 0` implies that a boot would find what the model holds,
  and a configuration the pages allow never keeps the panel from starting.
* *Model*: device slots shift when one is removed while updates for the old numbering are queued.
* *Ethernet*: callbacks are installed after the address is set; events may precede them.
* *View*: events queued before a page change belong to the old page, and are thrown away; what they
  told must not be.  Correct means: no touch reaches another page, whatever was edited is saved on
  the way back, the test mode lasts as long as its page, the menu is locked, and no page shows as
  good what has been reported as faulty.
* *Modbus and API*: a reader may see registers of two different updates; clients close, are reset,
  vanish or send half a request; sockets run out.  Correct means: summary and registers never
  contradict each other and come to tell what the devices would answer, nobody waits for a
  service that is free, and the server survives the errors of its clients.
* *SPI bus*: two tasks and three chips, one of which is selected by hand.  Correct means: no access
  hears the bytes of another, nobody keeps the bus for ever, an area arrives whole, and a touch is
  made of points of that touch.

The list of single hazards, each at its line, is in `PROJECT.json`.

## What is modelled, and how it corresponds to the code

### Connections (`controller/connections.c` and what drives it)

A step is a stretch of code between two points where another task may run.  Three kinds of processes
interleave:

* the **main loop**: `main` is its program counter.  `SetCallbacks` ends the boot; `EditConfig`,
  `SaveConfig` are the events `controller_manage_gui` handles; `LeaveGui`, `TakeRestart`, `Drain`,
  `DrainDone` are `controller_manage`; `ClearTest`, `ClearNotify`, `ClearForget` are the test, the
  notification and the assignment of one turn of `connections_clear`; `Spawn` is one turn of the
  loops of `connections_restart`, `SpawnDone` the return from it;
* the **event task**: `LinkDown` (with `connections_clear` as its callback) and `GotIp` (with
  `restart_connections`).  They may come between any two steps of the main loop, also in the middle
  of its own `connections_clear`;
* a **device task** per control block: one action per call of `device_communication_task` that can
  block or fail, from the gate (`EnterGate`) to `xEventGroupSetBits` and `vTaskDelete` (`End`).

`tasks` is `tasks[]`; `gate` is bit 1 of the event groups `stopped[]`; `notified` the notification
value (above zero or not); `deviceq` the queue of updates, an update reduced to its slot and to
whether its sender still serves that slot; `fresh` says whether the model shows what the present task
of the slot has reported.  A control block freed by `vTaskDelete` is used again by a later
`xTaskCreate`, and `xTaskCreate` fails when there is none.  The main loop reads `tasks[i]` twice
(`connections.c:41-42`), and the event task may clear the table between the two: the handle it then
notifies may be that of a task that has ended meanwhile (or NULL, if the compiler reads again).  What
FreeRTOS does with it is undefined; `Notify` makes it a notification that nobody sees, and a crash is
not looked for.  `TableInv` shows that the table itself keeps no handle of a task that has gone, except
between the notification and the assignment of NULL; the handle in the hand of the main loop may be
such a one from the test on.  `overtaken` is a history
variable: a task of the slot was told to stop while it was still in front of the gate, and the slot
has not been empty since.  Setting the bit of an event group wakes every waiter (`End` moves all
`Waiters`), so that such a task comes through together with its successor and may set the bit again
while that one works.

`Supervision` is what this promises, and what `DeviceStatus` relies on: a slot has one serving task at
most; its tasks come past the gate one after the other, unless the slot was overtaken; a task told to
stop never serves again and leaves, after one more update at most, or none if it was in front of the
gate.  `Connections` implements it with *serving* = the tasks not notified, *leaving* = those notified,
*inside* = those past the gate, and *silent* = those notified that are outside the calls that send.

### Relays (`management_board.c` and the relay part of `controller.c`)

`todo` holds the commands that the handler under execution still has to send; `SendNext` is one
`xQueueSend` with timeout zero, so that the board task may empty the queue between two commands of
a round, and a full queue drops one.  `EnterTest`, `TestRelay`, `LeaveTest` are the two commands of
the test page; `ManageCables` and `ManageFaults` are `controller_manage` in its order;
`BoardReceive`, `BoardSample`, `BoardPower` one turn of the board task, whose last step writes pin 9,
the pin of relay 1, by itself: that this one write may go wrong on the bus is the matter of `SpiBus`.
What the devices report is reduced to the two faults that have a
relay, and may change with an update or, when devices are removed or restarted, without one.
The board reports no cable fault: `update_state` clears all four (`CableAnomaly == 0`).
`judged`, `asked`, `missed` are history variables.

### Configuration (`model.c`, `channel.c`, `configuration.c`, `storage.c`, the save in `controller.c`)

`setting` and `devices` are the part of the model that is saved, addresses by their last part;
`nvs` is the flash, a function from keys.  `AddDevice`, `RemoveDevice`, `SetAddress`, `SetOwn`,
`SetOption` are what the pages do; `BeginSave`, one `WriteKey` per `save_*_option`, `EndSave` and
`RestartFromSave` are the save; `Position` is the order of the writes; `GotIp`, `LinkDown` set the
link bit and `Callback` makes the callback after it.  `Reboot` is a power cut, which may happen
anywhere, or the failed assertion of `AbortDue`, followed by `Boot`: `model_init` and then
`configuration_load`, which trusts what it finds.  `app_main` has its model on the stack: an address
the load does not set is `Garbage`.  Writes of the keys in `Flaky` may fail.  `AlreadyInUse` has the
loop bounds of `model_ip_address_already_in_use` as they are written, with the channel index and the
device index exchanged.  A restart makes a task for each device, but those of the places in `Starved`
may not be created, since `connections_restart` does not look at the result of `xTaskCreate`: such a
place has `NoTask` in `running` until the next restart.  The keys that the last save failed to write
are in the history variable `lost`, and `before` is the flash as the present save found it.

`SettingsStore` is the promise: the settings are kept in *parts*, the three options and each channel.  A
save replaces them one after the other; one part at most is a mixture, the others are as they were or
as they are to be, and a restart shows what is kept.  `Configuration` implements it (`Stored`) with
`Kept`, what a boot would load, for the parts; a part is due while one of its keys is unwritten, and
torn once the number of masters, the first key of a channel, is written and another is not.  A key
whose write may fail makes its part *faulty*: it may be finished with the wrong value.

### View (`view/view.c`, `view/pages`, `view/common.c`, and the two functions of the main loop)

All of this runs on the main loop; what varies is when the user touches the display, when devices
report and when the link and the power supply change.  `stack` is the page stack, its last element
the current page; `screen` what the widgets of the current page are and show; `queue` the event
queue.  `Touch` and `EnterDigits` are the callbacks that `lv_task_handler` makes, possibly several
before the loop of `controller_manage_gui` takes the first event; each `Process` is one turn of this
loop: `process_event` of the page on top (`ProcessMain`, `ProcessMenu`, ...), then the command for
the controller and the one for the view.  `Manage` is `controller_manage` as far as the view sees it:
the state of the link, a restart of the connections when the link asks for one, the reports of the
devices, the cables and the power supply, and the events about them.  A restart, here and in
`SaveConfig`, makes the configured channels not connected (`Reset`) and raises no event; `silent` is a
history variable with the channels that only a restart has made bad since the last event.
`XWidgets` are the widgets that `open_page` and `update_page` of page X make; a value the page reads
from a widget is chosen when the event is processed.  The page manager is a submodule that is not in
the repository: that it updates a page it opens is inferred from the pages which would stay empty
otherwise (`page_channel_settings.c`, `page_main.c`).  Faults are kept by channel (`faulty`), and the
channels have only as many minions as no assertion fails for (`minion_abort`).

### DeviceStatus (`model.c`, `channel.c`, the updates of `connections.c`, the outputs)

The way of a fault from the device to the outputs.  `count`, `addr` and `info` are the lists of a
channel; `AddDevice`, `RemoveDevice`, `SetAddress` edit them, and a removal moves the devices behind
it, with their information, into the places before them.  `Save`, `LinkDown`, `GotIp` restart or stop
the tasks; a restart may fail to create some of them, and the slots of these are `unstarted` until the
next.  The device tasks are reduced to what `Supervision` promises of them: those past the gate of
a slot (`task`) and the one in front of it that was not told to stop (`next`).  There is one past the
gate at a time, unless the slot was `overtaken`; `alone` is a history field that says whether a task
found its slot empty.  `Ask` is the wait for the notification and the
exchange with the device, `SendNotOk` and `Report` put an update into `deviceq`.  `Manage` and `Drain`
are `controller_manage`: the restart, then one turn for each update, between which the tasks may
send more (`Apply` is `model_update_channel`, which leaves the faults as they are when the update says
"not connected"), and the relays after the last (`Refresh`), which are left to the user while the test
page is open.  `BeginTest` and `EndTest` are the test page as far as the relays of the faults go; what
its buttons leave them at is chosen when it is left.  `BeginPublish` and one `Publish` per channel are
`modbus_server_update`, between whose turns a client may read.  `world` is what each device would
answer; the `from` of an information is a history field: the address that has answered.

### Network (`modbus_server.c`, `api_manager.c`, the sockets of `device.c`)

`server` is the place of `modbus_server_task`, with one action for each call that may block or fail;
`conn` is the client of `connfd`, `backlog` the connections that wait for `accept`, `rx` the halves
of a request that have arrived.  `Connect`, `Request`, `SecondHalf`, `Leave` are the clients: they
close in good order, are reset, or vanish without a word, while they are served or wait.  `Accept`
fails when there is no socket, and may fail for a client that was reset while it waited; any error of
`accept` leaves both loops and ends the task.  A closed connection makes `read` return
0, which is no error, so that the service loop turns; an answer written to it brings a reset.
`lost` counts the values of `connfd` that nobody closes.  `EnableAsync` is the main loop's request to
the API task; `ApiReceive`, `Perform`, `OnData`, `OnFinish`, `BreakOff` are this task with its event
handler.  `Polls` stands for all device tasks: they open and close sockets of the same pool.
`refused` (bind, listen or accept has failed although there was a socket) and `peak` (the most sockets
the device tasks have held at once) are history variables.

### SpiBus (`system.c`, `SSD2119.c`, `tsc2046.c`, the accesses of `management_board.c`)

`holder` is the task that has the mutex.  A label of `main` that names an operation stands before its
take, the same label with `-ing` after it: the display is initialised, configured anew and drawn by
`Display`, in transfers of `MAX_TRANSFER_SIZE`; the panel is read by `Panel`, which takes the bus for
each coordinate.  `Board` is the board task; from `Select` to the end of an access the chip of the
port expander is selected, and `Transfer`, a transfer to another chip, notes in `spoilt` what it
was doing if it was.  `Corrected` and `Average` are `tsc2046_corr` and `tsc2046_avg`.

## What each run checks

| run | instance | question and answer |
|---|---|---|
| `supervisor` | 1 slot, 2 blocks, queue 1, 1 socket | do `tasks[]`, gates and tasks agree under restarts, link changes and the race of the two clears; do the tasks of a slot work one after the other; how many updates does a stopped task send; is this `Supervision`; does a recorded task get through its gate, does the model settle on it, does everything end?  yes; unless one is overtaken; one at most; yes |
| `socket_leak` | 1 slot, 2 blocks, 2 sockets | is every socket closed?  **no**, see below |
| `relays` | queue 1, antenna fault, mains fails | do the fault relays follow the main loop outside a test and the user in it; do the pins come to show faults that stay, and the model the power supply?  yes |
| `cable_relay` | queue 3, mains fails | does relay 1 show the cables?  **no** |
| `configuration` | 2 channels of one master, one key that may refuse a write, one task that may not be created | what does a power cut during a save leave, is this a `SettingsStore`, does "nothing to save" mean that the flash holds the model, do the tasks talk to the configured addresses?  one channel torn at most; yes; yes, but for failed writes; yes, and to no other |
| `minion_abort` | 1 master, 2 minions | does the assertion of `channel_get_minion_ip` hold?  **no** |
| `pages` | 1 channel of 2 devices, 1 cable, queue 3, a link that comes and goes | do the pages save, show, test and protect what they should, whatever waits in the queue when a page changes?  yes |
| `stale_display` | 1 channel, the link may go down | does the main page follow the state of the channels?  **no** |
| `status` | 1 channel of 1 or 2 masters, queue 1, 2 tasks past a gate, 2 to 4 disturbances | do registers and summary agree at any moment, do the tasks serve the listed devices, does a slot hold only answers of its own device, do the summary and the relays come to tell what the devices would answer?  yes; yes, but for tasks that were not created; yes; yes, when no task is missing and the test page is left |
| `network` | 2 clients, 5 sockets, 2 devices, API queue 1 | does the server come back to the next client, answer what arrives whole, survive the clients it serves; are queued requests performed?  yes, with the provisos of the properties |
| `client_gone` | the same | does the chat with a client end when it closes?  **no** |
| `bus` | 2 x 2 pixels, transfers of 4 bytes, average of 2, a moving pen | can any access but the unlocked one be spoilt, is an area sent whole, is an average of one touch, do both tasks go on?  no; yes |

The type invariants of `Connections`, `Relays`, `Configuration`, `View` and `Network` are proved and no
run repeats them.

### Bounds

Slots, blocks, queue lengths, channels and addresses bound the instances; two guards bound what could
go on for ever: `Scenario` in `DeviceStatus` (the lists at boot, each with a sequence of the kinds of
disturbance that may come first, second and so on: edits, link changes, changes of a device, a restart
without memory for a task, a test) and `MaxOutput` in `Network` (pieces of an answer counted at a time).
Other counters are bounded by the model (`late` and `leaked` by blocks and sockets, `lost` by the
sockets).
The bounds are chosen so that the scarce thing runs out:

* Two blocks on one slot are a stopped task on its way out and one that waits at the gate, and leave
  none for a third: `xTaskCreate` fails.  A device queue of one blocks every second sender.
* A relay queue of one cannot take a round of two commands, let alone the four of a new test.
* Two channels are needed to see a save torn between them; the address of a device is the key that
  may fail, so that a channel may be finished with an old one; two addresses for them and the panel
  let the search for an address succeed, wrap and fail.
* A view queue of three holds the two events of the controller and a touch, or three touches, and
  loses the next; the pages of several channels differ in their number only.
* A task of the second channel is the one that may not be created (`Starved`), and a key of the first
  the one whose write may fail, so that each is seen beside a channel that has everything.
* Two masters are the least that a removal moves.  The scenarios of `status` are the disturbances that
  matter to one another: any three of link changes, changes of a device, missing memory and tests with
  a lone master, or one of them after it was readdressed; a list that becomes empty and full again under a
  device that breaks and falls silent; a restart or stop of the tasks of the first start, which may
  overtake them, and then a removal; a device that breaks and then falls silent, is removed, readdressed
  or not restarted.  Restarts, late updates and publications come at any moment between them.  Two tasks past
  a gate are a stopped one and its successor, or the pair that an overtaking restart lets in.  Two
  addresses suffice for a device to come back under another slot; the user types in (`Typed`) the
  second only, which readdresses a lone master and makes two masters share an address.  The theorems
  hold for any set of typed addresses.
* Five sockets are the listener and one for the API task, and three for which the connections, served
  and forgotten, compete with two device tasks: with both polling, the first forgotten connection uses
  up the pool, with none the third does.  Two clients are one served and one waiting.  One piece of an
  answer counted (`MaxOutput`) is enough, since nothing depends on the count.
* Areas of one to four pixels of two bytes take one or two transfers of four bytes, the last one full
  or not; an average of two points with three read drops the oldest.

What does not depend on the size is proved.

### Fairness

* `Connections` and `Relays`: the scheduler runs a ready task (weak fairness of the main loop, of
  each device task and of the board task; each of them waits with a timeout or in a loop that never
  ends); a task blocked on a full queue is served in its turn (strong fairness of the two sends:
  FreeRTOS wakes the waiting sender of the highest priority first, in order of arrival, and all device
  tasks have the same priority); `controller_manage_gui` leaves its loop over pending events although
  the user may go on saving (strong fairness of `LeaveGui`: the loop ends when the queue is empty,
  and events come from a finger).
* `View`: the main loop goes on.
* `DeviceStatus`: the main loop and every device task go on, as above; 500 ms pass again and again
  (strong fairness of `BeginPublish`, which also says that the loop over the updates ends: every task
  waits half a second or more between two updates).  The subscripts are `main` and `task`: the step that
  begins a publication, and those of a task, change them.
* `Network`: the two tasks run when they can, and `accept` takes a client that waits.
* `SpiBus`: both tasks go on; a sequence of commands ends; a task that waits for the mutex gets it
  (strong fairness of the takes: giving the mutex wakes the waiter, and the main loop sleeps 5 ms
  between two passes).

Nothing is assumed of the user, the network, the devices, the clients, the power supply or the flash.

## What is proved

All theorems hold for every value of the constants that satisfies the assumption in the module
(`ConnectionsAssumption`, `RelaysAssumption` and so on); these say little more than that lengths
are not zero.

* `ConnectionsProofs!TypeCorrect`: types.
* `ConnectionsProofs!TableCorrect`: `TableInv`, the inductive invariant behind "no slot has two
  tasks in service and none is lost" (`OneLiveTask`).  `OneLiveTask` alone is not inductive: the main
  loop may be between the test of a handle and the assignment of NULL while the event task clears
  the table, so one has to know that the part already walked is empty and the tested handle is
  still in its place or notified (`Walk`), and that handles are not stale (`RecordedTask`).
* `ConnectionsProofs!GateCorrect`, `WakeupCorrect`: a shut gate has a task behind it, and nobody waits
  at an open one.  The two are proved together: waking the waiters keeps the first because the second
  holds.
* `ConnectionsProofs!ApartCorrect`: past the gate the tasks of a slot are alone, unless the slot was
  overtaken.  The inductive invariant `ApartInv` adds that in such a slot nobody in front of the gate
  was told to stop, and that an open gate has nobody past it; with `TableInv`, one task at most is in
  front of the gate then, so that waking all waiters lets in one.
* `ConnectionsProofs!LateCorrect`: at most one late update, from `LateInv`, which says where a task
  can be after it, and from `LeavesOnRequest`.
* `ConnectionsProofs!ConfiguredCorrect`: only configured devices keep a task; inductive with what the
  restart in progress has still to create (`ConfigInv`).
* `ConnectionsRefinement!Refinement`: `Connections` implements `Supervision`.  `CreateTask` is a start;
  each clear stops a set of slots at once; passing the gate, the last update and the end of a task are
  steps of their own; everything else is a stutter.  `TypeOK` and `TableInv` are enough for the starts
  and stops; that an end wakes one task at most in a slot that was not overtaken is `ApartInv`.
* `RelaysProofs!RelaysCorrect`, `TestCorrect`, `TypeCorrect`: outside a test the fault relays, in it
  those the user has touched, follow what is wanted of them.  The inductive invariant `CommandInv`
  says of a relay where the last word on it is: what is still to be sent is what is wanted; or, with
  nothing to be sent and nothing dropped, the last command in the queue is; or, with none there, the pin
  is (`Ends`).  That the queue may hold any number of older commands is why the pin alone says
  nothing.
* `ConfigurationProofs!TypeCorrect`: types; in particular no list outgrows its limit, and the flash
  never holds a number of devices that `configuration_load` could not take.
* `ConfigurationProofs!StoredCorrect`: with nothing to save, a boot brings the model back.  The
  inductive form `SaveInv` extends it into the save: what is neither unwritten nor lost is up to
  date.  It needs the types, because a number read from the flash tells which addresses are in use.
* `ConfigurationProofs!TornCorrect`: a power cut leaves one channel torn at most, if no write fails.  `OrderInv` says that
  what the save has written lies before what it has not, and the keys of a channel lie together in the
  order of the writes (`PositionInChannel`, `ChannelsInOrder`).
* `ConfigurationProofs!StoreImplemented`: `Configuration` implements `SettingsStore`, failed writes
  included.  A write belongs to the one part that may be torn (`TornIsNext`, by the order of the writes
  and `OrderInv`), changes no other (`OthersKept`), and when it is the last of its part leaves it as the
  model has it (`FinishedPart`, by `SaveInv` and `LostInv`: only what may fail is ever lost).
* `ConfigurationProofs!RunningCorrect`: the tasks talk to the configured devices and to no other, and
  only a device whose task the restart could not create is left out, for any set of places where this
  may happen; inductive with the fact that a callback that clears the tasks is due without link only
  (`RunningInv`).
* `ViewProofs`: all invariants of the `pages` run and the lock of the menu, for any number of
  channels, devices and cables and any length of the event queue.  They rest on the shape of the page
  stack (`StackInv`: each page lies on one that leads to it, the main page below all), on
  the queue being empty when the controller runs (`QueueInv`), and on the fields of the screen
  (`ScreenInv`).  The lock needs `LockInv`: an event that opens the menu waits in the queue only after
  the popup has accepted the password, and a change of page throws it away.  `GreenCorrect` is about
  reports: a channel shown as good that a restart alone has made bad is allowed for, until the next event
  (`silent`).
* `DeviceStatusProofs!RegistersCorrect`: registers and summary never contradict each other, at any
  moment a client may read; by the two conditions of a good device, one of which is weaker.
* `DeviceStatusProofs!ServesCorrect`: with the edits saved and the link up the tasks serve exactly
  what is listed, but for the slots whose task the last restart could not create; inductive with the types of the lists (`ListsOK`).
* `DeviceStatusProofs!OwnCorrect`: what a slot holds is from its own device.  `OwnAnswers` looks at the
  queue as a whole; the inductive form `OwnInv` looks at what follows each update that says "not
  connected": all of it is from the device the present task polls, for a task that found its slot
  empty (`alone`) has no stopped one beside it.  `ServiceInv` says whose answer a task is about to
  report.
* `DeviceStatusProofs!TypeCorrect`: types; in particular no list outgrows its channel.
* `NetworkProofs!TypeCorrect`, `ServerSurvives`: no more sockets than there are, and no error of a
  client that is served ends the server: it ends when bind, listen or accept is refused, or when the
  connections it forgot, with what the device tasks have held at once, the API task and its listener,
  come up to the pool.  The inductive invariant adds that a client is served exactly in the service loop
  (`ServiceLoop`) and that a client with a connection has not gone (`Connected`).
* `SpiBusProofs!TypeCorrect`, `OnlyPower`, `FlushesWhole`: while the expander is selected under the
  lock the main task is outside every transfer (`Exclusion`), and the bytes sent never pass the end of
  the area (`Flushed`).
* `SpiBusProofs!AveragesTouch`: what the panel reports lies between points of the present touch.  The
  sums of `tsc2046_avg` are a recursive function; that they lie between so many times the least and the
  greatest point is proved by the least number for which it fails, since the library's induction
  theorem is out of the provers' reach.

Only model-checked: liveness under fairness, which is out of the provers' reach together with `ENABLED`:
`LiveTaskRuns`, `Settles` and `AllStop` of `Connections`, `PinsSettle` and `PowerShown` of `Relays`,
`OutputsTell` of `DeviceStatus`, `NextClient`, `Answered` and `Performed` of `Network`, `BothGoOn` of
`SpiBus`.

## What the runs found

* **A socket leak** (`socket_leak`): a task stopped in the 500 ms after `device_connect` leaves with
  its socket open (`connections.c:126`); the other stop path closes it.
* **Two users of one relay** (`cable_relay`): the board task reports the power supply on the relay of
  the cables (`management_board.c:179`); the header, and the specification in `docs`, give it relay
  4, which nothing outside the test page drives.
* **A limit of the wrong kind** (`minion_abort`): `channel_get_minion_ip` and
  `channel_set_minion_ip` check a minion against the limit of the masters (`channel.c:34, 54`).
  A channel with three minions, which the pages allow, resets the panel; once it is saved, at every
  boot that finds a link.

* **A display that does not follow the link** (`stale_display`): `controller_manage` puts the state
  of the link into the model without an event for the view (`controller.c:89`), and the tasks, whose
  updates would bring one, are stopped by the same change.  The leds stay green until something else
  happens; the specification in `docs` wants them red.
* **A client that closes keeps the server** (`client_gone`): `read` returns 0, which does not leave the
  service loop (`modbus_server.c:144`); no other client is accepted, and `connfd` is never closed.
* Things the repository promises nothing about, which no property forbids:
  the main page shows the power supply from flags of its own, so that a change while another page is
  open is not seen on it (`page_main.c:265`); the relays keep the fault of a device that is removed
  until something else happens (`controller.c:136`), and the one of a device that falls silent
  (`model.c:306`), which is why `OutputsTell` speaks of them only when all devices answer; a register
  tells of the last device of its channel (`modbus_server.c:66`); the registers may lag behind a restart
  by one publication; a device whose task could not be created is not polled before the next restart
  (`connections.c:72, 88`); a restart of the connections leaves the leds green until the first report
  (`connections.c:57`); an error of a client loses its socket (`modbus_server.c:146`), and with more than
  thirteen devices polled at once there may be none left for `accept`, which ends the server, as a client
  that is reset while it waits may do (`modbus_server.c:132`); the length of a response that broke off is
  added to that of the next (`api_manager.c:143`); `xEventGroupSetBits` wakes every waiter of a gate, so that after a restart
  has overtaken a task in front of it two tasks of a slot may poll at once for a moment, and a late
  answer of the one follows the first update of the other (`connections.c:111, 154`), until the next
  poll puts it right, as `OutputsTell` shows; the two coordinates of a touch are read in two accesses, so that a point
  may take one from each of two positions of the pen (`tsc2046.c:176`).

## What is not modelled, and why

* In `Connections` a link event changes the link bit and makes its callback in one step: the event
  task has a higher priority than the main loop and waits for nothing in between.  `Configuration`
  separates the two, which allows more than the scheduler does.
* `ethernet_set_ip` and the set-up of the driver: they act on the modules by the link events they
  cause, which the modules allow at any time.
* The framing of a device's answer, and the contents of the HTTP exchanges; the branch of the HTTP
  handler that allocates its buffer, which is dead because every request brings one along
  (`api_manager.c`).
* The compatibility check of `storage_init`: only one version exists, and the check runs before any
  module has state.
* Memory: the data of the widgets, allocated with them (`view.c:144`) and freed with them
  (`utils/utils.c:5`), and the arrays of the page of a channel (`page_channel_state.c:43`); a notification
  of a task that has ended (`connections.c:42`, see `Connections`).
* What a client of several reads puts together from the registers, which may belong to two publications
  (`modbus_server.c:60`), and what a response of a device holds after one that broke off
  (`api_manager.c:143`): the modules have the steps, and nothing in the repository says what should hold.
* Registers, pins and delays of the display, the touch panel and the port expander, whose driver is a
  submodule that is not in the repository; `SpiBus` models the accesses only, with the two reads of
  `update_state` as one.
* Simulator, tools, theme and images: not part of the firmware's logic.

## Plan

| order | module | what | state |
|---|---|---|---|
| 1 | `Connections` | supervisor, device tasks, main loop, link callbacks | done |
| 2 | `Supervision` | abstract specification of the supervisor, implemented by `Connections`, relied upon by `DeviceStatus` | done |
| 3 | `ConnectionsProofs`, `ConnectionsRefinement` | theorems about both | done |
| 4 | `Relays`, `RelaysProofs` | controller, test mode, relay queue, board task; theorems | done |
| 5 | `Configuration`, `SettingsStore`, `ConfigurationProofs` | model editing, key-by-key save, power failures, boot; the store it implements; theorems | done |
| 6 | `View`, `ViewProofs` | page stack, event queue, the pages, what they save and show; theorems | done |
| 7 | `DeviceStatus`, `DeviceStatusProofs` | device information across removals, restarts and late updates; registers, summary and relays; theorems | done |
| 8 | `Network`, `NetworkProofs` | Modbus server and its clients, API task, the pool of sockets; theorems | done |
| 9 | `SpiBus`, `SpiBusProofs` | the bus, its lock, display, touch panel and port expander; theorems | done |
| 10 | `Ethernet`, `DeviceProtocol` | boot order and `ethernet_set_ip` step by step; framing and timeouts of one poll | open |

An abstract specification still worth stating: a *register* for each relay, such that the last value
sent reaches the pin.
