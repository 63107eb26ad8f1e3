--------------------------------- MODULE View ---------------------------------
(***************************************************************************)
(* The pages of the display (src/main/view): the page stack, the queue of  *)
(* view events, what the pages draw and which commands they give, and the  *)
(* two functions of the main loop that feed and drain the queue            *)
(* (controller_manage_gui of src/main/controller/gui.c, controller_manage  *)
(* of src/main/controller/controller.c).  All of it runs on the main loop: *)
(* what varies is when the user touches the display, when devices report   *)
(* and when the link or the power supply changes.                          *)
(***************************************************************************)
EXTENDS Integers, Sequences

CONSTANTS
  Channels,     \* MAX_CHANNELS
  MaxMasters,   \* MAX_MASTERS_PER_CHANNEL
  MaxMinions,   \* minions of a channel for which no assertion fails
  Cables,       \* MAX_CABLES
  Pins,         \* values of the password; 0 is four zeros: no password
  PowerInputs,  \* values of the power supply lines, among 0..3
  QueueLength   \* capacity of event_queue (32)

Channel == 1 .. Channels
Cable == 1 .. Cables
Kind == {"master", "minion"}
Limit == [k \in Kind |-> IF k = "master" THEN MaxMasters ELSE MaxMinions]

ASSUME ViewAssumption ==
  /\ Channels \in Nat \ {0} /\ MaxMasters \in Nat /\ MaxMinions \in Nat /\ Cables \in Nat
  /\ Pins \subseteq Nat /\ 0 \in Pins
  /\ PowerInputs \subseteq 0 .. 3
  /\ QueueLength \in Nat /\ QueueLength >= 2

VARIABLES
  stack,      \* the open pages; the last one is pman.current_page
  screen,     \* the widgets of the current page and what they show
  queue,      \* event_queue
  main,       \* where the main loop is: "lvgl", "gui" or "manage"
  flags,      \* guasto_rete_alimentazione and batteria_bassa of page_main
  test,       \* test of controller.c
  afterTest,  \* update_after_test
  devices,    \* how many devices of each kind the channels have
  cavi,       \* the cables the user has enabled
  pin,        \* model->password
  toSave,     \* to_save
  netChanged, \* network_config_changed
  seenCables, \* static cables of controller_manage
  faulty,     \* channels a device of which is not connected or reports a fault
  linked,     \* ethernet_is_connected
  restart,    \* whether restart_connections has left a message for the main loop
  connected,  \* model->connected
  powerBits,  \* model->power_bits
  unlocked,   \* history: the password was typed since the current page opened
  silent      \* history: the channels a restart has reset since the current page was
              \* drawn and the last MODEL_UPDATE was put

view == <<stack, screen, queue, flags, unlocked, silent>>
config == <<devices, cavi, pin, toSave, netChanged>>
status == <<faulty, connected, powerBits, seenCables>>
testing == <<test, afterTest>>
network == <<linked, restart>>
vars == <<view, main, config, status, testing, network>>

Top == stack[Len(stack)]
Page == Top.page
TheChannel == Top.arg[1]

-----------------------------------------------------------------------------
(* Events.                                                                 *)

OpenEvent == [code |-> "OPEN"]
ModelUpdate == [code |-> "MODEL_UPDATE"]
PowerState(bits) == [code |-> "POWER_STATE", bits |-> bits]
LvglEvent(event, id, number) ==
  [code |-> "LVGL", event |-> event, id |-> id, number |-> number, page |-> Page]

\* view_event: the event is lost when the queue is full.
Enqueued(q, event) == IF Len(q) < QueueLength THEN Append(q, event) ELSE q

-----------------------------------------------------------------------------
(* What the pages draw.                                                    *)

\* model_is_channel_configured, model_is_channel_ok
Configured(c) == devices[c]["master"] + devices[c]["minion"] > 0
ChannelOk(c) == connected = 1 /\ c \notin faulty

\* connections_restart: no device of a configured channel is connected.
Reset == faulty \cup {c \in Channel : Configured(c)}

NoPanels == [k \in Kind |-> 0]
Blank == [leds |-> {}, cables |-> {}, panels |-> NoPanels, green |-> {}, power |-> 0,
          popup |-> "hidden", pin |-> 0]

\* Mutant: a channel of minions only is not drawn.
DrawMainMasters ==
  [Blank EXCEPT !.leds = {c \in Channel : devices[c]["master"] > 0},
                !.cables = cavi, !.pin = pin]

\* open_page of the main page, with create_canali, create_cavi and the popup.
DrawMain ==
  [Blank EXCEPT !.leds = {c \in Channel : Configured(c)}, !.cables = cavi, !.pin = pin]

\* Mutant: the color is that of the link.
UpdateMainLinkOnly(s, bits) ==
  [s EXCEPT !.green = {c \in Channel : Configured(c) /\ connected = 1}, !.power = bits]

\* update_page of the main page
UpdateMain(s, bits) ==
  [s EXCEPT !.green = {c \in Channel : Configured(c) /\ ChannelOk(c)}, !.power = bits]

\* update_device_list of the page of channel c
UpdateDeviceList(s, table, c) == [s EXCEPT !.panels = table[c]]

\* open_page of the state of channel c: a panel for each device.
DrawState(c) == [Blank EXCEPT !.panels = devices[c]]

\* update_devices
UpdateState(s, c) == [s EXCEPT !.green = {c} \cap {d \in Channel : ChannelOk(d)}]

\* Mutant: the test page shows what the main page was told.
UpdateTestFlags(s) == [s EXCEPT !.power = flags]

\* update_page of the test page
UpdateTest(s) == [s EXCEPT !.power = powerBits]

\* A page after its open and its update; the others show nothing that the
\* properties tell apart.
Drawn(frame) ==
  CASE frame.page = "main" -> UpdateMain(DrawMain, flags)
    [] frame.page = "channel_settings" -> UpdateDeviceList(Blank, devices, frame.arg[1])
    [] frame.page = "channel_state" -> UpdateState(DrawState(frame.arg[1]), frame.arg[1])
    [] frame.page = "test" -> UpdateTest(Blank)
    [] OTHER -> Blank

-----------------------------------------------------------------------------
(* The page manager and the commands for it.  It is a library: it opens    *)
(* and updates a page whenever that becomes the current one.               *)

\* Mutant: the events of the old page are kept.
OpeningKeepsEvents(pages) ==
  /\ stack' = pages /\ screen' = Drawn(pages[Len(pages)]) /\ unlocked' = 0 /\ silent' = {}
  /\ queue' = Enqueued(Tail(queue), OpenEvent)

\* Mutant: the queue is emptied last.
OpeningSilently(pages) ==
  /\ stack' = pages /\ screen' = Drawn(pages[Len(pages)]) /\ unlocked' = 0 /\ silent' = {}
  /\ queue' = <<>>

\* The last of the pages becomes the current one: the events in the queue are
\* thrown away.
Opening(pages) ==
  /\ stack' = pages /\ screen' = Drawn(pages[Len(pages)]) /\ unlocked' = 0 /\ silent' = {}
  /\ queue' = <<OpenEvent>>

\* view_change_page_extra
ChangePage(page, arg) == Opening(Append(stack, [page |-> page, arg |-> arg]))

\* VIEW_PAGE_COMMAND_CODE_BACK
Back == Opening(SubSeq(stack, 1, Len(stack) - 1))

\* VIEW_PAGE_COMMAND_CODE_UPDATE, with what the page then shows.
Update(s) == queue' = Tail(queue) /\ screen' = s /\ UNCHANGED <<stack, unlocked, silent>>

\* No command for the view.
Stay == Update(screen)

-----------------------------------------------------------------------------
(* Commands for the controller and changes of the model.                   *)

\* VIEW_CONTROLLER_COMMAND_CODE_SAVE_CONFIG
SaveConfig ==
  /\ toSave' = 0 /\ netChanged' = 0 /\ UNCHANGED <<devices, cavi, pin>>
  /\ faulty' = IF netChanged = 1 /\ linked = 1 THEN Reset ELSE faulty

\* VIEW_CONTROLLER_COMMAND_TEST
SetTest(on) == test' = on /\ afterTest' = IF on = 1 THEN afterTest ELSE 1

NoCommand == UNCHANGED testing
NoEdit == UNCHANGED <<config, faulty>>
OnlyView == NoCommand /\ NoEdit /\ UNCHANGED flags

NetworkEdited == toSave' = 1 /\ netChanged' = 1

-----------------------------------------------------------------------------
(* process_event of the pages, with controller_process_msg and             *)
(* view_process_msg.                                                       *)

Event == queue[1]
Is(event, id) == Event.code = "LVGL" /\ Event.event = event /\ Event.id = id

ProcessMain ==
  \/ /\ Event.code = "POWER_STATE" /\ flags' = Event.bits
     /\ Update(UpdateMain(screen, Event.bits)) /\ NoCommand /\ NoEdit
  \/ /\ OnlyView
     /\ \/ Event.code = "MODEL_UPDATE" /\ Update(UpdateMain(screen, flags))
        \/ Is("CLICKED", "OTHER_SHEET") /\ Update([screen EXCEPT !.popup = "hidden"])
        \/ /\ Is("CLICKED", "CONFIG_BTN")
           /\ IF pin # 0 THEN Update([screen EXCEPT !.popup = "shown"])
                         ELSE ChangePage("menu", <<>>)
        \/ Is("CLICKED", "CHANNEL_LED") /\ ChangePage("channel_state", Event.number)
        \/ Is("APPLY", "PASSWORD_POPUP") /\ ChangePage("menu", <<>>)
        \/ Event.code = "OPEN" /\ Stay

ProcessMenu ==
  /\ OnlyView
  /\ \/ Is("CLICKED", "BACK_BTN") /\ Back
     \/ Is("CLICKED", "CHANNELS_BTN") /\ ChangePage("channels", <<>>)
     \/ Is("CLICKED", "CABLES_BTN") /\ ChangePage("cavi", <<>>)
     \/ Is("CLICKED", "SETTINGS_BTN") /\ ChangePage("settings", <<>>)
     \/ Is("CLICKED", "TEST_BTN") /\ ChangePage("test", <<>>)
     \/ Event.code # "LVGL" /\ Stay

\* Mutant: the list of the channels is left without saving.
ProcessChannelsUnsaved ==
  /\ OnlyView
  /\ \/ Is("CLICKED", "BACK_BTN") /\ Back
     \/ Is("CLICKED", "CHANNEL_BTN") /\ ChangePage("channel_settings", Event.number)
     \/ Event.code # "LVGL" /\ Stay

ProcessChannels ==
  /\ NoCommand /\ UNCHANGED flags
  /\ \/ Is("CLICKED", "BACK_BTN") /\ SaveConfig /\ Back
     \/ /\ Is("CLICKED", "CHANNEL_BTN") /\ ChangePage("channel_settings", Event.number)
        /\ NoEdit
     \/ Event.code # "LVGL" /\ Stay /\ NoEdit

\* channel_add_master, channel_add_minion: there may be no room for a second touch.
Added(c, k) == IF devices[c][k] < Limit[k] THEN [devices EXCEPT ![c][k] = @ + 1] ELSE devices

\* channel_remove_master, channel_remove_minion
Removed(c, k, j) == IF j <= devices[c][k] THEN [devices EXCEPT ![c][k] = @ - 1] ELSE devices

\* The buttons of the list.  What is known of the channel is then known of other
\* devices.
AddOrRemove(c) ==
  /\ \E k \in Kind :
       \/ Is("CLICKED", "ADD_BTN") /\ Event.number = <<k>> /\ devices' = Added(c, k)
       \/ /\ Is("LONG_PRESSED", "DEL_BTN") /\ Event.number[1] = k
          /\ devices' = Removed(c, k, Event.number[2])
  /\ NetworkEdited
  /\ faulty' \in {faulty \cup {c}, faulty \ {c}}
  /\ Update(UpdateDeviceList(screen, devices', c))
  /\ UNCHANGED <<cavi, pin, flags>> /\ NoCommand

ProcessChannelSettings ==
  \/ AddOrRemove(TheChannel)
  \/ /\ OnlyView
     /\ \/ /\ Is("CLICKED", "DEVICE_BTN")
           /\ ChangePage(IF Event.number[1] = "master" THEN "master_settings"
                                                       ELSE "minion_settings",
                         <<TheChannel, Event.number[2]>>)
        \/ Is("CLICKED", "BACK_BTN") /\ Back
        \/ Event.code # "LVGL" /\ Stay

\* The pages of a master and of a minion: its new address is set at once, and saved
\* when the list of the channels is left.
ProcessDeviceSettings ==
  /\ NoCommand /\ UNCHANGED <<faulty, flags, devices, cavi, pin>>
  /\ \/ Is("CLICKED", "BACK_BTN") /\ Back /\ UNCHANGED <<toSave, netChanged>>
     \/ Is("VALUE_CHANGED", "IP_BTN") /\ NetworkEdited /\ Stay
     \/ Event.code # "LVGL" /\ Stay /\ UNCHANGED <<toSave, netChanged>>

ProcessCavi ==
  /\ NoCommand /\ UNCHANGED flags
  /\ \/ Is("CLICKED", "BACK_BTN") /\ SaveConfig /\ Back
     \/ /\ Is("VALUE_CHANGED", "CABLE_CB")
        /\ cavi' \in {cavi \cup {Event.number[1]}, cavi \ {Event.number[1]}} /\ toSave' = 1
        /\ Stay /\ UNCHANGED <<devices, pin, netChanged, faulty>>
     \/ Event.code # "LVGL" /\ Stay /\ NoEdit

ProcessSettings ==
  /\ NoCommand /\ UNCHANGED flags
  /\ \/ Is("CLICKED", "BACK_BTN") /\ SaveConfig /\ Back
     \/ /\ Is("VALUE_CHANGED", "IP_BTN") /\ NetworkEdited
        /\ Stay /\ UNCHANGED <<devices, cavi, pin, faulty>>
     \/ /\ Is("VALUE_CHANGED", "PW_ROLLER") /\ pin' \in Pins /\ toSave' = 1
        /\ Stay /\ UNCHANGED <<devices, cavi, netChanged, faulty>>
     \/ Event.code # "LVGL" /\ Stay /\ NoEdit

\* The command to save is overwritten by the one that ends the test.
ProcessTest ==
  /\ NoEdit /\ UNCHANGED flags
  /\ \/ Event.code = "OPEN" /\ SetTest(1) /\ Stay
     \/ Is("CLICKED", "BACK_BTN") /\ SetTest(0) /\ Back
     \/ Event.code \in {"MODEL_UPDATE", "POWER_STATE"} /\ Update(UpdateTest(screen)) /\ NoCommand
     \/ Is("VALUE_CHANGED", "RELE_BTN") /\ Stay /\ NoCommand

\* The request of the buttons goes to the API manager.
ProcessChannelState ==
  /\ OnlyView
  /\ \/ Event.code = "MODEL_UPDATE" /\ Update(UpdateState(screen, TheChannel))
     \/ Is("CLICKED", "BACK_BTN") /\ Back
     \/ Is("CLICKED", "REENABLE_BTN") /\ Stay
     \/ Event.code \in {"OPEN", "POWER_STATE"} /\ Stay

-----------------------------------------------------------------------------
(* The main loop.                                                          *)

\* What the widgets of a page may give: an event, an id and the number of the widget.
BackButton == {<<"CLICKED", "BACK_BTN", <<>> >>}
DeviceWidgets(event, id) ==
  UNION {{<<event, id, <<k, j>> >> : j \in 1 .. screen.panels[k]} : k \in Kind}

\* The popup covers the others.
MainWidgets ==
  IF screen.popup = "shown" THEN {<<"CLICKED", "OTHER_SHEET", <<>> >>}
  ELSE {<<"CLICKED", "CONFIG_BTN", <<>> >>}
       \cup {<<"CLICKED", "CHANNEL_LED", <<c>> >> : c \in screen.leds}
MenuWidgets ==
  {<<"CLICKED", id, <<>> >> : id \in {"CHANNELS_BTN", "CABLES_BTN", "SETTINGS_BTN", "TEST_BTN"}}
ChannelsWidgets == {<<"CLICKED", "CHANNEL_BTN", <<c>> >> : c \in Channel}
ChannelSettingsWidgets ==
  {<<"CLICKED", "ADD_BTN", <<k>> >> : k \in {x \in Kind : screen.panels[x] < Limit[x]}}
  \cup DeviceWidgets("CLICKED", "DEVICE_BTN") \cup DeviceWidgets("LONG_PRESSED", "DEL_BTN")
DeviceSettingsWidgets == {<<"VALUE_CHANGED", "IP_BTN", <<>> >>}
CaviWidgets == {<<"VALUE_CHANGED", "CABLE_CB", <<i>> >> : i \in Cable}
SettingsWidgets == {<<"VALUE_CHANGED", id, <<>> >> : id \in {"IP_BTN", "PW_ROLLER"}}
TestWidgets == {<<"VALUE_CHANGED", "RELE_BTN", <<>> >>}
ChannelStateWidgets == DeviceWidgets("CLICKED", "REENABLE_BTN")

Widgets ==
  CASE Page = "main" -> MainWidgets
    [] Page = "menu" -> BackButton \cup MenuWidgets
    [] Page = "channels" -> BackButton \cup ChannelsWidgets
    [] Page = "channel_settings" -> BackButton \cup ChannelSettingsWidgets
    [] Page \in {"master_settings", "minion_settings"} -> BackButton \cup DeviceSettingsWidgets
    [] Page = "cavi" -> BackButton \cup CaviWidgets
    [] Page = "settings" -> BackButton \cup SettingsWidgets
    [] Page = "test" -> BackButton \cup TestWidgets
    [] Page = "channel_state" -> BackButton \cup ChannelStateWidgets

\* view_init and controller_init: the configuration is loaded, page_main is opened.
Init ==
  /\ devices \in [Channel -> {n \in [Kind -> 0 .. MaxMasters + MaxMinions] :
                                \A k \in Kind : n[k] <= Limit[k]}]
  /\ cavi \in SUBSET Cable /\ pin \in Pins /\ toSave = 0 /\ netChanged = 0
  /\ faulty \in SUBSET Channel /\ linked \in 0 .. 1 /\ connected = 0 /\ powerBits = 0
  /\ restart = linked
  /\ seenCables = {0}
  /\ test = 0 /\ afterTest = 0
  /\ flags = 0 /\ unlocked = 0 /\ silent = {}
  /\ stack = <<[page |-> "main", arg |-> <<>>]>>
  /\ screen = Drawn(stack[1])
  /\ queue = <<OpenEvent>>
  /\ main = "lvgl"

\* lv_task_handler calls page_event_cb for a widget; it may do so more than once.
Touch ==
  /\ main = "lvgl"
  /\ \E w \in Widgets : queue' = Enqueued(queue, LvglEvent(w[1], w[2], w[3]))
  /\ UNCHANGED <<stack, screen, flags, unlocked, silent, main, config, status, testing, network>>

\* Mutant: only the rollers that have moved are compared.
DigitsMatchMoved(digits) == digits \in {0, screen.pin}

\* The digits against those the popup was made with.
DigitsMatch(digits) == digits = screen.pin

\* password_event_cb
EnterDigits ==
  /\ main = "lvgl" /\ Page = "main" /\ screen.popup = "shown"
  /\ \E digits \in Pins :
       /\ queue' = IF DigitsMatch(digits)
                   THEN Enqueued(queue, LvglEvent("APPLY", "PASSWORD_POPUP", <<>>))
                   ELSE queue
       /\ unlocked' = IF digits = pin THEN 1 ELSE unlocked
  /\ UNCHANGED <<stack, screen, flags, silent, main, config, status, testing, network>>

LeaveLvgl ==
  /\ main = "lvgl" /\ main' = "gui"
  /\ UNCHANGED <<view, config, status, testing, network>>

\* One turn of the loop of controller_manage_gui.
Process ==
  /\ main = "gui" /\ queue # <<>>
  /\ \/ Page = "main" /\ ProcessMain
     \/ Page = "menu" /\ ProcessMenu
     \/ Page = "channels" /\ ProcessChannels
     \/ Page = "channel_settings" /\ ProcessChannelSettings
     \/ Page \in {"master_settings", "minion_settings"} /\ ProcessDeviceSettings
     \/ Page = "cavi" /\ ProcessCavi
     \/ Page = "settings" /\ ProcessSettings
     \/ Page = "test" /\ ProcessTest
     \/ Page = "channel_state" /\ ProcessChannelState
  /\ UNCHANGED <<main, network, connected, powerBits, seenCables>>

LeaveGui ==
  /\ main = "gui" /\ queue = <<>>
  /\ main' = "manage"
  /\ UNCHANGED <<view, config, status, testing, network>>

\* controller_manage, but for the relays: the link is looked at now and then, the
\* connections are restarted if the link has asked for it, the updates of the devices
\* are applied, the lines are read.  The restart puts no event.
Manage ==
  /\ main = "manage" /\ main' = "lvgl"
  /\ connected' \in {connected, linked}
  /\ powerBits' \in PowerInputs
  /\ seenCables' = cavi /\ afterTest' = 0 /\ restart' = 0
  /\ \E reports \in BOOLEAN :
       LET restarted == IF restart = 1 THEN Reset ELSE faulty
           told == reports \/ seenCables # cavi \/ afterTest = 1
           afterPower == IF powerBits' # powerBits
                         THEN Enqueued(queue, PowerState(powerBits')) ELSE queue
       IN /\ faulty' \in IF reports THEN SUBSET Channel ELSE {restarted}
          /\ queue' = IF told THEN Enqueued(afterPower, ModelUpdate) ELSE afterPower
          /\ silent' = IF told THEN {} ELSE silent \cup (restarted \ faulty)
  /\ UNCHANGED <<stack, screen, flags, unlocked, config, test, linked>>

\* The event task sees the link go down, or come up with an address.
LinkChange ==
  /\ \/ linked = 1 /\ linked' = 0 /\ UNCHANGED restart
     \/ linked' = 1 /\ restart' = 1
  /\ UNCHANGED <<view, main, config, status, testing>>

MainLoop == LeaveLvgl \/ Process \/ LeaveGui \/ Manage
Next == MainLoop \/ Touch \/ EnterDigits \/ LinkChange

Spec == Init /\ [][Next]_vars
\* app_main calls the two functions for ever.
LiveSpec == Spec /\ WF_vars(MainLoop)
-----------------------------------------------------------------------------
(* Properties.                                                             *)

Pages == {"main", "menu", "channels", "channel_settings", "master_settings",
          "minion_settings", "cavi", "settings", "test", "channel_state"}

\* The values the variables range over.
TypeOK ==
  /\ stack # <<>> /\ \A i \in 1 .. Len(stack) : stack[i].page \in Pages
  /\ screen.leds \cup screen.green \subseteq Channel /\ screen.cables \subseteq Cable
  /\ screen.power \in PowerInputs \cup {0} /\ flags \in PowerInputs \cup {0}
  /\ Len(queue) <= QueueLength /\ main \in {"lvgl", "gui", "manage"}
  /\ \A c \in Channel, k \in Kind : devices[c][k] \in 0 .. Limit[k]
  /\ cavi \subseteq Cable /\ pin \in Pins /\ toSave \in 0 .. 1 /\ netChanged \in 0 .. 1
  /\ faulty \subseteq Channel /\ linked \in 0 .. 1 /\ connected \in 0 .. 1
  /\ test \in 0 .. 1 /\ afterTest \in 0 .. 1 /\ unlocked \in 0 .. 1
  /\ restart \in 0 .. 1 /\ silent \subseteq Channel

\* What was changed and not yet saved was changed in one of the pages that lead back
\* over a save: whoever has left them has saved.  The page of a channel and those of
\* its devices rely on the list of the channels, and the test page, whose own save is
\* overwritten, has nothing to save (page_channels.c:100-103, page_test.c:107-112).
SavedOutsideEditors ==
  toSave = 1 \/ netChanged = 1 =>
    Page \in {"channels", "channel_settings", "master_settings", "minion_settings",
              "cavi", "settings"}

\* A page never gets the touch of a widget of another page, whose numbers mean
\* something else there, although several touches may be waiting when a page is left
\* (view.c:62).
TouchesOfPage ==
  \A i \in 1 .. Len(queue) : queue[i].code = "LVGL" => queue[i].page = Page

\* The test mode lasts as long as its page: the event that begins it survives the
\* emptying of the queue, and comes before a touch of the back button.
TestOnItsPage ==
  /\ test = 1 => Page = "test"
  /\ Page = "test" /\ test = 0 => queue # <<>> /\ queue[1] = OpenEvent

\* The assertions of update_canali and update_cavi, and the panels update_devices
\* takes for granted: whatever was added, removed and enabled since the page was
\* first opened has its widgets (page_main.c:109, 137, page_channel_state.c:275-364).
WidgetsCover ==
  /\ Page = "main" =>
       {c \in Channel : Configured(c)} \subseteq screen.leds /\ cavi \subseteq screen.cables
  /\ Page = "channel_state" => \A k \in Kind : devices[TheChannel][k] <= screen.panels[k]

\* Whoever opens the menu with a password set has typed it, as it is now, since the
\* main page was opened.
MenuIsLocked ==
  [][Page = "main" /\ Page' = "menu" => pin = 0 \/ unlocked = 1]_vars

\* A channel is never shown as good although a device has reported a fault, unless
\* the event that tells so is still in the queue: a report that comes while another
\* page is open, or that a change of page throws away, is not missed.  Only a restart
\* of the connections makes the channels bad without an event, which follows with the
\* first report of their new tasks (connections.c:57, controller.c:95-105, 141).
GreenIsHealthy ==
  Page \in {"main", "channel_state"} /\ (\A i \in 1 .. Len(queue) : queue[i] # ModelUpdate) =>
    screen.green \cap faulty \cap {c \in Channel : Configured(c)} \subseteq silent

\* The test page shows the lines of the power supply as they were last read, unless
\* the event that tells so is still in the queue, also when they changed while another
\* page was open (page_test.c:94-95, 133-137).
PowerOnTestPage ==
  Page = "test" /\ (\A i \in 1 .. Len(queue) : queue[i].code # "POWER_STATE") =>
    screen.power = powerBits

\* "La pagina principale visualizzata sul display presenta l'elenco dei canali ed il
\* loro stato di funzionamento": a channel that stays not good is in the end not shown
\* as good on a main page that stays open.
DisplayFollows ==
  \A c \in Channel :
    <>[](Page = "main" /\ Configured(c) /\ ~ ChannelOk(c)) => <>[](c \notin screen.green)
=============================================================================
