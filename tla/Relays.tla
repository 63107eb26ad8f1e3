------------------------------- MODULE Relays -------------------------------
(***************************************************************************)
(* The four relays of the management board.  The main loop sends commands  *)
(* to the board task through a queue that drops them when it is full       *)
(* (controller_process_msg and controller_manage of                        *)
(* src/main/controller/controller.c, management_board_set_relay); the      *)
(* board task drives the pins and samples the two lines of the power       *)
(* supply (src/main/peripherals/management_board.c).  The two run on       *)
(* different cores.  A pin at level 0 means that its relay signals.        *)
(***************************************************************************)
EXTENDS Naturals, Sequences

CONSTANTS
  RelayQueueLength,  \* capacity of the relay queue (8)
  Inputs,            \* values of the two power supply lines, among 0..3
  CableSets,         \* values of model->cavi, among 0..15
  Failing,           \* relays of the faults a device may have: Antenna, Radio
  Buttons            \* relays the user of the test page switches

\* Relay r is GPIO 8+r of the port expander.
Relay == 1 .. 4
Cable == 1
Antenna == 2
Radio == 3

ASSUME RelaysAssumption ==
  /\ RelayQueueLength \in Nat \ {0}
  /\ Inputs \subseteq 0 .. 3 /\ 0 \in Inputs
  /\ CableSets \subseteq 0 .. 15 /\ CableSets # {}
  /\ Failing \subseteq {Antenna, Radio}
  /\ Buttons \subseteq Relay

VARIABLES
  main,        \* where the main loop is
  todo,        \* commands the main loop is about to send
  test,        \* the user is on the test page
  afterTest,   \* update_after_test
  update,      \* the local variable of controller_manage
  fault,       \* what the model says of the configured devices, by relay
  cavi,        \* the cables the user has enabled
  seenAnomaly, \* static cable_anomaly of controller_manage
  seenCables,  \* static cables of controller_manage
  powerBits,   \* model->power_bits
  relayq,      \* the relay queue
  pin,         \* the four output pins
  board,       \* where the board task is
  lines,       \* the power supply lines
  input,       \* state.input
  lastPower    \* local power_supply_anomaly of the board task; 256 stands for -1

\* History variables: no action reads them.
VARIABLES
  judged,      \* the faults controller_manage last found, none since a test began
  asked,       \* what the user of the test page has asked of each relay
  missed       \* relays whose latest command was dropped

mainVars == <<main, todo, test, afterTest, update, fault, cavi, seenAnomaly,
              seenCables, powerBits>>
boardVars == <<board, input, lastPower>>
history == <<judged, asked, missed>>
vars == <<mainVars, relayq, pin, boardVars, lines, history>>

Bit == 0 .. 1
Message == [rele : Relay, level : Bit]
Faults == {f \in [{Antenna, Radio} -> Bit] : \A r \in DOMAIN f : f[r] = 1 => r \in Failing}

Init ==
  /\ main = "gui" /\ todo = <<>>
  /\ test = 0 /\ afterTest = 0 /\ update = 0
  /\ fault \in Faults
  /\ cavi \in CableSets
  /\ seenAnomaly = 255 /\ seenCables = 255
  /\ powerBits = 0
  /\ relayq = <<>>
  /\ pin = [r \in Relay |-> 0]
  /\ board = "receive" /\ lines \in Inputs /\ input = 0 /\ lastPower = 256
  /\ judged = [r \in {Antenna, Radio} |-> 1]
  /\ asked = [r \in Relay |-> 0]
  /\ missed = {}

-----------------------------------------------------------------------------
\* management_board_set_relay(r, value) up to the queue.
SetRelay(r, value) == [rele |-> r, level |-> 1 - value]

\* xQueueSend(queue, &message, 0): a full queue refuses the message.
SendNext ==
  /\ todo # <<>>
  /\ todo' = Tail(todo)
  /\ IF Len(relayq) < RelayQueueLength
     THEN /\ relayq' = Append(relayq, Head(todo))
          /\ missed' = missed \ {Head(todo).rele}
     ELSE /\ missed' = missed \cup {Head(todo).rele}
          /\ UNCHANGED relayq
  /\ UNCHANGED <<main, test, afterTest, update, fault, cavi, seenAnomaly, seenCables,
                 powerBits, pin, boardVars, lines, judged, asked>>

\* The rest of the main loop goes on when its commands are sent.
At(label) == main = label /\ todo = <<>>

-----------------------------------------------------------------------------
(* controller_process_msg.                                                 *)

\* VIEW_CONTROLLER_COMMAND_TEST with test = 1: the test page opens.
EnterTest ==
  /\ At("gui") /\ test = 0
  /\ test' = 1
  /\ todo' = [r \in Relay |-> SetRelay(r, 0)]
  /\ asked' = [r \in Relay |-> 0]
  /\ judged' = [r \in {Antenna, Radio} |-> 0]
  /\ UNCHANGED <<main, afterTest, update, fault, cavi, seenAnomaly, seenCables, powerBits,
                 relayq, pin, boardVars, lines, missed>>

\* VIEW_CONTROLLER_COMMAND_TEST_RELE, sent by the test page only.
TestRelay ==
  /\ At("gui") /\ test = 1
  /\ \E r \in Buttons, value \in Bit :
       /\ todo' = <<SetRelay(r, value)>>
       /\ asked' = [asked EXCEPT ![r] = value]
  /\ UNCHANGED <<main, test, afterTest, update, fault, cavi, seenAnomaly, seenCables,
                 powerBits, relayq, pin, boardVars, lines, judged, missed>>

\* Mutant: the relays are not refreshed after a test.
LeaveTestForgets ==
  /\ At("gui") /\ test = 1
  /\ test' = 0 /\ afterTest' = 0
  /\ asked' = [r \in Relay |-> 0]
  /\ UNCHANGED <<main, todo, update, fault, cavi, seenAnomaly, seenCables, powerBits,
                 relayq, pin, boardVars, lines, judged, missed>>

\* VIEW_CONTROLLER_COMMAND_TEST with test = 0: the test page is left.
LeaveTest ==
  /\ At("gui") /\ test = 1
  /\ test' = 0 /\ afterTest' = 1
  /\ asked' = [r \in Relay |-> 0]
  /\ UNCHANGED <<main, todo, update, fault, cavi, seenAnomaly, seenCables, powerBits,
                 relayq, pin, boardVars, lines, judged, missed>>

\* The cable page enables and disables cables.
EditCables ==
  /\ At("gui") /\ test = 0
  /\ cavi' \in CableSets
  /\ UNCHANGED <<main, todo, test, afterTest, update, fault, seenAnomaly, seenCables,
                 powerBits, relayq, pin, boardVars, lines, history>>

\* Devices are added and removed, or the tasks restarted: the faults the model
\* shows change without an update.
EditDevices ==
  /\ At("gui") /\ test = 0
  /\ fault' \in Faults
  /\ UNCHANGED <<main, todo, test, afterTest, update, cavi, seenAnomaly, seenCables,
                 powerBits, relayq, pin, boardVars, lines, history>>

User == EditDevices \/ EnterTest \/ TestRelay \/ LeaveTest \/ EditCables

LeaveGui ==
  /\ At("gui")
  /\ main' = "manage"
  /\ UNCHANGED <<todo, test, afterTest, update, fault, cavi, seenAnomaly, seenCables,
                 powerBits, relayq, pin, boardVars, lines, history>>

-----------------------------------------------------------------------------
(* controller_manage.                                                      *)

\* The board reports no cable fault: update_state clears all four of them.
CableAnomaly == 0

\* The updates of the devices are applied; then the cables are looked at.
ManageCables ==
  /\ At("manage")
  /\ LET changed == CableAnomaly # seenAnomaly \/ seenCables # cavi \/ afterTest = 1
     IN /\ \/ fault' \in Faults /\ update' = 1
           \/ update' = (IF changed THEN 1 ELSE 0) /\ UNCHANGED fault
        /\ todo' = IF changed /\ test = 0 THEN <<SetRelay(Cable, CableAnomaly)>> ELSE <<>>
        /\ seenAnomaly' = CableAnomaly /\ seenCables' = cavi
  /\ main' = "faults"
  /\ UNCHANGED <<test, afterTest, cavi, powerBits, relayq, pin, boardVars, lines, history>>

\* Mutant: the commands go out although a test is on.
ManageFaultsInTest ==
  /\ At("faults")
  /\ IF update = 1 \/ afterTest = 1
     THEN /\ todo' = <<SetRelay(Antenna, fault[Antenna]), SetRelay(Radio, fault[Radio])>>
          /\ judged' = IF test = 0 THEN fault ELSE judged
     ELSE UNCHANGED <<todo, judged>>
  /\ update' = 0 /\ afterTest' = 0
  /\ main' = "gui" /\ powerBits' = input
  /\ UNCHANGED <<test, fault, cavi, seenAnomaly, seenCables, relayq, pin,
                 boardVars, lines, asked, missed>>

\* The power supply and the faults, in one stretch: nothing here waits.
ManageFaults ==
  /\ At("faults")
  /\ IF update = 1 \/ afterTest = 1
     THEN /\ todo' = IF test = 0
                     THEN <<SetRelay(Antenna, fault[Antenna]), SetRelay(Radio, fault[Radio])>>
                     ELSE <<>>
          /\ judged' = IF test = 0 THEN fault ELSE judged
     ELSE UNCHANGED <<todo, judged>>
  /\ update' = 0 /\ afterTest' = 0
  /\ main' = "gui" /\ powerBits' = input
  /\ UNCHANGED <<test, fault, cavi, seenAnomaly, seenCables, relayq, pin,
                 boardVars, lines, asked, missed>>

MainLoop == SendNext \/ LeaveGui \/ ManageCables \/ ManageFaults

-----------------------------------------------------------------------------
(* management_board_task.                                                  *)

\* Mutant: the message is taken from the queue and forgotten.
BoardDiscards ==
  /\ board = "receive"
  /\ relayq' = IF relayq = <<>> THEN <<>> ELSE Tail(relayq)
  /\ board' = "sample"
  /\ UNCHANGED <<mainVars, pin, input, lastPower, lines, history>>

\* xQueueReceive(queue, &message, 500 ms) and the pin it asks for.
BoardReceive ==
  /\ board = "receive"
  /\ IF relayq = <<>>
     THEN UNCHANGED <<relayq, pin>>
     ELSE /\ relayq' = Tail(relayq)
          /\ pin' = [pin EXCEPT ![Head(relayq).rele] = Head(relayq).level]
  /\ board' = "sample"
  /\ UNCHANGED <<mainVars, input, lastPower, lines, history>>

\* Mutant: state.input keeps the bits of the last sample.
BoardSampleKeeps ==
  /\ board = "sample"
  /\ input' = IF input = 0 THEN lines ELSE input
  /\ board' = "power"
  /\ UNCHANGED <<mainVars, relayq, pin, lastPower, lines, history>>

\* update_state
BoardSample ==
  /\ board = "sample"
  /\ input' = lines
  /\ board' = "power"
  /\ UNCHANGED <<mainVars, relayq, pin, lastPower, lines, history>>

\* The board task itself drives GPIO 9, the pin of relay 1.
BoardPower ==
  /\ board = "power"
  /\ IF input # lastPower
     THEN /\ pin' = [pin EXCEPT ![1] = IF input = 0 THEN 1 ELSE 0]
          /\ lastPower' = input
     ELSE UNCHANGED <<pin, lastPower>>
  /\ board' = "receive"
  /\ UNCHANGED <<mainVars, relayq, input, lines, history>>

BoardTask == BoardReceive \/ BoardSample \/ BoardPower

LinesChange ==
  /\ lines' \in Inputs
  /\ UNCHANGED <<mainVars, relayq, pin, boardVars, history>>

-----------------------------------------------------------------------------
Next == User \/ MainLoop \/ BoardTask \/ LinesChange

Spec == Init /\ [][Next]_vars

\* Both tasks run for ever; the loop over the user's events ends.
FairSpec == Spec /\ WF_vars(MainLoop) /\ SF_vars(LeaveGui) /\ WF_vars(BoardTask)

-----------------------------------------------------------------------------
(* Properties.                                                             *)

\* The values the variables range over.
TypeOK ==
  /\ main \in {"gui", "manage", "faults"} /\ todo \in Seq(Message)
  /\ test \in Bit /\ afterTest \in Bit /\ update \in Bit
  /\ fault \in Faults /\ cavi \in CableSets
  /\ seenAnomaly \in {0, 255} /\ seenCables \in CableSets \cup {255}
  /\ powerBits \in 0 .. 3
  /\ relayq \in Seq(Message) /\ Len(relayq) <= RelayQueueLength
  /\ pin \in [Relay -> Bit]
  /\ board \in {"receive", "sample", "power"}
  /\ lines \in Inputs /\ input \in 0 .. 3 /\ lastPower \in 0 .. 3 \cup {256}
  /\ judged \in [{Antenna, Radio} -> Bit] /\ asked \in [Relay -> Bit] /\ missed \subseteq Relay

\* The level a relay is going to have when the board task has emptied the queue.
Pending(r) ==
  LET own == {i \in 1 .. Len(relayq) : relayq[i].rele = r}
  IN IF own = {} THEN pin[r]
     ELSE relayq[CHOOSE i \in own : \A j \in own : j <= i].level

Idle == At("gui")

\* Outside test mode the relays of the antenna and radio faults are, or are about
\* to be, what the main loop last found, whatever a test has left behind; a
\* command lost to a full queue is the only exception (controller.c:124-139).
RelaysFollow ==
  Idle /\ test = 0 /\ afterTest = 0 =>
    \A r \in {Antenna, Radio} \ missed : Pending(r) = 1 - judged[r]

\* During a test the relays other than the first obey the user alone: nothing the
\* main loop had sent before, and no fault found meanwhile, moves them after
\* the user's command (controller.c:63-75, 110, 136).
TestObeyed ==
  Idle /\ test = 1 => \A r \in (Relay \ {Cable}) \ missed : Pending(r) = 1 - asked[r]

\* If the faults stop changing outside test mode and no command is lost, the
\* pins show them in the end.
PinsSettle ==
  \A f \in Faults :
    <>[](test = 0 /\ judged = f /\ missed = {})
      => <>[](\A r \in {Antenna, Radio} : pin[r] = 1 - f[r])

\* When the power supply lines stop changing, the model comes to show them, even
\* if they changed between the sampling and the polling (management_board.c:144-159,
\* controller.c:118-122).
PowerShown == \A i \in Inputs : <>[](lines = i) => <>[](powerBits = i)

\* Relay 1 signals a cable fault: MANAGEMENT_BOARD_RELAY_CABLE_ANOMALY, while the
\* power supply has relay 4 (management_board.h:12-15).
CableRelayFollows ==
  Idle /\ test = 0 /\ afterTest = 0 /\ seenAnomaly # 255 /\ Cable \notin missed =>
    Pending(Cable) = 1 - CableAnomaly
=============================================================================
