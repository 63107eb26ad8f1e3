------------------------- MODULE DeviceStatusProofs -------------------------
(***************************************************************************)
(* What DeviceStatus guarantees for any number of channels and devices,    *)
(* any addresses and faults, and any number of disturbances.               *)
(***************************************************************************)
EXTENDS DeviceStatus, SequenceTheorems, TLAPS

-----------------------------------------------------------------------------
(* The registers.                                                          *)

RegistersInv == registers = [c \in Channel |-> registers[c]] /\ RegistersAgree

LEMMA RegistersInit == Init => RegistersInv
  BY DEF Init, RegistersInv, RegistersAgree

\* A device that sets the bit of a register makes its channel fail: what
\* channel_device_info_ok refuses, channel_is_ok refuses too.
LEMMA RefusedByBoth ==
  ASSUME NEW c \in Channel, NEW s \in LastDevice(c), ~InfoOk(info[s])
  PROVE  ~ChannelOk(c)
  BY DEF LastDevice, InfoOk, ChannelOk

LEMMA RegistersStep == RegistersInv /\ [Next]_vars => RegistersInv'
  <1> SUFFICES ASSUME RegistersInv, [Next]_vars PROVE RegistersInv'
    OBVIOUS
  <1>1. CASE UNCHANGED <<errors, registers>>
    BY <1>1 DEF RegistersInv, RegistersAgree
  <1>2. ASSUME NEW c \in Channel, Publish(c) PROVE RegistersInv'
    <2>1. registers' = [registers EXCEPT ![c] = {s \in LastDevice(c) : ~InfoOk(info[s])}]
          /\ errors' = IF connected /\ ChannelOk(c) THEN errors \ {c} ELSE errors \cup {c}
      BY <1>2 DEF Publish
    <2>2. \A d \in Channel : d # c => registers'[d] = registers[d] /\ (d \in errors' <=> d \in errors)
      BY <2>1 DEF RegistersInv
    <2>3. registers'[c] # {} => c \in errors'
      BY <2>1, RefusedByBoth DEF RegistersInv
    <2>4. registers' = [d \in Channel |-> registers'[d]]
      BY <2>1 DEF RegistersInv
    <2> QED  BY <2>2, <2>3, <2>4 DEF RegistersInv, RegistersAgree
  <1>3. CASE Environment
    BY <1>1, <1>3 DEF Environment, AddDevice, RemoveDevice, SetAddress, Editing, LinkDown, GotIp,
       DeviceChanges, outVars
  <1>4. CASE Save \/ BeginPublish \/ Manage \/ Drain
    BY <1>1, <1>4 DEF Save, BeginPublish, Manage, Drain, outVars
  <1>5. CASE \E s \in Slot : TasksOf(s)
    BY <1>1, <1>5 DEF TasksOf, DeviceTask, Enter, SendNotOk, Ask, Report, TaskOnly, outVars
  <1>6. CASE Testing
    BY <1>1, <1>6 DEF Testing, BeginTest, EndTest
  <1>7. CASE UNCHANGED vars
    BY <1>1, <1>7 DEF vars, outVars
  <1> QED  BY <1>2, <1>3, <1>4, <1>5, <1>6, <1>7 DEF Next, MainLoop

\* A register of a channel never tells of a device while the summary calls the channel
\* well (modbus_server.c:56-74, channel.c:134-167).
THEOREM RegistersCorrect == Spec => []RegistersAgree
  <1>1. RegistersInv => RegistersAgree
    BY DEF RegistersInv
  <1> QED  BY <1>1, RegistersInit, RegistersStep, PTL DEF Spec

-----------------------------------------------------------------------------
(* The tasks and the lists.                                                *)

TaskRecord == [at : {"none", "notok", "ask", "report"}, addr : Addr \cup {NULL},
               stopped : BOOLEAN, alone : BOOLEAN, value : Info]
TaskOrNone == {t \in TaskRecord : IF t.at = "none" THEN t = NoTask ELSE t.addr \in Addr}

\* The types the argument needs: every listed place has an address.
ListsOK ==
  /\ count \in Counts /\ addr \in [Slot -> Addr] /\ world \in [Addr -> Condition]
  /\ task \in [Place -> TaskOrNone] /\ next \in [Slot -> Addr \cup {NULL}]
  /\ overtaken \in [Slot -> BOOLEAN]
  /\ restartq \in 0 .. 1

LEMMA NoTaskType == NoTask \in TaskOrNone /\ NoTask.at = "none" /\ NoTask.stopped = FALSE
  BY DEF NoTask, TaskOrNone, TaskRecord, NotConnected, Info

\* A step of the tasks: one enters, or one past the gate goes on.
LEMMA TaskSteps ==
  ASSUME NEW s \in Slot, TasksOf(s)
  PROVE  Enter(s) \/ \E p \in Place : p[1] = s /\ DeviceTask(p)
  <1>1. \A q \in Task : <<s, q>> \in Place /\ <<s, q>>[1] = s
    BY DEF Place
  <1> QED  BY <1>1 DEF TasksOf

LEMMA PlaceFacts ==
  ASSUME NEW p \in Place
  PROVE  p[1] \in Slot /\ p[2] \in Task /\ p = <<p[1], p[2]>>
  BY DEF Place

LEMMA SlotFacts ==
  ASSUME NEW s \in Slot, count \in Counts
  PROVE  /\ s = <<s[1], s[2], s[3]>> /\ s[1] \in Channel /\ s[2] \in Kind /\ s[3] \in Nat
         /\ s[3] < Capacity[s[2]] /\ Capacity[s[2]] \in Nat
         /\ count[<<s[1], s[2]>>] \in Nat /\ count[<<s[1], s[2]>>] <= Capacity[s[2]]
  <1>1. s[1] \in Channel /\ s[2] \in Kind /\ s[3] \in Nat /\ s = <<s[1], s[2], s[3]>>
        /\ s[3] < Capacity[s[2]]
    <2>1. s \in Channel \X Kind \X (0 .. MaxMasters + MaxMinions) /\ s[3] < Capacity[s[2]]
      BY DEF Slot
    <2>2. \A n \in 0 .. MaxMasters + MaxMinions : n \in Nat
      BY DeviceStatusAssumption DEF DeviceStatusAssumption
    <2>3. s[1] \in Channel /\ s[2] \in Kind /\ s[3] \in 0 .. MaxMasters + MaxMinions
           /\ s = <<s[1], s[2], s[3]>>
      BY <2>1
    <2> QED  BY <2>1, <2>2, <2>3
  <1>2. Capacity[s[2]] \in Nat
    BY <1>1, DeviceStatusAssumption DEF DeviceStatusAssumption, Capacity, Kind
  <1>3. <<s[1], s[2]>> \in Channel \X Kind
    BY <1>1
  <1>4. count[<<s[1], s[2]>>] \in Nat /\ count[<<s[1], s[2]>>] <= Capacity[s[2]]
    BY <1>1, <1>3, DeviceStatusAssumption DEF DeviceStatusAssumption, Counts
  <1> QED  BY <1>1, <1>2, <1>4

\* The place behind one that moves up is a place of the list.
LEMMA SlotBehind ==
  ASSUME count \in Counts, NEW s \in Slot, Listed(s), NEW r \in Slot,
         r[1] = s[1], r[2] = s[2], r[3] \in s[3] .. (count[<<s[1], s[2]>>] - 1) - 1
  PROVE  <<r[1], r[2], r[3] + 1>> \in Slot
  <1> USE DeviceStatusAssumption DEF DeviceStatusAssumption
  <1>1. r[1] \in Channel /\ r[2] \in Kind /\ r[3] \in Nat
    BY SlotFacts
  <1>2. s[3] \in Nat /\ count[<<s[1], s[2]>>] \in Nat /\ count[<<s[1], s[2]>>] <= Capacity[r[2]]
    BY SlotFacts
  <1>3. r[3] + 1 < Capacity[r[2]] /\ Capacity[r[2]] \in Nat
    BY <1>1, <1>2 DEF Capacity, Kind
  <1>4. r[3] + 1 \in 0 .. MaxMasters + MaxMinions
    BY <1>1, <1>3 DEF Capacity, Kind
  <1> QED  BY <1>1, <1>3, <1>4 DEF Slot

LEMMA ListsInit == Init => ListsOK
  <1> SUFFICES ASSUME Init PROVE ListsOK
    OBVIOUS
  <1>1. count \in Counts /\ addr \in [Slot -> Addr]
    BY DeviceStatusAssumption DEF DeviceStatusAssumption, Init
  <1>2. world \in [Addr -> Condition]
    BY DeviceStatusAssumption DEF DeviceStatusAssumption, Init
  <1>3. /\ task \in [Place -> TaskOrNone] /\ next \in [Slot -> Addr \cup {NULL}]
        /\ overtaken \in [Slot -> BOOLEAN]
    BY NoTaskType DEF Init
  <1>4. restartq \in 0 .. 1
    BY DEF Init
  <1> QED  BY <1>1, <1>2, <1>3, <1>4 DEF ListsOK

\* The tasks told to stop are still tasks.
LEMMA StoppedType ==
  ASSUME ListsOK, StopTasks
  PROVE  task' \in [Place -> TaskOrNone] /\ overtaken' \in [Slot -> BOOLEAN]
  <1>1. ASSUME NEW p \in Place, task[p] # NoTask
        PROVE  [task[p] EXCEPT !.stopped = TRUE] \in TaskOrNone
    <2>1. task[p] \in TaskRecord /\ task[p].at # "none" /\ task[p].addr \in Addr
      BY <1>1 DEF ListsOK, TaskOrNone
    <2>2. [task[p] EXCEPT !.stopped = TRUE] \in TaskRecord
      BY <2>1 DEF TaskRecord
    <2>3. /\ [task[p] EXCEPT !.stopped = TRUE].at = task[p].at
          /\ [task[p] EXCEPT !.stopped = TRUE].addr = task[p].addr
      BY <2>1 DEF TaskRecord
    <2> QED  BY <2>1, <2>2, <2>3 DEF TaskOrNone
  <1>2. task' \in [Place -> TaskOrNone]
    BY <1>1, NoTaskType DEF StopTasks
  <1>3. overtaken' \in [Slot -> BOOLEAN]
    BY DEF StopTasks, ListsOK
  <1> QED  BY <1>2, <1>3

\* However much memory there is, connections_restart stops every task and starts those
\* of the listed devices but some.
LEMMA Started ==
  ASSUME StartListed
  PROVE  StopTasks /\ \E failed \in SUBSET Slot : StartBut(failed)
  BY DEF StartListed, StartBut

\* connections_restart starts tasks with addresses.
LEMMA StartType ==
  ASSUME ListsOK, StartListed
  PROVE  /\ task' \in [Place -> TaskOrNone] /\ next' \in [Slot -> Addr \cup {NULL}]
         /\ overtaken' \in [Slot -> BOOLEAN]
  <1>1. task' \in [Place -> TaskOrNone] /\ overtaken' \in [Slot -> BOOLEAN]
    BY StoppedType, Started
  <1>2. PICK failed \in SUBSET Slot : StartBut(failed)
    BY Started
  <1>3. next' \in [Slot -> Addr \cup {NULL}]
    BY <1>2 DEF StartBut, ListsOK
  <1> QED  BY <1>1, <1>3

LEMMA ListsEdit ==
  ASSUME ListsOK, Environment
  PROVE  ListsOK'
  <1>0. MaxMasters \in Nat /\ MaxMinions \in Nat
    BY DeviceStatusAssumption DEF DeviceStatusAssumption
  <1> USE <1>0
  <1>1. ASSUME NEW c \in Channel, NEW k \in Kind, AddDevice(c, k) PROVE ListsOK'
    <2>1. <<c, k>> \in Channel \X Kind /\ count[<<c, k>>] \in Nat /\ count[<<c, k>>] < Capacity[k]
          /\ Capacity[k] \in Nat
      BY <1>1 DEF AddDevice, ListsOK, Counts, Kind, Capacity
    <2>2. count' \in Counts
      <3>1. count' = [count EXCEPT ![<<c, k>>] = @ + 1]
        BY <1>1 DEF AddDevice
      <3>2. \A l \in Channel \X Kind : count'[l] = IF l = <<c, k>> THEN count[l] + 1 ELSE count[l]
        BY <3>1 DEF ListsOK, Counts
      <3>3. Capacity[k] <= MaxMasters + MaxMinions
        BY DEF Kind, Capacity
      <3>4. \A l \in Channel \X Kind :
              count'[l] \in 0 .. MaxMasters + MaxMinions /\ count'[l] <= Capacity[l[2]]
        BY <2>1, <3>2, <3>3 DEF ListsOK, Counts
      <3>5. count' \in [Channel \X Kind -> 0 .. MaxMasters + MaxMinions]
        BY <3>1, <3>4 DEF ListsOK, Counts
      <3> QED  BY <3>4, <3>5 DEF Counts
    <2>3. addr' \in [Slot -> Addr]
      BY <1>1 DEF AddDevice, ListsOK
    <2> QED  BY <1>1, <2>2, <2>3 DEF AddDevice, Editing, netVars, taskVars, ListsOK
  <1>2. ASSUME NEW s \in Slot, RemoveDevice(s) PROVE ListsOK'
    <2> DEFINE l == <<s[1], s[2]>>
    <2>1. l \in Channel \X Kind /\ count[l] \in Nat /\ s[3] \in Nat /\ s[3] < count[l]
          /\ count[l] <= Capacity[s[2]] /\ s[2] \in Kind
      BY <1>2, SlotFacts DEF ListsOK, RemoveDevice, Listed
    <2>2. count' \in Counts
      <3>1. count' = [count EXCEPT ![l] = @ - 1]
        BY <1>2 DEF RemoveDevice
      <3>2. \A m \in Channel \X Kind : count'[m] = IF m = l THEN count[m] - 1 ELSE count[m]
        BY <3>1 DEF ListsOK, Counts
      <3>3. \A m \in Channel \X Kind :
              /\ count[m] \in 0 .. MaxMasters + MaxMinions /\ count[m] <= Capacity[m[2]]
              /\ Capacity[m[2]] \in Nat
        BY DEF ListsOK, Counts, Capacity, Kind
      <3> HIDE DEF l
      <3>4. \A m \in Channel \X Kind :
              count'[m] \in 0 .. MaxMasters + MaxMinions /\ count'[m] <= Capacity[m[2]]
        BY <2>1, <3>2, <3>3
      <3>5. count' \in [Channel \X Kind -> 0 .. MaxMasters + MaxMinions]
        BY <3>1, <3>4 DEF ListsOK, Counts
      <3> QED  BY <3>4, <3>5 DEF Counts
    <2>3. addr' \in [Slot -> Addr]
      <3> DEFINE behind(r) == r[1] = s[1] /\ r[2] = s[2] /\ r[3] \in s[3] .. (count[l] - 1) - 1
      <3>1. addr' = [r \in Slot |-> IF behind(r) THEN addr[<<r[1], r[2], r[3] + 1>>] ELSE addr[r]]
        BY <1>2 DEF RemoveDevice
      <3>2. ASSUME NEW r \in Slot, behind(r) PROVE addr[<<r[1], r[2], r[3] + 1>>] \in Addr
        <4>1. <<r[1], r[2], r[3] + 1>> \in Slot
          BY <1>2, <3>2, SlotBehind DEF RemoveDevice, ListsOK
        <4> QED  BY <4>1 DEF ListsOK
      <3> HIDE DEF behind
      <3> QED  BY <3>1, <3>2 DEF ListsOK
    <2> QED  BY <1>2, <2>2, <2>3 DEF RemoveDevice, Editing, netVars, taskVars, ListsOK
  <1>3. ASSUME NEW s \in Slot, SetAddress(s) PROVE ListsOK'
    BY <1>3, DeviceStatusAssumption
       DEF SetAddress, Editing, netVars, taskVars, ListsOK, DeviceStatusAssumption
  <1>4. CASE LinkDown
    <2>1. /\ task' \in [Place -> TaskOrNone] /\ next' \in [Slot -> Addr \cup {NULL}]
          /\ overtaken' \in [Slot -> BOOLEAN]
      BY <1>4, StoppedType DEF LinkDown, StopAll
    <2> QED  BY <1>4, <2>1 DEF LinkDown, modelVars, ListsOK
  <1>5. CASE GotIp
    BY <1>5 DEF GotIp, modelVars, taskVars, ListsOK
  <1>6. CASE DeviceChanges
    BY <1>6 DEF DeviceChanges, modelVars, netVars, taskVars, ListsOK
  <1> QED  BY <1>1, <1>2, <1>3, <1>4, <1>5, <1>6 DEF Environment

\* The place a task takes when it comes past the gate, and what it is there.
LEMMA Entered ==
  ASSUME ListsOK, NEW s \in Slot, Enter(s)
  PROVE  \E p \in Place, t \in TaskOrNone :
           /\ p[1] = s /\ task[p] = NoTask /\ task' = [task EXCEPT ![p] = t]
           /\ t.at = "notok" /\ t.addr = next[s] /\ ~t.stopped
           /\ t.alone => Empty(s)
  <1> DEFINE q == CHOOSE r \in Task : task[<<s, r>>] = NoTask
             t == [NoTask EXCEPT !.at = "notok", !.addr = next[s], !.alone = Empty(s)]
  <1>1. q \in Task /\ task[<<s, q>>] = NoTask /\ task' = [task EXCEPT ![<<s, q>>] = t]
    BY DEF Enter
  <1>2. next[s] \in Addr
    BY DEF Enter, ListsOK
  <1>3. Empty(s) \in BOOLEAN
    BY DEF Empty
  <1>4. /\ t.at = "notok" /\ t.addr = next[s] /\ ~t.stopped /\ t.alone = Empty(s)
        /\ t \in TaskOrNone
    <2>1. NoTask \in TaskRecord
      BY DEF TaskRecord, NoTask, NotConnected, Info
    <2>2. ASSUME NEW n, NEW b, n = [NoTask EXCEPT !.at = "notok", !.addr = next[s], !.alone = b]
          PROVE  /\ n.at = "notok" /\ n.addr = next[s] /\ n.stopped = FALSE /\ n.alone = b
                 /\ b \in BOOLEAN => n \in TaskOrNone
      <3>1. n.at = "notok" /\ n.addr = next[s] /\ n.stopped = FALSE /\ n.alone = b
        BY <2>2 DEF NoTask
      <3>2. ASSUME b \in BOOLEAN PROVE n \in TaskRecord
        BY <1>2, <2>1, <2>2, <3>2 DEF TaskRecord
      <3> QED  BY <1>2, <3>1, <3>2 DEF TaskOrNone
    <2>3. t.at = "notok" /\ t.addr = next[s] /\ t.stopped = FALSE /\ t.alone = Empty(s)
      BY <2>2, Zenon
    <2>4. t \in TaskOrNone
      BY <1>3, <2>2, Zenon
    <2>5. ~t.stopped
      <3> HIDE DEF t
      <3> QED  BY <2>3
    <2> QED  BY <2>3, <2>4, <2>5, Zenon
  <1> HIDE DEF q, t
  <1>5. <<s, q>> \in Place /\ <<s, q>>[1] = s
    BY <1>1 DEF Place
  <1>6. t.alone => Empty(s)
    BY <1>4
  <1> QED  BY <1>1, <1>4, <1>5, <1>6, Zenon

\* What a task past the gate may become.
LEMMA Moved ==
  ASSUME ListsOK, NEW p \in Place, DeviceTask(p)
  PROVE  \E t \in TaskOrNone :
           /\ task' = [task EXCEPT ![p] = t] /\ task[p].at # "none"
           /\ \/ t = NoTask /\ task[p].stopped
              \/ /\ t.at # "none" /\ t.addr = task[p].addr
                 /\ t.stopped = task[p].stopped /\ t.alone = task[p].alone
  <1>1. task[p] \in TaskOrNone
    BY DEF ListsOK
  <1>2. CASE SendNotOk(p)
    <2>1. task[p].at = "notok" /\ task' = [task EXCEPT ![p] = [task[p] EXCEPT !.at = "ask"]]
      BY <1>2 DEF SendNotOk, At, ListsOK
    <2>2. /\ [task[p] EXCEPT !.at = "ask"] \in TaskOrNone
          /\ [task[p] EXCEPT !.at = "ask"].at = "ask"
          /\ [task[p] EXCEPT !.at = "ask"].addr = task[p].addr
          /\ [task[p] EXCEPT !.at = "ask"].stopped = task[p].stopped
          /\ [task[p] EXCEPT !.at = "ask"].alone = task[p].alone
      BY <1>1, <2>1 DEF TaskOrNone, TaskRecord
    <2> QED  BY <2>1, <2>2
  <1>3. CASE Ask(p) /\ task[p].stopped
    <2>1. task[p].at = "ask" /\ task' = [task EXCEPT ![p] = NoTask]
      BY <1>3 DEF Ask, At
    <2> QED  BY <1>3, <2>1, NoTaskType
  <1>4. CASE Ask(p) /\ ~task[p].stopped
    <2> DEFINE t == IF world[task[p].addr].connected
                    THEN [task[p] EXCEPT !.at = "report", !.value = Answer(task[p].addr)]
                    ELSE [task[p] EXCEPT !.at = "notok"]
    <2>1. task[p].at = "ask" /\ task' = [task EXCEPT ![p] = t]
      BY <1>4 DEF Ask, At, ListsOK
    <2>2. task[p].addr \in Addr
      BY <1>1, <2>1 DEF TaskOrNone
    <2>3. Answer(task[p].addr) \in Info
      BY <2>2 DEF Answer, Info, Condition, ListsOK
    <2>4. /\ t \in TaskOrNone /\ t.at # "none" /\ t.addr = task[p].addr
          /\ t.stopped = task[p].stopped /\ t.alone = task[p].alone
      BY <1>1, <2>2, <2>3 DEF TaskOrNone, TaskRecord
    <2> HIDE DEF t
    <2> QED  BY <2>1, <2>4
  <1>5. CASE Report(p)
    <2> DEFINE t == [task[p] EXCEPT !.at = "ask", !.value = NotConnected]
    <2>1. task[p].at = "report" /\ task' = [task EXCEPT ![p] = t]
      BY <1>5 DEF Report, At, ListsOK
    <2>2. /\ t \in TaskOrNone /\ t.at # "none" /\ t.addr = task[p].addr
          /\ t.stopped = task[p].stopped /\ t.alone = task[p].alone
      BY <1>1, <2>1 DEF TaskOrNone, TaskRecord, NotConnected, Info
    <2> HIDE DEF t
    <2> QED  BY <2>1, <2>2
  <1> QED  BY <1>2, <1>3, <1>4, <1>5 DEF DeviceTask

LEMMA ListsTask ==
  ASSUME ListsOK, NEW s \in Slot, TasksOf(s)
  PROVE  ListsOK'
  <1>1. UNCHANGED <<count, addr, world, restartq, overtaken>>
    BY DEF TasksOf, DeviceTask, Enter, SendNotOk, Ask, Report, TaskOnly, modelVars, netVars
  <1>2. next' \in [Slot -> Addr \cup {NULL}]
    BY DEF TasksOf, DeviceTask, Enter, SendNotOk, Ask, Report, ListsOK
  <1>3. \E p \in Place, t \in TaskOrNone : task' = [task EXCEPT ![p] = t]
    BY TaskSteps, Entered, Moved
  <1>4. task' \in [Place -> TaskOrNone]
    BY <1>3 DEF ListsOK
  <1> QED  BY <1>1, <1>2, <1>4 DEF ListsOK

LEMMA ListsStep == ListsOK /\ [Next]_vars => ListsOK'
  <1> SUFFICES ASSUME ListsOK, [Next]_vars PROVE ListsOK'
    OBVIOUS
  <1>1. CASE Save
    <2>1. /\ task' \in [Place -> TaskOrNone] /\ next' \in [Slot -> Addr \cup {NULL}]
          /\ overtaken' \in [Slot -> BOOLEAN]
      BY <1>1, StartType DEF Save, Restart, NoRestart, taskVars, ListsOK
    <2> QED  BY <1>1, <2>1 DEF Save, netVars, ListsOK
  <1>2. CASE BeginPublish
    BY <1>2 DEF BeginPublish, Loop, taskVars, ListsOK
  <1>3. ASSUME NEW c \in Channel, Publish(c) PROVE ListsOK'
    BY <1>3 DEF Publish, Loop, taskVars, ListsOK
  <1>4. CASE Manage
    <2>1. /\ task' \in [Place -> TaskOrNone] /\ next' \in [Slot -> Addr \cup {NULL}]
          /\ overtaken' \in [Slot -> BOOLEAN]
      BY <1>4, StartType DEF Manage, Restart, NoRestart, taskVars, ListsOK
    <2> QED  BY <1>4, <2>1 DEF Manage, Loop, ListsOK
  <1>5. CASE Drain
    BY <1>5 DEF Drain, Loop, taskVars, ListsOK
  <1>6. CASE Testing
    BY <1>6 DEF Testing, BeginTest, EndTest, modelVars, netVars, taskVars, ListsOK
  <1>7. CASE UNCHANGED vars
    BY <1>7 DEF vars, modelVars, netVars, taskVars, ListsOK
  <1> QED  BY <1>1, <1>2, <1>3, <1>4, <1>5, <1>6, <1>7, ListsEdit, ListsTask DEF Next, MainLoop

-----------------------------------------------------------------------------
(* The tasks of a slot.                                                    *)

\* What holds of the tasks: what one is about to report is its own device's answer;
\* one that was not told to stop has nobody in front of the gate, none beside it that
\* was not told either, and none at all if it found the slot empty.
Message == [slot : Slot, info : Info]
InService(s, q) == task[<<s, q>>].at # "none" /\ ~task[<<s, q>>].stopped
OwnValue ==
  \A p \in Place :
    task[p].at = "report" => task[p].value.connected /\ task[p].value.from = task[p].addr
NobodyNext == \A s \in Slot, q \in Task : InService(s, q) => next[s] = NULL
OneInService == \A s \in Slot, q, r \in Task : InService(s, q) /\ InService(s, r) => q = r
AloneInside ==
  \A s \in Slot, q, r \in Task :
    InService(s, q) /\ task[<<s, q>>].alone /\ task[<<s, r>>] # NoTask => q = r
ServiceInv ==
  /\ OwnValue /\ NobodyNext /\ OneInService /\ AloneInside
  /\ deviceq \in Seq(Message)

LEMMA PlaceOf ==
  ASSUME NEW s \in Slot, NEW q \in Task
  PROVE  <<s, q>> \in Place /\ <<s, q>>[1] = s /\ <<s, q>>[2] = q
  BY DEF Place

LEMMA ServiceInit == Init => ServiceInv
  <1> SUFFICES ASSUME Init PROVE ServiceInv
    OBVIOUS
  <1>1. \A p \in Place : task[p] = NoTask
    BY DEF Init
  <1>2. \A s \in Slot, q \in Task : ~InService(s, q)
    BY <1>1, PlaceOf, NoTaskType DEF InService
  <1>3. OwnValue
    BY <1>1, NoTaskType DEF OwnValue
  <1>4. deviceq \in Seq(Message)
    BY EmptySeq DEF Init
  <1> QED  BY <1>2, <1>3, <1>4 DEF ServiceInv, NobodyNext, OneInService, AloneInside

\* After connections_clear or connections_restart no task is in service.
LEMMA NobodyInService ==
  ASSUME ListsOK, StopTasks, NEW p \in Place
  PROVE  /\ task'[p].at = "none" \/ task'[p].stopped
         /\ task'[p].at = task[p].at /\ task'[p].addr = task[p].addr
         /\ task'[p].value = task[p].value
  <1>1. task[p] \in TaskOrNone
    BY DEF ListsOK
  <1>2. task'[p] = IF task[p] = NoTask THEN NoTask ELSE [task[p] EXCEPT !.stopped = TRUE]
    BY DEF StopTasks
  <1> QED  BY <1>1, <1>2, NoTaskType DEF TaskOrNone, TaskRecord

LEMMA NoService ==
  ASSUME ListsOK, StopTasks
  PROVE  \A s \in Slot, q \in Task : ~InService(s, q)'
  BY NobodyInService, PlaceOf DEF InService

LEMMA ServiceStopped ==
  ASSUME ListsOK, ServiceInv, StopTasks, deviceq' = deviceq
  PROVE  ServiceInv'
  <1>1. OwnValue'
    BY NobodyInService DEF ServiceInv, OwnValue
  <1> QED  BY <1>1, NoService DEF ServiceInv, NobodyNext, OneInService, AloneInside

\* A task that comes past the gate leaves nobody in front of it.
LEMMA ServiceEnter ==
  ASSUME ListsOK, ServiceInv, NEW s \in Slot, Enter(s)
  PROVE  ServiceInv'
  <1>1. PICK p \in Place, t \in TaskOrNone :
          /\ p[1] = s /\ task[p] = NoTask /\ task' = [task EXCEPT ![p] = t]
          /\ t.at = "notok" /\ t.addr = next[s] /\ ~t.stopped
          /\ t.alone => Empty(s)
    BY Entered
  <1>2. task'[p] = t /\ (\A r \in Place : r # p => task'[r] = task[r])
    BY <1>1 DEF ListsOK
  <1>3. next[s] # NULL /\ next'[s] = NULL /\ (\A r \in Slot : r # s => next'[r] = next[r])
        /\ deviceq' = deviceq
    BY DEF Enter, ListsOK
  <1>4. p = <<s, p[2]>> /\ p[2] \in Task
    BY <1>1, PlaceFacts
  <1>5. OwnValue'
    BY <1>1, <1>2 DEF ServiceInv, OwnValue
  <1>6. \A q \in Task : ~InService(s, q)
    BY <1>3 DEF ServiceInv, NobodyNext
  <1>7. ASSUME NEW r \in Slot, NEW q \in Task, InService(r, q)'
        PROVE  IF r = s THEN q = p[2] ELSE InService(r, q) /\ task'[<<r, q>>] = task[<<r, q>>]
    <2>1. <<r, q>> \in Place /\ (<<r, q>> = p <=> r = s /\ q = p[2])
      BY <1>4, PlaceOf
    <2>2. CASE <<r, q>> = p
      BY <2>1, <2>2
    <2>3. CASE <<r, q>> # p
      <3>1. task'[<<r, q>>] = task[<<r, q>>]
        BY <1>2, <2>1, <2>3
      <3>2. InService(r, q)
        BY <1>7, <3>1 DEF InService
      <3> QED  BY <1>6, <3>1, <3>2
    <2> QED  BY <2>2, <2>3
  <1>8. NobodyNext'
    BY <1>3, <1>7 DEF ServiceInv, NobodyNext
  <1>9. OneInService'
    BY <1>7 DEF ServiceInv, OneInService
  <1>10. AloneInside'
    <2> SUFFICES ASSUME NEW r \in Slot, NEW q \in Task, NEW x \in Task,
                        InService(r, q)', task'[<<r, q>>].alone, task'[<<r, x>>] # NoTask
                 PROVE  q = x
      BY DEF AloneInside
    <2>1. CASE r = s
      <3>1. q = p[2] /\ <<r, q>> = p /\ t.alone
        BY <1>2, <1>4, <1>7, <2>1
      <3>2. ASSUME x # q PROVE FALSE
        <4>1. <<r, x>> \in Place /\ <<r, x>> # p
          BY <3>1, <3>2, PlaceOf
        <4>2. task[<<s, x>>] = NoTask
          BY <1>1, <3>1 DEF Empty
        <4> QED  BY <1>2, <2>1, <4>1, <4>2
      <3> QED  BY <3>2
    <2>2. CASE r # s
      <3>1. InService(r, q) /\ task[<<r, q>>].alone
        BY <1>7, <2>2
      <3>2. <<r, x>> \in Place /\ <<r, x>> # p
        BY <1>4, <2>2, PlaceOf
      <3>3. task[<<r, x>>] # NoTask
        BY <1>2, <3>2
      <3> QED  BY <3>1, <3>3 DEF ServiceInv, AloneInside
    <2> QED  BY <2>1, <2>2
  <1> QED  BY <1>3, <1>5, <1>8, <1>9, <1>10 DEF ServiceInv

\* What a task sends is typed, and its own.
LEMMA ServiceSends ==
  ASSUME ListsOK, ServiceInv, NEW p \in Place, DeviceTask(p)
  PROVE  OwnValue' /\ deviceq' \in Seq(Message)
  <1>0. task[p] \in TaskOrNone /\ DOMAIN task = Place /\ p[1] \in Slot
    BY PlaceFacts DEF ListsOK
  <1>1. ASSUME NEW r \in Place, r # p
        PROVE  task'[r] = task[r]
    BY <1>1 DEF DeviceTask, SendNotOk, Ask, Report, ListsOK
  <1>2. NotConnected \in Info
    BY DEF NotConnected, Info
  <1>3. CASE SendNotOk(p)
    <2>1. task'[p].at = "ask"
      BY <1>0, <1>3 DEF SendNotOk, At, TaskOrNone, TaskRecord
    <2>2. [slot |-> p[1], info |-> NotConnected] \in Message
      BY <1>0, <1>2 DEF Message
    <2>3. deviceq' \in Seq(Message)
      BY <1>3, <2>2 DEF SendNotOk, Send, ServiceInv
    <2> QED  BY <1>1, <2>1, <2>3 DEF ServiceInv, OwnValue
  <1>4. CASE Ask(p)
    <2>1. deviceq' = deviceq /\ task[p].at = "ask"
      BY <1>4 DEF Ask, At
    <2>2. CASE task[p].stopped
      <3>1. task'[p] = NoTask
        BY <1>0, <1>4, <2>2 DEF Ask
      <3> QED  BY <1>1, <2>1, <3>1, NoTaskType DEF ServiceInv, OwnValue
    <2>3. CASE ~task[p].stopped /\ world[task[p].addr].connected
      <3>1. task'[p] = [task[p] EXCEPT !.at = "report", !.value = Answer(task[p].addr)]
        BY <1>0, <1>4, <2>3 DEF Ask
      <3>2. task'[p].value = Answer(task[p].addr) /\ task'[p].addr = task[p].addr
        BY <1>0, <3>1 DEF TaskOrNone, TaskRecord
      <3>3. task'[p].value.connected /\ task'[p].value.from = task'[p].addr
        BY <2>3, <3>2 DEF Answer
      <3> QED  BY <1>1, <2>1, <3>3 DEF ServiceInv, OwnValue
    <2>4. CASE ~task[p].stopped /\ ~world[task[p].addr].connected
      <3>1. task'[p] = [task[p] EXCEPT !.at = "notok"]
        BY <1>0, <1>4, <2>4 DEF Ask
      <3>2. task'[p].at = "notok"
        BY <1>0, <3>1 DEF TaskOrNone, TaskRecord
      <3> QED  BY <1>1, <2>1, <3>2 DEF ServiceInv, OwnValue
    <2> QED  BY <2>2, <2>3, <2>4
  <1>5. CASE Report(p)
    <2>1. task'[p].at = "ask"
      BY <1>0, <1>5 DEF Report, At, TaskOrNone, TaskRecord
    <2>2. [slot |-> p[1], info |-> task[p].value] \in Message
      BY <1>0 DEF Message, TaskOrNone, TaskRecord
    <2>3. deviceq' \in Seq(Message)
      BY <1>5, <2>2 DEF Report, Send, ServiceInv
    <2> QED  BY <1>1, <2>1, <2>3 DEF ServiceInv, OwnValue
  <1> QED  BY <1>3, <1>4, <1>5 DEF DeviceTask

\* A task past the gate stays in service, or leaves.
LEMMA ServiceMoves ==
  ASSUME ListsOK, NEW p \in Place, DeviceTask(p)
  PROVE  /\ next' = next
         /\ \A s \in Slot, q \in Task :
              /\ InService(s, q)' <=> InService(s, q)
              /\ task'[<<s, q>>] # NoTask => task[<<s, q>>] # NoTask
              /\ InService(s, q) => /\ task'[<<s, q>>].addr = task[<<s, q>>].addr
                                    /\ task'[<<s, q>>].alone = task[<<s, q>>].alone
  <1>1. PICK t \in TaskOrNone :
           /\ task' = [task EXCEPT ![p] = t] /\ task[p].at # "none"
           /\ \/ t = NoTask /\ task[p].stopped
              \/ /\ t.at # "none" /\ t.addr = task[p].addr
                 /\ t.stopped = task[p].stopped /\ t.alone = task[p].alone
    BY Moved
  <1>2. task'[p] = t /\ (\A r \in Place : r # p => task'[r] = task[r])
    BY <1>1 DEF ListsOK
  <1>3. next' = next
    BY DEF DeviceTask, SendNotOk, Ask, Report
  <1>4. ASSUME NEW s \in Slot, NEW q \in Task
        PROVE  /\ InService(s, q)' <=> InService(s, q)
               /\ task'[<<s, q>>] # NoTask => task[<<s, q>>] # NoTask
               /\ InService(s, q) => /\ task'[<<s, q>>].addr = task[<<s, q>>].addr
                                     /\ task'[<<s, q>>].alone = task[<<s, q>>].alone
    <2>1. <<s, q>> \in Place
      BY PlaceOf
    <2>2. CASE <<s, q>> # p
      BY <1>2, <2>1, <2>2 DEF InService
    <2>3. CASE <<s, q>> = p
      BY <1>1, <1>2, <2>3, NoTaskType DEF InService
    <2> QED  BY <2>2, <2>3
  <1> QED  BY <1>3, <1>4

LEMMA ServiceTask ==
  ASSUME ListsOK, ServiceInv, NEW s \in Slot, TasksOf(s)
  PROVE  ServiceInv'
  <1>1. ASSUME NEW p \in Place, DeviceTask(p) PROVE ServiceInv'
    <2>1. NobodyNext' /\ OneInService'
      BY <1>1, ServiceMoves DEF ServiceInv, NobodyNext, OneInService
    <2>2. AloneInside'
      BY <1>1, ServiceMoves DEF ServiceInv, AloneInside
    <2> QED  BY <1>1, <2>1, <2>2, ServiceSends DEF ServiceInv
  <1> QED  BY <1>1, TaskSteps, ServiceEnter

LEMMA ServiceStep == ListsOK /\ ServiceInv /\ [Next]_vars => ServiceInv'
  <1> SUFFICES ASSUME ListsOK, ServiceInv, [Next]_vars PROVE ServiceInv'
    OBVIOUS
  <1>1. CASE UNCHANGED <<task, next, deviceq>>
    BY <1>1 DEF ServiceInv, OwnValue, NobodyNext, OneInService, AloneInside, InService
  <1>2. CASE Environment
    BY <1>1, <1>2, ServiceStopped DEF Environment, AddDevice, RemoveDevice, SetAddress, Editing,
       LinkDown, StopAll, GotIp, DeviceChanges, taskVars
  <1>3. CASE Save
    BY <1>1, <1>3, ServiceStopped, Started DEF Save, Restart, NoRestart, taskVars
  <1>4. CASE BeginPublish \/ (\E c \in Channel : Publish(c))
    BY <1>1, <1>4 DEF BeginPublish, Publish, taskVars
  <1>5. CASE Manage
    BY <1>1, <1>5, ServiceStopped, Started DEF Manage, Restart, NoRestart, taskVars
  <1>6. CASE Drain
    <2>1. Tail(deviceq) \in Seq(Message) /\ UNCHANGED <<task, next>> /\ deviceq' = Tail(deviceq)
      BY <1>6 DEF Drain, ServiceInv, taskVars
    <2> QED  BY <2>1 DEF ServiceInv, OwnValue, NobodyNext, OneInService, AloneInside, InService
  <1>7. CASE Testing
    BY <1>1, <1>7 DEF Testing, BeginTest, EndTest, taskVars
  <1>8. CASE UNCHANGED vars
    BY <1>1, <1>8 DEF vars, taskVars
  <1> QED  BY <1>2, <1>3, <1>4, <1>5, <1>6, <1>7, <1>8, ServiceTask DEF Next, MainLoop

-----------------------------------------------------------------------------
(* Whom the slots serve.                                                   *)

LEMMA ServesInit == Init => ServesListed
  BY DEF Init, ServesListed, Applied

LEMMA PolledMember ==
  ASSUME NEW s \in Slot
  PROVE  Polled(s) = ({next[s]} \ {NULL})
                     \cup {task[<<s, q>>].addr : q \in {r \in Task : InService(s, r)}}
  BY DEF Polled, Serving, InService

\* After connections_restart the listed devices, and no other, have their tasks, but
\* those whose task could not be created.
LEMMA ServesStarted ==
  ASSUME ListsOK, StartListed, UNCHANGED <<count, addr>>
  PROVE  ServesListed'
  <1> SUFFICES ASSUME NEW s \in Slot
               PROVE  Polled(s)' = IF Listed(s)' /\ s \notin unstarted' THEN {addr'[s]} ELSE {}
    BY DEF ServesListed
  <1>1. (Listed(s)' <=> Listed(s)) /\ addr' = addr
    BY DEF Listed
  <1>2. addr[s] # NULL
    BY DeviceStatusAssumption DEF DeviceStatusAssumption, ListsOK
  <1>3. next'[s] = IF Listed(s) /\ s \notin unstarted' THEN addr[s] ELSE NULL
    BY Started DEF StartBut
  <1>4. Serving(s)' = {}
    <2>1. \A q \in Task : task'[<<s, q>>].at = "none" \/ task'[<<s, q>>].stopped
      BY NobodyInService, PlaceOf, Started
    <2> QED  BY <2>1 DEF Serving
  <1> QED  BY <1>1, <1>2, <1>3, <1>4 DEF Polled

\* What a task does, stopped or not, does not change whom its slot serves.
LEMMA PolledEnter ==
  ASSUME ListsOK, ServiceInv, NEW s \in Slot, Enter(s), NEW r \in Slot
  PROVE  Polled(r)' = Polled(r)
  <1>1. PICK p \in Place, t \in TaskOrNone :
          /\ p[1] = s /\ task[p] = NoTask /\ task' = [task EXCEPT ![p] = t]
          /\ t.at = "notok" /\ t.addr = next[s] /\ ~t.stopped
    BY Entered
  <1>2. task'[p] = t /\ (\A x \in Place : x # p => task'[x] = task[x])
    BY <1>1 DEF ListsOK
  <1>3. next[s] # NULL /\ next'[s] = NULL /\ (\A x \in Slot : x # s => next'[x] = next[x])
    BY DEF Enter, ListsOK
  <1>4. p = <<s, p[2]>> /\ p[2] \in Task
    BY <1>1, PlaceFacts
  <1>5. CASE r # s
    <2>1. \A q \in Task : task'[<<r, q>>] = task[<<r, q>>]
      BY <1>2, <1>4, <1>5, PlaceOf
    <2>2. next'[r] = next[r]
      BY <1>3, <1>5
    <2>3. Serving(r)' = Serving(r)
      BY <2>1 DEF Serving
    <2> QED  BY <2>2, <2>3 DEF Polled
  <1>6. CASE r = s
    <2>1. Serving(s) = {}
      BY <1>3 DEF Serving, ServiceInv, NobodyNext, InService
    <2>2. Serving(s)' = {t}
      <3>1. t \in Serving(s)'
        BY <1>1, <1>2, <1>4 DEF Serving
      <3>2. ASSUME NEW q \in Task, task'[<<s, q>>].at # "none", ~task'[<<s, q>>].stopped
            PROVE  task'[<<s, q>>] = t
        <4>1. CASE <<s, q>> = p
          BY <1>2, <4>1
        <4>2. CASE <<s, q>> # p
          <5>1. task'[<<s, q>>] = task[<<s, q>>]
            BY <1>2, <4>2, PlaceOf
          <5> QED  BY <2>1, <3>2, <5>1 DEF Serving
        <4> QED  BY <4>1, <4>2
      <3> QED  BY <3>1, <3>2 DEF Serving
    <2>3. Polled(s) = {next[s]} /\ Polled(s)' = {t.addr}
      BY <1>3, <2>1, <2>2 DEF Polled
    <2> QED  BY <1>1, <1>6, <2>3
  <1> QED  BY <1>5, <1>6

LEMMA PolledMove ==
  ASSUME ListsOK, NEW p \in Place, DeviceTask(p), NEW r \in Slot
  PROVE  Polled(r)' = Polled(r)
  <1> DEFINE In == {q \in Task : InService(r, q)}
  <1>1. next' = next /\ In' = In
    BY ServiceMoves
  <1>2. \A q \in In : task'[<<r, q>>].addr = task[<<r, q>>].addr
    BY ServiceMoves
  <1>3. {task'[<<r, q>>].addr : q \in In'} = {task[<<r, q>>].addr : q \in In}
    BY <1>1, <1>2
  <1>4. Polled(r) = ({next[r]} \ {NULL}) \cup {task[<<r, q>>].addr : q \in In}
    BY PolledMember
  <1>5. Polled(r)' = ({next'[r]} \ {NULL}) \cup {task'[<<r, q>>].addr : q \in In'}
    BY DEF Polled, Serving, InService
  <1> QED  BY <1>1, <1>3, <1>4, <1>5

LEMMA ServesTask ==
  ASSUME ListsOK, ServiceInv, ServesListed, NEW s \in Slot, TasksOf(s)
  PROVE  ServesListed'
  <1>1. UNCHANGED <<count, addr, changed, link, restartq, unstarted>>
    BY DEF TasksOf, DeviceTask, Enter, SendNotOk, Ask, Report, TaskOnly, modelVars, netVars, mainVars
  <1>2. \A r \in Slot : Polled(r)' = Polled(r)
    BY TaskSteps, PolledEnter, PolledMove
  <1> QED  BY <1>1, <1>2 DEF ServesListed, Applied, Listed

LEMMA ServesStep == ListsOK /\ ServiceInv /\ ServesListed /\ [Next]_vars => ServesListed'
  <1> SUFFICES ASSUME ListsOK, ServiceInv, ServesListed, [Next]_vars PROVE ServesListed'
    OBVIOUS
  <1>1. CASE UNCHANGED <<count, addr, changed, link, restartq, task, next, unstarted>>
    <2>1. Applied' = Applied
      BY <1>1 DEF Applied
    <2>2. \A r \in Slot : Polled(r)' = Polled(r) /\ Listed(r)' = Listed(r)
      BY <1>1 DEF Polled, Serving, Listed
    <2>3. \A r \in Slot :
            (IF Listed(r)' /\ r \notin unstarted' THEN {addr'[r]} ELSE {})
              = IF Listed(r) /\ r \notin unstarted THEN {addr[r]} ELSE {}
      BY <1>1, <2>2
    <2> QED  BY <2>1, <2>2, <2>3 DEF ServesListed
  <1>2. CASE Environment
    <2>1. ~Applied' \/ UNCHANGED <<count, addr, changed, link, restartq, task, next, unstarted>>
      <3>1. CASE changed' = 1
        BY <3>1 DEF Applied
      <3>2. CASE LinkDown
        BY <3>2 DEF LinkDown, Applied
      <3>3. CASE GotIp
        BY <3>3 DEF GotIp, Applied
      <3>4. CASE DeviceChanges
        BY <3>4 DEF DeviceChanges, modelVars, netVars, taskVars, mainVars
      <3>5. changed' = 1 \/ LinkDown \/ GotIp \/ DeviceChanges
        BY <1>2 DEF Environment, AddDevice, RemoveDevice, SetAddress, Editing
      <3> QED  BY <3>1, <3>2, <3>3, <3>4, <3>5
    <2> QED  BY <1>1, <2>1 DEF ServesListed
  <1>3. CASE Save
    <2>1. UNCHANGED <<count, addr, link, restartq>>
      BY <1>3 DEF Save, netVars
    <2>2. CASE link = "up"
      BY <1>3, <2>1, <2>2, ServesStarted DEF Save, Restart
    <2>3. CASE link # "up"
      BY <2>1, <2>3 DEF ServesListed, Applied
    <2> QED  BY <2>2, <2>3
  <1>4. CASE BeginPublish
    BY <1>1, <1>4 DEF BeginPublish, Loop, taskVars
  <1>5. ASSUME NEW c \in Channel, Publish(c) PROVE ServesListed'
    BY <1>1, <1>5 DEF Publish, Loop, taskVars
  <1>6. CASE Manage
    <2>1. UNCHANGED <<count, addr, changed, link>> /\ restartq' = 0
      BY <1>6 DEF Manage, Loop
    <2>2. CASE restartq = 1
      BY <1>6, <2>1, <2>2, ServesStarted DEF Manage, Restart
    <2>3. CASE restartq # 1
      <3>1. restartq = 0
        BY <2>3 DEF ListsOK
      <3>2. UNCHANGED <<count, addr, changed, link, restartq, task, next, unstarted>>
        BY <1>6, <2>1, <2>3, <3>1 DEF Manage, NoRestart, taskVars
      <3> QED  BY <1>1, <3>2
    <2> QED  BY <2>2, <2>3
  <1>7. CASE Drain
    BY <1>1, <1>7 DEF Drain, Loop, taskVars
  <1>8. CASE Testing
    BY <1>1, <1>8 DEF Testing, BeginTest, EndTest, modelVars, netVars, taskVars, mainVars
  <1>9. CASE UNCHANGED vars
    BY <1>1, <1>9 DEF vars, modelVars, netVars, taskVars, mainVars
  <1> QED  BY <1>2, <1>3, <1>4, <1>5, <1>6, <1>7, <1>8, <1>9, ServesTask DEF Next, MainLoop

\* With the edits saved, the link up and the tasks restarted since, every listed device
\* is polled at the address its slot lists and nothing else is, whatever removals moved
\* the devices between the slots; only those whose task that restart could not create
\* are not polled (channel.c:87-108, connections.c:39-91, controller.c:53-60).
THEOREM ServesCorrect == Spec => []ServesListed
  BY ListsInit, ListsStep, ServiceInit, ServiceStep, ServesInit, ServesStep, PTL DEF Spec

-----------------------------------------------------------------------------
(* The values of the other variables.                                      *)

RestOK ==
  /\ info \in [Slot -> Info]
  /\ changed \in 0 .. 1 /\ connected \in BOOLEAN /\ link \in {"up", "down"}
  /\ Len(deviceq) <= QueueLength
  /\ main \in {"gui", "publish", "queue", "drain"} /\ due \subseteq Channel
  /\ errors \subseteq Channel /\ registers \in [Channel -> SUBSET Slot]
  /\ told \subseteq Relay /\ test \in 0 .. 1 /\ afterTest \in 0 .. 1
  /\ unstarted \subseteq Slot /\ coming \in Seq(SUBSET Disturbance)

LEMMA RestInit == Init => RestOK
  <1> SUFFICES ASSUME Init PROVE RestOK
    OBVIOUS
  <1>1. info \in [Slot -> Info]
    <2>1. PICK stack \in Stack : info = [s \in Slot |-> stack]
      BY DEF Init
    <2>2. stack \in Info
      BY DeviceStatusAssumption DEF DeviceStatusAssumption, Info
    <2> QED  BY <2>1, <2>2
  <1>2. Len(deviceq) <= QueueLength
    BY DeviceStatusAssumption DEF DeviceStatusAssumption, Init
  <1>3. registers \in [Channel -> SUBSET Slot]
    BY DEF Init
  <1>4. changed \in 0 .. 1 /\ coming \in Seq(SUBSET Disturbance)
    BY DeviceStatusAssumption DEF DeviceStatusAssumption, Init
  <1>5. told \subseteq Relay /\ test \in 0 .. 1 /\ afterTest \in 0 .. 1 /\ unstarted \subseteq Slot /\ main = "gui" /\ link = "up"
        /\ due \subseteq Channel /\ errors \subseteq Channel
    BY DEF Init
  <1>6. connected \in BOOLEAN
    BY Zenon DEF Init
  <1> QED  BY <1>1, <1>2, <1>3, <1>4, <1>5, <1>6 DEF RestOK

\* A disturbance that has come is not to come any more.
LEMMA ComingType ==
  ASSUME RestOK, NEW kind, Disturb(kind)
  PROVE  coming' \in Seq(SUBSET Disturbance)
  BY DEF RestOK, Disturb

\* connections_restart resets the information of the listed devices, and only memory
\* that runs out disturbs it.
LEMMA RestartType ==
  ASSUME RestOK, Restart
  PROVE  /\ info' \in [Slot -> Info] /\ unstarted' \subseteq Slot
         /\ coming' \in Seq(SUBSET Disturbance)
  <1>1. NotConnected \in Info
    BY DEF NotConnected, Info
  <1>2. info' \in [Slot -> Info]
    BY <1>1 DEF Restart, RestOK
  <1>3. unstarted' \subseteq Slot
    BY Started DEF Restart, StartBut
  <1>4. coming' \in Seq(SUBSET Disturbance)
    BY ComingType DEF Restart, StartListed, RestOK
  <1> QED  BY <1>2, <1>3, <1>4

LEMMA ApplyType ==
  ASSUME info \in [Slot -> Info], NEW u \in Message
  PROVE  Apply(info, u) \in [Slot -> Info]
  <1>1. u.slot \in Slot /\ u.info \in Info
    BY DEF Message
  <1>2. [info[u.slot] EXCEPT !.connected = FALSE, !.from = NULL] \in Info
    BY <1>1 DEF Info
  <1> QED  BY <1>1, <1>2 DEF Apply

LEMMA RefreshType ==
  ASSUME RestOK, NEW i, Refresh(i)
  PROVE  told' \subseteq Relay
  <1>1. Found(i) \subseteq Relay
    BY DEF Found, Relay
  <1> QED  BY <1>1 DEF Refresh, RestOK

LEMMA RestEdit ==
  ASSUME ListsOK, RestOK, Environment
  PROVE  RestOK'
  <1>1. ASSUME NEW c \in Channel, NEW k \in Kind, AddDevice(c, k) PROVE RestOK'
    BY <1>1, ComingType DEF AddDevice, Editing, netVars, taskVars, outVars, relayVars, RestOK
  <1>2. ASSUME NEW s \in Slot, RemoveDevice(s) PROVE RestOK'
    <2> DEFINE behind(r) == r[1] = s[1] /\ r[2] = s[2]
                            /\ r[3] \in s[3] .. (count[<<s[1], s[2]>>] - 1) - 1
    <2>1. info' = [r \in Slot |-> IF behind(r) THEN info[<<r[1], r[2], r[3] + 1>>] ELSE info[r]]
      BY <1>2 DEF RemoveDevice
    <2>2. ASSUME NEW r \in Slot, behind(r) PROVE info[<<r[1], r[2], r[3] + 1>>] \in Info
      <3>1. <<r[1], r[2], r[3] + 1>> \in Slot
        BY <1>2, <2>2, SlotBehind DEF RemoveDevice, ListsOK
      <3> QED  BY <3>1 DEF RestOK
    <2> HIDE DEF behind
    <2>3. info' \in [Slot -> Info]
      BY <2>1, <2>2 DEF RestOK
    <2> QED  BY <1>2, <2>3, ComingType DEF RemoveDevice, Editing, taskVars, outVars, relayVars, netVars, RestOK
  <1>3. ASSUME NEW s \in Slot, SetAddress(s) PROVE RestOK'
    BY <1>3, ComingType DEF SetAddress, Editing, taskVars, outVars, relayVars, netVars, RestOK
  <1>4. CASE LinkDown
    BY <1>4, ComingType DEF LinkDown, StopAll, modelVars, mainVars, outVars, relayVars, RestOK
  <1>5. CASE GotIp
    BY <1>5, ComingType DEF GotIp, modelVars, taskVars, mainVars, outVars, relayVars, RestOK
  <1>6. CASE DeviceChanges
    BY <1>6, ComingType DEF DeviceChanges, modelVars, netVars, taskVars, mainVars, outVars, relayVars, RestOK
  <1> QED  BY <1>1, <1>2, <1>3, <1>4, <1>5, <1>6 DEF Environment

LEMMA RestTask ==
  ASSUME ListsOK, ServiceInv, RestOK, NEW s \in Slot, TasksOf(s)
  PROVE  RestOK'
  <1>1. Len(deviceq') <= QueueLength
    <2>1. CASE deviceq' = deviceq
      BY <2>1 DEF RestOK
    <2>2. ASSUME NEW p, NEW i, Send(p, i) PROVE Len(deviceq') <= QueueLength
      <3>1. Len(deviceq') = Len(deviceq) + 1 /\ Len(deviceq) \in Nat
        BY <2>2 DEF Send, ServiceInv
      <3> QED  BY <2>2, <3>1, DeviceStatusAssumption DEF DeviceStatusAssumption, Send
    <2> QED  BY <2>1, <2>2 DEF TasksOf, DeviceTask, Enter, SendNotOk, Ask, Report
  <1> QED  BY <1>1 DEF TasksOf, DeviceTask, Enter, SendNotOk, Ask, Report, TaskOnly, modelVars, netVars,
           mainVars, outVars, relayVars, RestOK

LEMMA RestStep == ListsOK /\ ServiceInv /\ RestOK /\ [Next]_vars => RestOK'
  <1> SUFFICES ASSUME ListsOK, ServiceInv, RestOK, [Next]_vars PROVE RestOK'
    OBVIOUS
  <1>1. CASE Save
    <2>1. /\ info' \in [Slot -> Info] /\ unstarted' \subseteq Slot
          /\ coming' \in Seq(SUBSET Disturbance)
      BY <1>1, RestartType DEF Save, NoRestart, taskVars, RestOK
    <2> QED  BY <1>1, <2>1 DEF Save, netVars, outVars, relayVars, RestOK
  <1>2. CASE BeginPublish
    BY <1>2 DEF BeginPublish, Loop, taskVars, outVars, relayVars, RestOK
  <1>3. ASSUME NEW c \in Channel, Publish(c) PROVE RestOK'
    <2>1. LastDevice(c) \subseteq Slot
      BY DEF LastDevice, InChannel
    <2>2. registers' \in [Channel -> SUBSET Slot]
      BY <1>3, <2>1 DEF Publish, RestOK
    <2> QED  BY <1>3, <2>2 DEF Publish, Loop, taskVars, RestOK
  <1>4. CASE Manage
    <2>1. /\ info' \in [Slot -> Info] /\ unstarted' \subseteq Slot
          /\ coming' \in Seq(SUBSET Disturbance)
      BY <1>4, RestartType DEF Manage, NoRestart, taskVars, RestOK
    <2>2. told' \subseteq Relay /\ afterTest' \in 0 .. 1 /\ main' \in {"gui", "drain"}
      BY <1>4, RefreshType DEF Manage, RestOK
    <2> QED  BY <1>4, <2>1, <2>2 DEF Manage, Loop, RestOK
  <1>5. CASE Drain
    <2>1. Head(deviceq) \in Message /\ Len(deviceq') = Len(deviceq) - 1 /\ Len(deviceq) \in Nat
      BY <1>5 DEF Drain, ServiceInv
    <2>2. info' \in [Slot -> Info]
      BY <1>5, <2>1, ApplyType DEF Drain, RestOK
    <2>3. told' \subseteq Relay /\ afterTest' \in 0 .. 1 /\ main' \in {"gui", "drain"}
      BY <1>5, RefreshType DEF Drain, RestOK
    <2>4. Len(deviceq') <= QueueLength
      BY <2>1, DeviceStatusAssumption DEF DeviceStatusAssumption, RestOK
    <2> QED  BY <1>5, <2>2, <2>3, <2>4 DEF Drain, Loop, taskVars, RestOK
  <1>6. CASE Testing
    BY <1>6, ComingType DEF Testing, BeginTest, EndTest, modelVars, netVars, taskVars, mainVars, RestOK
  <1>7. CASE UNCHANGED vars
    BY <1>7 DEF vars, modelVars, netVars, taskVars, mainVars, outVars, relayVars, RestOK
  <1> QED  BY <1>1, <1>2, <1>3, <1>4, <1>5, <1>6, <1>7, RestEdit, RestTask DEF Next, MainLoop

-----------------------------------------------------------------------------
(* Whose answers a slot holds.                                             *)

\* The updates of a slot that follow the last one that says "not connected".
Since(q, s, i) ==
  \A j \in 1 .. Len(q) : j >= i /\ q[j].slot = s => q[j].info.connected

\* A task that serves its slot, and found it empty, is past its first update.
Reporting(p) == task[p].at \in {"ask", "report"} /\ ~task[p].stopped /\ task[p].alone

\* The inductive form of OwnAnswers: what follows that update, in the queue or, when
\* it has been applied, in the model, are answers of the device the task polls.
OwnQueued(p) ==
  \A i \in 1 .. Len(deviceq) :
    deviceq[i].slot = p[1] /\ Since(deviceq, p[1], i) => deviceq[i].info.from = task[p].addr
OwnHeld(p) == Since(deviceq, p[1], 1) => info[p[1]].from \in {NULL, task[p].addr}
OwnInv == Applied => \A p \in Place : Reporting(p) => OwnQueued(p) /\ OwnHeld(p)

LEMMA OwnInit == Init => OwnInv
  BY DEF Init, OwnInv, Applied

\* Nothing has to be shown where nobody reports.
LEMMA OwnStopped ==
  ASSUME ListsOK, StopTasks
  PROVE  OwnInv'
  BY NobodyInService DEF OwnInv, Reporting

\* One more update at the end of the queue.
LEMMA SinceAppend ==
  ASSUME NEW q \in Seq(Message), NEW u \in Message, NEW s \in Slot,
         NEW i \in 1 .. Len(q) + 1
  PROVE  Since(Append(q, u), s, i) <=>
           Since(q, s, i) /\ (u.slot = s => u.info.connected)
  <1>1. Len(Append(q, u)) = Len(q) + 1 /\ Len(q) \in Nat
    OBVIOUS
  <1>2. \A j \in 1 .. Len(q) : Append(q, u)[j] = q[j]
    OBVIOUS
  <1>3. Append(q, u)[Len(q) + 1] = u
    OBVIOUS
  <1>4. \A j : j \in 1 .. Len(q) + 1 <=> j \in 1 .. Len(q) \/ j = Len(q) + 1
    BY <1>1
  <1> QED  BY <1>1, <1>2, <1>3, <1>4 DEF Since

\* The oldest update leaves the queue.
LEMMA SinceTail ==
  ASSUME NEW q \in Seq(Message), q # <<>>, NEW s \in Slot
  PROVE  /\ Len(Tail(q)) = Len(q) - 1
         /\ \A i \in 1 .. Len(q) - 1 :
              /\ Tail(q)[i] = q[i + 1]
              /\ Since(Tail(q), s, i) <=> Since(q, s, i + 1)
         /\ Since(q, s, 1) <=> Since(Tail(q), s, 1) /\ (q[1].slot = s => q[1].info.connected)
  <1>1. Len(Tail(q)) = Len(q) - 1 /\ Len(q) \in Nat /\ Len(q) >= 1
    OBVIOUS
  <1>2. \A i \in 1 .. Len(q) - 1 : Tail(q)[i] = q[i + 1]
    BY <1>1
  <1>3. ASSUME NEW i \in 1 .. Len(q)
        PROVE  Since(Tail(q), s, i) <=> Since(q, s, i + 1)
    <2>1. ASSUME Since(Tail(q), s, i), NEW j \in 1 .. Len(q), j >= i + 1, q[j].slot = s
          PROVE  q[j].info.connected
      <3>1. j - 1 \in 1 .. Len(q) - 1 /\ j - 1 >= i /\ (j - 1) + 1 = j
        BY <1>1, <2>1
      <3>2. Tail(q)[j - 1] = q[j]
        BY <1>2, <3>1
      <3> QED  BY <1>1, <2>1, <3>1, <3>2 DEF Since
    <2>2. ASSUME Since(q, s, i + 1), NEW j \in 1 .. Len(q) - 1, j >= i, Tail(q)[j].slot = s
          PROVE  Tail(q)[j].info.connected
      <3>1. j + 1 \in 1 .. Len(q) /\ j + 1 >= i + 1 /\ Tail(q)[j] = q[j + 1]
        BY <1>1, <1>2, <2>2
      <3> QED  BY <2>2, <3>1 DEF Since
    <2> QED  BY <1>1, <2>1, <2>2 DEF Since
  <1>4. Since(q, s, 1) <=> Since(q, s, 2) /\ (q[1].slot = s => q[1].info.connected)
    BY <1>1 DEF Since
  <1> QED  BY <1>1, <1>2, <1>3, <1>4

\* One more update: of another slot, "not connected", or an answer of the device itself.
LEMMA OwnSend ==
  ASSUME ListsOK, ServiceInv, OwnInv, Applied, info' = info, NEW r \in Place,
         NEW u \in Message, deviceq' = Append(deviceq, u),
         u.slot = r[1] => ~u.info.connected \/ u.info.from = task'[r].addr,
         u.slot # r[1] \/ u.info.connected => Reporting(r) /\ task'[r].addr = task[r].addr
  PROVE  OwnQueued(r)' /\ OwnHeld(r)'
  <1>0. deviceq \in Seq(Message) /\ r[1] \in Slot
    BY PlaceFacts DEF ServiceInv
  <1>1. Len(deviceq') = Len(deviceq) + 1 /\ Len(deviceq) \in Nat
        /\ deviceq'[Len(deviceq) + 1] = u
        /\ \A i \in 1 .. Len(deviceq) : deviceq'[i] = deviceq[i]
    BY <1>0
  <1>2. \A i \in 1 .. Len(deviceq) + 1 :
          Since(deviceq', r[1], i) => Since(deviceq, r[1], i) /\ (u.slot = r[1] => u.info.connected)
    BY <1>0, SinceAppend
  <1>3. ASSUME NEW i \in 1 .. Len(deviceq) + 1, deviceq'[i].slot = r[1], Since(deviceq', r[1], i)
        PROVE  deviceq'[i].info.from = task'[r].addr
    <2>1. CASE i = Len(deviceq) + 1
      BY <1>1, <1>2, <1>3, <2>1
    <2>2. CASE i \in 1 .. Len(deviceq)
      <3>1. Since(deviceq, r[1], i) /\ Reporting(r) /\ task'[r].addr = task[r].addr
        BY <1>2, <1>3
      <3>2. deviceq[i].slot = r[1]
        BY <1>1, <1>3, <2>2
      <3> QED  BY <1>1, <2>2, <3>1, <3>2 DEF OwnInv, OwnQueued
    <2> QED  BY <1>1, <2>1, <2>2
  <1>4. ASSUME Since(deviceq', r[1], 1) PROVE info'[r[1]].from \in {NULL, task'[r].addr}
    <2>1. Since(deviceq, r[1], 1) /\ Reporting(r) /\ task'[r].addr = task[r].addr
      BY <1>1, <1>2, <1>4
    <2> QED  BY <2>1 DEF OwnInv, OwnHeld
  <1> QED  BY <1>1, <1>3, <1>4 DEF OwnQueued, OwnHeld

\* A task that was there before, and sends nothing.
LEMMA OwnSame ==
  ASSUME OwnInv, Applied, NEW r \in Place, Reporting(r), UNCHANGED <<info, deviceq>>,
         task'[r].addr = task[r].addr
  PROVE  OwnQueued(r)' /\ OwnHeld(r)'
  BY DEF OwnInv, OwnQueued, OwnHeld, Since

LEMMA OwnEnter ==
  ASSUME ListsOK, OwnInv, NEW s \in Slot, Enter(s)
  PROVE  OwnInv'
  <1>1. PICK p \in Place, t \in TaskOrNone :
          task' = [task EXCEPT ![p] = t] /\ t.at = "notok"
    BY Entered
  <1>2. UNCHANGED <<info, deviceq, changed, link, restartq>>
    BY DEF Enter, TaskOnly, modelVars, netVars, mainVars
  <1>3. \A r \in Place : Reporting(r)' => Reporting(r) /\ task'[r] = task[r]
    BY <1>1 DEF ListsOK, Reporting
  <1> QED  BY <1>2, <1>3, OwnSame DEF OwnInv, Applied

\* A task that serves its slot and was there first is alone there, so that the others
\* only send updates of other slots.
LEMMA OwnMove ==
  ASSUME ListsOK, ServiceInv, OwnInv, NEW p \in Place, DeviceTask(p)
  PROVE  OwnInv'
  <1> SUFFICES ASSUME Applied', NEW r \in Place, Reporting(r)'
               PROVE  OwnQueued(r)' /\ OwnHeld(r)'
    BY DEF OwnInv
  <1>1. UNCHANGED <<info, changed, link, restartq>> /\ Applied
    BY DEF DeviceTask, SendNotOk, Ask, Report, TaskOnly, modelVars, netVars, mainVars, Applied
  <1>2. task[p] \in TaskOrNone /\ DOMAIN task = Place /\ deviceq \in Seq(Message) /\ p[1] \in Slot
    BY PlaceFacts DEF ListsOK, ServiceInv
  <1>3. r # p => task'[r] = task[r] /\ Reporting(r)
    BY DEF DeviceTask, SendNotOk, Ask, Report, ListsOK, Reporting
  <1>4. r # p => p[1] # r[1]
    <2> SUFFICES ASSUME r # p, p[1] = r[1] PROVE FALSE
      OBVIOUS
    <2>1. p = <<r[1], p[2]>> /\ r = <<r[1], r[2]>> /\ r[1] \in Slot /\ p[2] \in Task /\ r[2] \in Task
      BY PlaceFacts
    <2>2. InService(r[1], r[2]) /\ task[<<r[1], r[2]>>].alone
      BY <1>3, <2>1 DEF InService, Reporting
    <2>3. task[p].at # "none" /\ task[p] # NoTask
      BY NoTaskType DEF DeviceTask, SendNotOk, Ask, Report, At
    <2>4. p[2] = r[2]
      BY <2>1, <2>2, <2>3 DEF ServiceInv, AloneInside
    <2> QED  BY <2>1, <2>4
  <1>5. CASE SendNotOk(p)
    <2> DEFINE u == [slot |-> p[1], info |-> NotConnected]
    <2>1. u \in Message /\ u.slot = p[1] /\ ~u.info.connected
      BY <1>2 DEF Message, NotConnected, Info
    <2>2. deviceq' = Append(deviceq, u)
      BY <1>5 DEF SendNotOk, Send
    <2> HIDE DEF u
    <2> QED  BY <1>1, <1>3, <2>1, <2>2, OwnSend
  <1>6. CASE Ask(p)
    <2>1. deviceq' = deviceq /\ task[p].at = "ask"
      BY <1>6 DEF Ask, At
    <2>2. CASE r = p
      <3>1. ~task[p].stopped /\ world[task[p].addr].connected
        <4>1. CASE task[p].stopped
          <5>1. task'[p] = NoTask
            BY <1>2, <1>6, <4>1 DEF Ask
          <5> QED  BY <2>2, <5>1, NoTaskType DEF Reporting
        <4>2. CASE ~task[p].stopped /\ ~world[task[p].addr].connected
          <5>1. task'[p] = [task[p] EXCEPT !.at = "notok"]
            BY <1>2, <1>6, <4>2 DEF Ask
          <5>2. task'[p].at = "notok"
            BY <1>2, <5>1 DEF TaskOrNone, TaskRecord
          <5> QED  BY <2>2, <5>2 DEF Reporting
        <4> QED  BY <4>1, <4>2
      <3>2. task'[p] = [task[p] EXCEPT !.at = "report", !.value = Answer(task[p].addr)]
        BY <1>2, <1>6, <3>1 DEF Ask
      <3>3. task'[p].addr = task[p].addr /\ task'[p].alone = task[p].alone
        BY <1>2, <3>2 DEF TaskOrNone, TaskRecord
      <3>4. Reporting(r)
        BY <2>1, <2>2, <3>1, <3>3 DEF Reporting
      <3> QED  BY <1>1, <2>1, <2>2, <3>3, <3>4, OwnSame
    <2>3. CASE r # p
      BY <1>1, <1>3, <2>1, <2>3, OwnSame
    <2> QED  BY <2>2, <2>3
  <1>7. CASE Report(p)
    <2> DEFINE u == [slot |-> p[1], info |-> task[p].value]
    <2>1. u \in Message /\ u.slot = p[1] /\ u.info.from = task[p].addr /\ u.info.connected
      BY <1>2, <1>7 DEF Message, TaskOrNone, TaskRecord, ServiceInv, OwnValue, Report, At
    <2>2. deviceq' = Append(deviceq, u)
      BY <1>7 DEF Report, Send
    <2>3. task'[p].addr = task[p].addr /\ task'[p].stopped = task[p].stopped
          /\ task'[p].alone = task[p].alone /\ task[p].at = "report"
      BY <1>2, <1>7 DEF Report, At, TaskOrNone, TaskRecord
    <2> HIDE DEF u
    <2>4. Reporting(r) /\ task'[r].addr = task[r].addr
      BY <1>3, <2>3 DEF Reporting
    <2>5. u.slot = r[1] => u.info.from = task'[r].addr
      BY <1>4, <2>1, <2>4
    <2> QED  BY <1>1, <2>2, <2>4, <2>5, <2>1, OwnSend
  <1> QED  BY <1>5, <1>6, <1>7 DEF DeviceTask

LEMMA OwnTask ==
  ASSUME ListsOK, ServiceInv, OwnInv, NEW s \in Slot, TasksOf(s)
  PROVE  OwnInv'
  BY TaskSteps, OwnEnter, OwnMove

\* model_update_channel: an answer replaces what is there, "not connected" forgets
\* whose answer it was.
LEMMA OwnDrain ==
  ASSUME ServiceInv, OwnInv, Drain, info \in [Slot -> Info]
  PROVE  OwnInv'
  <1> SUFFICES ASSUME Applied', NEW p \in Place, Reporting(p)'
               PROVE  OwnQueued(p)' /\ OwnHeld(p)'
    BY DEF OwnInv, OwnQueued, OwnHeld
  <1> DEFINE r == p[1]
  <1>0. r \in Slot
    BY PlaceFacts
  <1> HIDE DEF r
  <1>1. Applied /\ Reporting(p) /\ task' = task
    BY DEF Drain, Loop, taskVars, Applied, Reporting
  <1>2. deviceq \in Seq(Message) /\ deviceq # <<>> /\ deviceq' = Tail(deviceq)
        /\ Head(deviceq) = deviceq[1] /\ deviceq[1] \in Message /\ 1 \in 1 .. Len(deviceq)
    BY DEF Drain, ServiceInv
  <1>3. ASSUME NEW i \in 1 .. Len(deviceq'), deviceq'[i].slot = r, Since(deviceq', r, i)
        PROVE  deviceq'[i].info.from = task'[p].addr
    <2>1. i \in 1 .. Len(deviceq) - 1
      BY <1>2, <1>3, SinceTail, <1>0
    <2>2. i + 1 \in 1 .. Len(deviceq) /\ deviceq'[i] = deviceq[i + 1]
          /\ Since(deviceq, r, i + 1)
      BY <1>2, <1>3, <2>1, SinceTail, <1>0
    <2> QED  BY <1>1, <1>3, <2>2 DEF OwnInv, OwnQueued, OwnHeld, r
  <1>4. ASSUME Since(deviceq', r, 1) PROVE info'[r].from \in {NULL, task'[p].addr}
    <2> DEFINE u == deviceq[1]
    <2>1. info' = Apply(info, u)
      BY <1>2 DEF Drain
    <2>2. CASE u.slot # r
      <3>1. info'[r] = info[r]
        BY <1>0, <2>1, <2>2 DEF Apply
      <3>2. Since(deviceq, r, 1)
        BY <1>2, <1>4, <2>2, SinceTail, <1>0
      <3> QED  BY <1>1, <3>1, <3>2 DEF OwnInv, OwnQueued, OwnHeld, r
    <2>3. CASE u.slot = r /\ u.info.connected
      <3>1. info'[r] = u.info
        BY <1>0, <2>1, <2>3 DEF Apply
      <3>2. Since(deviceq, r, 1)
        BY <1>2, <1>4, <2>3, SinceTail, <1>0
      <3>3. u.info.from = task[p].addr
        BY <1>1, <1>2, <2>3, <3>2 DEF OwnInv, OwnQueued, OwnHeld, r
      <3> QED  BY <1>1, <3>1, <3>3
    <2>4. CASE u.slot = r /\ ~u.info.connected
      <3>1. info'[r] = [info[r] EXCEPT !.connected = FALSE, !.from = NULL]
        BY <1>0, <2>1, <2>4 DEF Apply
      <3>2. info[r] \in Info
        BY <1>0
      <3>3. info'[r].from = NULL
        BY <3>1, <3>2 DEF Info
      <3> QED  BY <3>3
    <2> QED  BY <2>2, <2>3, <2>4
  <1> QED  BY <1>3, <1>4 DEF OwnQueued, OwnHeld, r

\* Whatever else changes, a restart empties the claim and an edit ends it.
LEMMA OwnStep == ListsOK /\ ServiceInv /\ RestOK /\ OwnInv /\ [Next]_vars => OwnInv'
  <1> SUFFICES ASSUME ListsOK, ServiceInv, RestOK, OwnInv, [Next]_vars PROVE OwnInv'
    OBVIOUS
  <1>1. CASE UNCHANGED <<info, changed, link, restartq, task, deviceq>>
    BY <1>1 DEF OwnInv, OwnQueued, OwnHeld, Applied, Reporting, Since
  <1>2. CASE ~Applied'
    BY <1>2 DEF OwnInv
  <1>3. CASE Environment
    <2>1. CASE changed' = 1 \/ LinkDown \/ GotIp
      BY <1>2, <2>1 DEF LinkDown, GotIp, Applied
    <2>2. CASE DeviceChanges
      BY <1>1, <2>2 DEF DeviceChanges, modelVars, netVars, taskVars, mainVars
    <2> QED  BY <1>3, <2>1, <2>2 DEF Environment, AddDevice, RemoveDevice, SetAddress, Editing
  <1>4. CASE Save
    <2>1. CASE link = "up"
      BY <1>4, <2>1, OwnStopped, Started DEF Save, Restart
    <2>2. CASE link # "up"
      BY <1>2, <1>4, <2>2 DEF Save, netVars, Applied
    <2> QED  BY <2>1, <2>2
  <1>5. CASE BeginPublish \/ (\E c \in Channel : Publish(c))
    BY <1>1, <1>5 DEF BeginPublish, Publish, Loop, taskVars
  <1>6. CASE Manage
    <2>1. CASE restartq = 1
      BY <1>6, <2>1, OwnStopped, Started DEF Manage, Restart
    <2>2. CASE restartq # 1
      BY <1>1, <1>6, <2>2 DEF Manage, NoRestart, Loop, taskVars, ListsOK
    <2> QED  BY <2>1, <2>2
  <1>7. CASE Drain
    BY <1>7, OwnDrain DEF RestOK
  <1>8. CASE Testing
    BY <1>1, <1>8 DEF Testing, BeginTest, EndTest, modelVars, netVars, taskVars, mainVars
  <1>9. CASE UNCHANGED vars
    BY <1>1, <1>9 DEF vars, modelVars, netVars, taskVars, mainVars
  <1> QED  BY <1>3, <1>4, <1>5, <1>6, <1>7, <1>8, <1>9, OwnTask DEF Next, MainLoop

\* A slot whose task is in service lists the address the task polls.
LEMMA OwnImplied == ListsOK /\ ServesListed /\ OwnInv => OwnAnswers
  <1> SUFFICES ASSUME ListsOK, ServesListed, OwnInv, Applied, NEW s \in Slot, NEW q \in Task,
                      Reporting(<<s, q>>),
                      \A i \in 1 .. Len(deviceq) : deviceq[i].slot = s => deviceq[i].info.connected
               PROVE  info[s].from \in {NULL, addr[s]}
    BY DEF OwnAnswers, Serving, Reporting
  <1>1. <<s, q>> \in Place /\ <<s, q>>[1] = s
    BY PlaceOf
  <1>2. task[<<s, q>>] \in Serving(s)
    BY DEF Reporting, Serving
  <1>3. task[<<s, q>>].addr \in Polled(s)
    BY <1>2 DEF Polled
  <1>4. task[<<s, q>>].addr = addr[s]
    BY <1>3 DEF ServesListed
  <1>5. Since(deviceq, s, 1)
    BY DEF Since
  <1> QED  BY <1>1, <1>4, <1>5 DEF OwnInv, OwnHeld

\* From the time its task has told the model that the device is not connected, a slot
\* holds nothing another device has answered, whatever stopped tasks of that slot still
\* had to send (connections.c:118, 141, model.c:301-308).
THEOREM OwnCorrect == Spec => []OwnAnswers
  <1> DEFINE IInv == ListsOK /\ ServesListed /\ ServiceInv /\ RestOK /\ OwnInv
  <1>1. Init => IInv
    BY ListsInit, ServesInit, ServiceInit, RestInit, OwnInit
  <1>2. IInv /\ [Next]_vars => IInv'
    BY ListsStep, ServesStep, ServiceStep, RestStep, OwnStep
  <1>3. IInv => OwnAnswers
    BY OwnImplied
  <1> QED  BY <1>1, <1>2, <1>3, PTL DEF Spec

\* Every variable keeps to its values: the lists never outgrow a channel and the queue
\* never its capacity, whatever the user and the tasks do (channel.c:50-108,
\* controller.c:48-60).
THEOREM TypeCorrect == Spec => []TypeOK
  <1> DEFINE IInv == ListsOK /\ ServiceInv /\ RestOK
  <1>1. Init => IInv
    BY ListsInit, ServiceInit, RestInit
  <1>2. IInv /\ [Next]_vars => IInv'
    BY ListsStep, ServiceStep, RestStep
  <1>3. IInv => TypeOK
    BY DEF ListsOK, ServiceInv, RestOK, TypeOK, TaskOrNone, TaskRecord, Message
  <1> QED  BY <1>1, <1>2, <1>3, PTL DEF Spec
=============================================================================
