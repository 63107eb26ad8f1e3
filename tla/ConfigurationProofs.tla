------------------------ MODULE ConfigurationProofs ------------------------
(***************************************************************************)
(* Theorems about Configuration for every number of channels, devices,     *)
(* addresses and options, and for writes of the flash that fail.           *)
(***************************************************************************)
EXTENDS Configuration, SequenceTheorems, TLAPS

\* A number of devices allowed for a kind is a natural number.
LEMMA LimitType == \A k \in Kind : Limit[k] \in Nat /\ Limit[k] <= MaxMasters + MaxMinions
  BY ConfigurationAssumption DEF ConfigurationAssumption, Limit, Kind

\* A key is the key of a setting, or that of a number or an address.
LEMMA KeyForms ==
  ASSUME NEW key
  PROVE  key \in Key <=> \/ \E s \in Setting : key = <<s, 0, 0>>
                         \/ \E k \in Kind, c \in Channel : \E j \in 0 .. Limit[k] :
                              key = <<k, c, j>>
<1>1. ASSUME NEW k \in Kind, NEW c \in Channel, NEW j \in 0 .. Limit[k]
      PROVE  <<k, c, j>> \in Key
  BY LimitType, ConfigurationAssumption DEF Key, ConfigurationAssumption
<1>2. ASSUME NEW s \in Setting
      PROVE  <<s, 0, 0>> \in Key
  BY DEF Key
<1>3. ASSUME key \in Key
      PROVE  \/ \E s \in Setting : key = <<s, 0, 0>>
             \/ \E k \in Kind, c \in Channel : \E j \in 0 .. Limit[k] : key = <<k, c, j>>
  <2>1. CASE key \in Setting \X {0} \X {0}
    BY <2>1
  <2>2. CASE key \in Kind \X Channel \X (0 .. MaxMasters + MaxMinions) /\ key[3] <= Limit[key[1]]
    BY <2>2, LimitType
  <2>3. QED
    BY <1>3, <2>1, <2>2 DEF Key
<1>4. QED
  BY <1>1, <1>2, <1>3

\* Settings and kinds of devices are told apart.
LEMMA KindsApart == \A k \in Kind : k \notin Setting
  BY DEF Kind, Setting

\* A flash of the right type loads values of the right type.
LEMMA LoadedType ==
  ASSUME NEW flash, FlashOK(flash), NEW key \in Key
  PROVE  Loaded(flash, key) \in KeyValues(key)
<1>1. Default(key) \in KeyValues(key)
  <2>1. CASE \E s \in Setting : key = <<s, 0, 0>>
    BY <2>1, ConfigurationAssumption
       DEF ConfigurationAssumption, Default, KeyValues, Setting, Address
  <2>2. CASE \E k \in Kind, c \in Channel : \E j \in 0 .. Limit[k] : key = <<k, c, j>>
    <3>1. PICK k \in Kind, c \in Channel : \E j \in 0 .. Limit[k] : key = <<k, c, j>>
      BY <2>2
    <3>2. k # "IPADDR" /\ k \notin Setting /\ Limit[k] \in Nat
      BY LimitType DEF Kind, Setting
    <3>3. QED
      BY <3>1, <3>2 DEF Default, KeyValues
  <2>3. QED
    BY <2>1, <2>2, KeyForms
<1>2. QED
  BY <1>1 DEF Loaded, FlashOK

\* What a boot finds on a channel: as many addresses as the number says.
LEMMA LoadedChannelType ==
  ASSUME NEW flash, FlashOK(flash), NEW c \in Channel, NEW k \in Kind
  PROVE  LET n == Loaded(flash, <<k, c, 0>>)
             addresses == LoadedChannel(flash, c)[k]
         IN /\ n \in 0 .. Limit[k]
            /\ addresses \in Seq(Address \cup {Garbage})
            /\ Len(addresses) = n
            /\ \A j \in 1 .. n : addresses[j] = Loaded(flash, <<k, c, j>>)
<1> DEFINE n == Loaded(flash, <<k, c, 0>>)
           addresses == LoadedChannel(flash, c)[k]
<1>1. k \notin Setting /\ k # "IPADDR" /\ Limit[k] \in Nat
  BY LimitType DEF Kind, Setting
<1>2. \A j \in 0 .. Limit[k] : <<k, c, j>> \in Key
  BY KeyForms
<1>3. n \in 0 .. Limit[k]
  <2>1. <<k, c, 0>> \in Key
    BY <1>1, <1>2
  <2>2. KeyValues(<<k, c, 0>>) = 0 .. Limit[k]
    BY <1>1 DEF KeyValues
  <2>3. QED
    BY <2>1, <2>2, LoadedType
<1>4. addresses = [j \in 1 .. n |-> Loaded(flash, <<k, c, j>>)]
  BY DEF LoadedChannel
<1>5. ASSUME NEW j \in 1 .. n
      PROVE  Loaded(flash, <<k, c, j>>) \in Address \cup {Garbage}
  <2>1. <<k, c, j>> \in Key /\ j # 0
    BY <1>1, <1>2, <1>3
  <2>2. KeyValues(<<k, c, j>>) = Address \cup {Garbage}
    BY <1>1, <2>1 DEF KeyValues
  <2>3. QED
    BY <2>1, <2>2, LoadedType
<1>6. addresses \in [1 .. n -> Address \cup {Garbage}]
  BY <1>4, <1>5
<1>7. addresses \in Seq(Address \cup {Garbage}) /\ Len(addresses) = n
  BY <1>3, <1>6, SeqDef
<1>8. QED
  BY <1>3, <1>4, <1>7

\* A table without devices is a table.
LEMMA NoDevicesType ==
  NoDevices \in DeviceTable /\ NoDevices \in TaskTable /\ FitsLimits(NoDevices)
<1>1. /\ <<>> \in Seq(Address \cup {Garbage}) /\ <<>> \in Seq(Address \cup {Garbage, NoTask})
      /\ Len(<<>>) = 0
  BY EmptySeq
<1>2. \A c \in Channel, k \in Kind : NoDevices[c][k] = <<>>
  BY DEF NoDevices
<1>3. QED
  BY <1>1, <1>2, LimitType DEF NoDevices, DeviceTable, TaskTable, Table, FitsLimits

\* A restart makes a task for each device of the table, or none for it.
LEMMA RestartType ==
  ASSUME TypeOK, Restarted
  PROVE  /\ running' \in TaskTable /\ FitsLimits(running)'
         /\ devices' = devices => TalksTo(devices)'
<1>1. PICK failed \in SUBSET Starved :
        running' = [c \in Channel |-> [k \in Kind |-> [j \in 1 .. Len(devices[c][k]) |->
                      IF <<k, c, j>> \in failed THEN NoTask ELSE devices[c][k][j]]]]
  BY DEF Restarted
<1>2. ASSUME NEW c \in Channel, NEW k \in Kind
      PROVE  /\ running'[c][k] \in Seq(Address \cup {Garbage, NoTask})
             /\ Len(running'[c][k]) = Len(devices[c][k]) /\ Len(devices[c][k]) <= Limit[k]
             /\ \A j \in 1 .. Len(devices[c][k]) :
                  running'[c][k][j] \in {devices[c][k][j], NoTask}
  <2> DEFINE n == Len(devices[c][k])
             tasks == [j \in 1 .. n |-> IF <<k, c, j>> \in failed THEN NoTask
                                        ELSE devices[c][k][j]]
  <2>1. devices[c][k] \in Seq(Address \cup {Garbage}) /\ n \in Nat /\ n <= Limit[k]
    BY LenProperties DEF TypeOK, DeviceTable, Table, FitsLimits
  <2>2. \A j \in 1 .. n : devices[c][k][j] \in Address \cup {Garbage}
    BY <2>1, ElementOfSeq
  <2>3. tasks \in [1 .. n -> Address \cup {Garbage, NoTask}]
    BY <2>2
  <2>4. tasks \in Seq(Address \cup {Garbage, NoTask}) /\ Len(tasks) = n
    BY <2>1, <2>3, SeqDef
  <2>5. running'[c][k] = tasks
    BY <1>1
  <2>6. QED
    BY <2>1, <2>4, <2>5
<1>3. running' \in TaskTable
  BY <1>1, <1>2 DEF TaskTable, Table
<1>4. FitsLimits(running)'
  BY <1>2 DEF FitsLimits
<1>5. devices' = devices => TalksTo(devices)'
  BY <1>2 DEF TalksTo
<1>6. QED
  BY <1>3, <1>4, <1>5

\* The keys in use depend on the devices alone.
LEMMA SameKeys ==
  ASSUME UNCHANGED model
  PROVE  KeysInUse' = KeysInUse /\ \A key : ModelValue(key)' = ModelValue(key)
  BY DEF model, KeysInUse, ModelValue

\* An empty flash and an empty table have their types.
LEMMA InitType == Init => TypeOK
<1> SUFFICES ASSUME Init PROVE TypeOK
  OBVIOUS
<1>1. FlashOK(nvs)
  BY DEF Init, FlashOK, Absent
<1>2. NoDevices \in DeviceTable /\ NoDevices \in TaskTable /\ FitsLimits(NoDevices)
  BY NoDevicesType
<1>3. ASSUME NEW t \in Setting
      PROVE  setting[t] \in KeyValues(<<t, 0, 0>>) /\ setting[t] \in Int
  BY <1>3, ConfigurationAssumption
     DEF ConfigurationAssumption, Init, Default, KeyValues, Setting, Address
<1>4. setting \in [Setting -> Int]
  BY <1>3 DEF Init
<1>5. QED
  BY <1>1, <1>2, <1>3, <1>4 DEF Init, TypeOK

\* A boot finds a configuration of the right type.
LEMMA BootType ==
  ASSUME TypeOK, Boot, aborted' \in 0 .. 1
  PROVE  TypeOK'
<1>1. FlashOK(nvs)' /\ FlashOK(before)'
  BY DEF TypeOK, Boot, FlashOK
<1>2. ASSUME NEW t \in Setting
      PROVE  setting'[t] \in KeyValues(<<t, 0, 0>>) /\ setting'[t] \in Int
  <2>1. <<t, 0, 0>> \in Key
    BY KeyForms
  <2>2. setting'[t] = Loaded(nvs, <<t, 0, 0>>)
    BY DEF Boot
  <2>3. setting'[t] \in KeyValues(<<t, 0, 0>>)
    BY <2>1, <2>2, LoadedType DEF TypeOK
  <2>4. KeyValues(<<t, 0, 0>>) \subseteq Int
    BY ConfigurationAssumption DEF ConfigurationAssumption, KeyValues, Address
  <2>5. QED
    BY <2>3, <2>4
<1>3. setting' \in [Setting -> Int]
  BY <1>2 DEF Boot
<1>4. devices' \in DeviceTable /\ FitsLimits(devices)'
  <2>1. ASSUME NEW c \in Channel, NEW k \in Kind
        PROVE  devices'[c][k] \in Seq(Address \cup {Garbage}) /\ Len(devices'[c][k]) <= Limit[k]
    <3>1. devices'[c][k] = LoadedChannel(nvs, c)[k]
      BY DEF Boot
    <3>2. FlashOK(nvs)
      BY DEF TypeOK
    <3>3. LoadedChannel(nvs, c)[k] \in Seq(Address \cup {Garbage})
      BY <3>2, LoadedChannelType
    <3>4. /\ Len(LoadedChannel(nvs, c)[k]) = Loaded(nvs, <<k, c, 0>>)
          /\ Loaded(nvs, <<k, c, 0>>) \in 0 .. Limit[k]
      BY <3>2, LoadedChannelType
    <3>5. QED
      BY <3>1, <3>3, <3>4, LimitType
  <2>2. devices' = [c \in Channel |-> [k \in Kind |-> devices'[c][k]]]
    BY DEF Boot, LoadedChannel
  <2>3. QED
    BY <2>1, <2>2 DEF DeviceTable, Table, FitsLimits
<1>5. running' \in TaskTable /\ FitsLimits(running)'
  BY NoDevicesType DEF Boot, FitsLimits
<1>6. QED
  BY <1>1, <1>2, <1>3, <1>4, <1>5 DEF TypeOK, Boot

\* Putting a legal list in place of one of a table leaves a legal table.
LEMMA TableUpdate ==
  ASSUME NEW table \in DeviceTable, FitsLimits(table), NEW c \in Channel, NEW k \in Kind,
         NEW list \in Seq(Address \cup {Garbage}), Len(list) <= Limit[k]
  PROVE  /\ [table EXCEPT ![c][k] = list] \in DeviceTable
         /\ FitsLimits([table EXCEPT ![c][k] = list])
  BY DEF DeviceTable, Table, FitsLimits

\* An edit leaves everything but the model as it is.
LEMMA EditKeeps ==
  ASSUME TypeOK, main = "gui", OnlyEdits
  PROVE  /\ running' \in TaskTable /\ FitsLimits(running)'
         /\ main' = "gui" /\ unwritten' = {}
         /\ FlashOK(nvs)' /\ FlashOK(before)' /\ lost' \subseteq Key
         /\ linked' \in 0 .. 1 /\ handler' \in {"none", "up", "down"}
        /\ restart' \in 0 .. 1 /\ aborted' \in 0 .. 1
  BY DEF TypeOK, OnlyEdits, link, FitsLimits, FlashOK

\* Every edit of a page keeps the types.
LEMMA EditType == TypeOK /\ Edit => TypeOK'
<1> SUFFICES ASSUME TypeOK, Edit PROVE TypeOK'
  OBVIOUS
<1>1. ASSUME NEW c \in Channel, NEW k \in Kind
      PROVE  devices[c][k] \in Seq(Address \cup {Garbage}) /\ Len(devices[c][k]) <= Limit[k]
  BY DEF TypeOK, DeviceTable, Table, FitsLimits
<1>2. ASSUME NEW c \in Channel, NEW k \in Kind, AddDevice(c, k)
      PROVE  devices' \in DeviceTable /\ FitsLimits(devices)'
  <2>1. PICK ip \in Address : devices' = [devices EXCEPT ![c][k] = Append(@, ip)]
    BY <1>2 DEF AddDevice
  <2>2. devices' = [devices EXCEPT ![c][k] = Append(devices[c][k], ip)]
    BY <2>1 DEF TypeOK, DeviceTable, Table
  <2>3. /\ Append(devices[c][k], ip) \in Seq(Address \cup {Garbage})
        /\ Len(Append(devices[c][k], ip)) <= Limit[k]
    BY <1>1, <1>2, AppendProperties, LimitType DEF AddDevice
  <2>4. QED
    BY <2>2, <2>3, TableUpdate DEF TypeOK
<1>3. ASSUME NEW c \in Channel, NEW k \in Kind, RemoveDevice(c, k)
      PROVE  devices' \in DeviceTable /\ FitsLimits(devices)'
  <2> DEFINE list == devices[c][k]
  <2>1. PICK i \in 1 .. Len(list) :
          devices' = [devices EXCEPT ![c][k] = SubSeq(list, 1, i - 1) \o SubSeq(list, i + 1, Len(list))]
    BY <1>3 DEF RemoveDevice, TypeOK, DeviceTable, Table
  <2>2. list \in Seq(Address \cup {Garbage}) /\ Len(list) \in Nat /\ Len(list) <= Limit[k]
    BY <1>1
  <2> DEFINE left == SubSeq(list, 1, i - 1)
             right == SubSeq(list, i + 1, Len(list))
  <2>3. left \in Seq(Address \cup {Garbage}) /\ Len(left) = i - 1
    BY <2>2, SubSeqProperties
  <2>4. right \in Seq(Address \cup {Garbage}) /\ Len(right) = Len(list) - i
    BY <2>2, SubSeqProperties
  <2>5. left \o right \in Seq(Address \cup {Garbage}) /\ Len(left \o right) <= Limit[k]
    <3> HIDE DEF left, right
    <3>1. /\ left \o right \in Seq(Address \cup {Garbage})
          /\ Len(left \o right) = Len(left) + Len(right)
      BY <2>3, <2>4, ConcatProperties
    <3>2. QED
      BY <2>2, <2>3, <2>4, <3>1, LimitType
  <2>6. QED
    BY <2>1, <2>5, TableUpdate DEF TypeOK
<1>4. ASSUME NEW c \in Channel, NEW k \in Kind, SetAddress(c, k)
      PROVE  devices' \in DeviceTable /\ FitsLimits(devices)'
  <2>1. PICK j \in 1 .. Len(devices[c][k]), ip \in Typed :
          devices' = [devices EXCEPT ![c][k] = [devices[c][k] EXCEPT ![j] = ip]]
    BY <1>4 DEF SetAddress, TypeOK, DeviceTable, Table
  <2>2. ip \in Address \cup {Garbage}
    BY ConfigurationAssumption DEF ConfigurationAssumption
  <2>3. /\ [devices[c][k] EXCEPT ![j] = ip] \in Seq(Address \cup {Garbage})
        /\ Len([devices[c][k] EXCEPT ![j] = ip]) = Len(devices[c][k])
    BY <1>1, <2>2, ExceptSeq
  <2>4. QED
    BY <1>1, <2>1, <2>3, TableUpdate DEF TypeOK
<1>5. CASE \E c \in Channel, k \in Kind : AddDevice(c, k) \/ RemoveDevice(c, k) \/ SetAddress(c, k)
  <2>1. devices' \in DeviceTable /\ FitsLimits(devices)'
    BY <1>2, <1>3, <1>4, <1>5
  <2>2. main = "gui" /\ UNCHANGED setting /\ OnlyEdits /\ NetworkEdited
    BY <1>5 DEF AddDevice, RemoveDevice, SetAddress
  <2>3. QED
    BY <2>1, <2>2, EditKeeps DEF TypeOK, NetworkEdited
<1>6. CASE SetOwn
  <2>1. PICK ip \in Typed : setting' = [setting EXCEPT !["IPADDR"] = ip]
    BY <1>6 DEF SetOwn
  <2>2. ip \in Address /\ ip \in Int
    BY ConfigurationAssumption DEF ConfigurationAssumption, Address
  <2>3. setting' \in [Setting -> Int] /\ \A t \in Setting : setting'[t] \in KeyValues(<<t, 0, 0>>)
    BY <2>1, <2>2 DEF TypeOK, KeyValues
  <2>4. main = "gui" /\ UNCHANGED devices /\ OnlyEdits /\ NetworkEdited
    BY <1>6 DEF SetOwn
  <2>5. QED
    BY <2>3, <2>4, EditKeeps DEF TypeOK, NetworkEdited, FitsLimits
<1>7. CASE SetOption
  <2>1. PICK t \in Setting \ {"IPADDR"}, v \in OptionValues : setting' = [setting EXCEPT ![t] = v]
    BY <1>7 DEF SetOption
  <2>2. v \in Int
    BY ConfigurationAssumption DEF ConfigurationAssumption
  <2>3. setting' \in [Setting -> Int] /\ \A u \in Setting : setting'[u] \in KeyValues(<<u, 0, 0>>)
    BY <2>1, <2>2 DEF TypeOK, KeyValues
  <2>4. main = "gui" /\ UNCHANGED <<devices, netChanged>> /\ OnlyEdits /\ toSave' = 1
    BY <1>7 DEF SetOption
  <2>5. QED
    BY <2>3, <2>4, EditKeeps DEF TypeOK, FitsLimits
<1>8. QED
  BY <1>5, <1>6, <1>7 DEF Edit

\* What the model holds is what its keys can hold.
LEMMA ModelValueType ==
  ASSUME TypeOK, NEW key \in KeysInUse
  PROVE  ModelValue(key) \in KeyValues(key)
<1>1. key \in Key
  BY DEF KeysInUse
<1>2. CASE \E t \in Setting : key = <<t, 0, 0>>
  BY <1>2 DEF TypeOK, ModelValue
<1>3. CASE \E k \in Kind, c \in Channel : \E j \in 0 .. Limit[k] : key = <<k, c, j>>
  <2>1. PICK k \in Kind, c \in Channel : \E j \in 0 .. Limit[k] : key = <<k, c, j>>
    BY <1>3
  <2>2. PICK j \in 0 .. Limit[k] : key = <<k, c, j>>
    BY <2>1
  <2>3. k # "IPADDR" /\ k \notin Setting
    BY DEF Kind, Setting
  <2>4. devices[c][k] \in Seq(Address \cup {Garbage}) /\ Len(devices[c][k]) <= Limit[k]
    BY DEF TypeOK, DeviceTable, Table, FitsLimits
  <2>5. CASE j = 0
    <3>1. ModelValue(key) = Len(devices[c][k]) /\ KeyValues(key) = 0 .. Limit[k]
      BY <2>2, <2>3, <2>5 DEF ModelValue, KeyValues
    <3>2. QED
      BY <2>4, <3>1, LimitType
  <2>6. CASE j # 0
    <3>1. ModelValue(key) = devices[c][k][j] /\ KeyValues(key) = Address \cup {Garbage}
      BY <2>2, <2>3, <2>6 DEF ModelValue, KeyValues
    <3>2. j \in 1 .. Len(devices[c][k])
      BY <2>2, <2>3, <2>4, <2>6, LimitType DEF KeysInUse
    <3>3. QED
      BY <2>4, <3>1, <3>2
  <2>7. QED
    BY <2>5, <2>6
<1>4. QED
  BY <1>1, <1>2, <1>3, KeyForms

\* A write puts a value of its key into the flash.
LEMMA WriteType == TypeOK /\ WriteKey => TypeOK'
<1> SUFFICES ASSUME TypeOK, WriteKey PROVE TypeOK'
  OBVIOUS
<1>0. PICK key \in unwritten : \E ok \in BOOLEAN :
        /\ unwritten' = unwritten \ {key}
        /\ nvs' = IF ok THEN [nvs EXCEPT ![key] = ModelValue(key)] ELSE nvs
        /\ lost' = IF ok THEN lost \ {key} ELSE lost \cup {key}
  BY DEF WriteKey
<1>1. PICK ok \in BOOLEAN :
        /\ unwritten' = unwritten \ {key}
        /\ nvs' = IF ok THEN [nvs EXCEPT ![key] = ModelValue(key)] ELSE nvs
        /\ lost' = IF ok THEN lost \ {key} ELSE lost \cup {key}
  BY <1>0
<1>2. key \in KeysInUse /\ key \in Key
  BY DEF WriteKey, TypeOK, KeysInUse
<1>3. ModelValue(key) \in KeyValues(key) /\ ModelValue(key) \in Int
  <2>1. key[1] \in Setting \/ key[1] \in Kind
    BY <1>2, KeyForms
  <2>2. KeyValues(key) \subseteq Int
    <3>1. Address \subseteq Int /\ Address \cup {Garbage} \subseteq Int /\ OptionValues \subseteq Int
      BY ConfigurationAssumption DEF ConfigurationAssumption, Address, Garbage
    <3>2. \A k \in Kind : 0 .. Limit[k] \subseteq Int
      BY LimitType
    <3>3. QED
      BY <2>1, <3>1, <3>2 DEF KeyValues
  <2>3. QED
    BY <1>2, <2>2, ModelValueType
<1>4. FlashOK(nvs)'
  BY <1>1, <1>2, <1>3 DEF TypeOK, FlashOK
<1>5. KeysInUse' = KeysInUse
  BY DEF WriteKey, model, KeysInUse
<1>6. unwritten' \subseteq KeysInUse' /\ lost' \subseteq Key /\ main' = "save"
  BY <1>1, <1>2, <1>5 DEF TypeOK, WriteKey
<1>7. QED
  BY <1>4, <1>6 DEF TypeOK, WriteKey, model, link, FitsLimits, FlashOK

\* Every step keeps the types.
LEMMA StepType == TypeOK /\ [Next]_vars => TypeOK'
<1> SUFFICES ASSUME TypeOK, [Next]_vars PROVE TypeOK'
  OBVIOUS
<1>1. CASE Edit
  BY <1>1, EditType
<1>2. CASE BeginSave
  <2>1. KeysInUse' = KeysInUse /\ unwritten' \subseteq KeysInUse
    BY <1>2 DEF BeginSave, model, KeysInUse
  <2>2. QED
    BY <1>2, <2>1 DEF TypeOK, BeginSave, model, link, FitsLimits, FlashOK
<1>3. CASE WriteKey
  BY <1>3, WriteType
<1>4. CASE EndSave
  BY <1>4 DEF TypeOK, EndSave, link, FitsLimits, FlashOK
<1>5. CASE RestartFromSave
  <2>1. running' \in TaskTable /\ FitsLimits(running)'
    BY <1>5, RestartType DEF RestartFromSave
  <2>2. QED
    BY <1>5, <2>1 DEF TypeOK, RestartFromSave, FitsLimits, FlashOK
<1>6. CASE GotIp \/ LinkDown
  <2>1. UNCHANGED model
    BY <1>6 DEF GotIp, LinkDown
  <2>2. QED
    BY <1>6, <2>1, SameKeys DEF TypeOK, GotIp, LinkDown, model, FitsLimits, FlashOK
<1>7. CASE Callback
  <2>1. running' \in TaskTable /\ FitsLimits(running)'
    BY <1>7, NoDevicesType DEF Callback, TypeOK, FitsLimits
  <2>2. QED
    BY <1>7, <2>1, SameKeys DEF TypeOK, Callback, model, FitsLimits, FlashOK
<1>8. CASE TakeRestart
  <2>1. running' \in TaskTable /\ FitsLimits(running)'
    BY <1>8, RestartType DEF TakeRestart
  <2>2. QED
    BY <1>8, <2>1, SameKeys DEF TypeOK, TakeRestart, model, FitsLimits, FlashOK
<1>9. CASE Reboot
  BY <1>9, BootType DEF Reboot
<1>10. CASE UNCHANGED vars
  <2>1. UNCHANGED model
    BY <1>10 DEF vars, model
  <2>2. QED
    BY <1>10, <2>1, SameKeys DEF TypeOK, vars, model, link, FitsLimits, FlashOK
<1>11. QED
  BY <1>1, <1>2, <1>3, <1>4, <1>5, <1>6, <1>7, <1>8, <1>9, <1>10 DEF Next

\* Every variable keeps its type: no list outgrows its limit, and no key of the
\* flash ever holds what its reader does not expect.
THEOREM TypeCorrect == Spec => []TypeOK
<1>1. Init => TypeOK
  BY InitType
<1>2. TypeOK /\ [Next]_vars => TypeOK'
  BY StepType
<1>3. QED
  BY <1>1, <1>2, PTL DEF Spec

-----------------------------------------------------------------------------
\* A boot shows what the flash holds.
LEMMA BootLoads ==
  ASSUME TypeOK, Boot
  PROVE  \A key \in KeysInUse' : Loaded(nvs, key)' = ModelValue(key)'
<1> SUFFICES ASSUME NEW key \in KeysInUse'
             PROVE  Loaded(nvs, key) = ModelValue(key)'
  BY DEF Boot, Loaded
<1>1. key \in Key
  BY DEF KeysInUse
<1>2. CASE \E t \in Setting : key = <<t, 0, 0>>
  BY <1>2 DEF Boot, ModelValue
<1>3. CASE \E k \in Kind, c \in Channel : \E j \in 0 .. Limit[k] : key = <<k, c, j>>
  <2>1. PICK k \in Kind, c \in Channel : \E j \in 0 .. Limit[k] : key = <<k, c, j>>
    BY <1>3
  <2>2. PICK j \in 0 .. Limit[k] : key = <<k, c, j>>
    BY <2>1
  <2>3. k \notin Setting /\ j \in Nat
    BY LimitType DEF Kind, Setting
  <2>4. devices'[c][k] = LoadedChannel(nvs, c)[k]
    BY DEF Boot
  <2>5. FlashOK(nvs)
    BY DEF TypeOK
  <2> DEFINE n == Loaded(nvs, <<k, c, 0>>)
  <2>6. Len(devices'[c][k]) = n /\ \A i \in 1 .. n : devices'[c][k][i] = Loaded(nvs, <<k, c, i>>)
    BY <2>4, <2>5, LoadedChannelType
  <2>7. n \in Nat
    BY <2>5, LoadedChannelType, LimitType
  <2>8. CASE j = 0
    BY <2>2, <2>3, <2>6, <2>8 DEF ModelValue
  <2>9. CASE j # 0
    <3>1. j <= Len(devices'[c][k])
      BY <2>2, <2>3 DEF KeysInUse
    <3>2. j \in 1 .. n
      BY <2>3, <2>6, <2>7, <2>9, <3>1
    <3>3. QED
      BY <2>2, <2>3, <2>6, <2>9, <3>2 DEF ModelValue
  <2>10. QED
    BY <2>8, <2>9
<1>4. QED
  BY <1>1, <1>2, <1>3, KeyForms

\* The factory configuration needs no flash.
LEMMA InitSave == Init => SaveInv
<1> SUFFICES ASSUME Init PROVE SaveInv
  OBVIOUS
<1>1. ASSUME NEW key \in KeysInUse
      PROVE  Loaded(nvs, key) = ModelValue(key)
  <2>1. key \in Key
    BY DEF KeysInUse
  <2>2. Loaded(nvs, key) = Default(key)
    BY <2>1 DEF Init, Loaded
  <2>3. CASE \E t \in Setting : key = <<t, 0, 0>>
    BY <2>2, <2>3 DEF Init, ModelValue
  <2>4. CASE \E k \in Kind, c \in Channel : \E j \in 0 .. Limit[k] : key = <<k, c, j>>
    <3>1. PICK k \in Kind, c \in Channel : \E j \in 0 .. Limit[k] : key = <<k, c, j>>
      BY <2>4
    <3>2. PICK j \in 0 .. Limit[k] : key = <<k, c, j>>
      BY <3>1
    <3>3. k \notin Setting /\ k # "IPADDR" /\ Len(devices[c][k]) = 0
      BY EmptySeq DEF Kind, Setting, Init, NoDevices
    <3>4. j = 0
      BY <3>2, <3>3, LimitType DEF KeysInUse
    <3>5. QED
      BY <2>2, <3>2, <3>3, <3>4 DEF ModelValue, Default
  <2>5. QED
    BY <2>1, <2>3, <2>4, KeyForms
<1>2. unwritten = {}
  BY DEF Init
<1>3. QED
  BY <1>1, <1>2 DEF SaveInv

\* A write leaves one key fewer to bring up to date.
LEMMA WriteSave == TypeOK /\ SaveInv /\ WriteKey => SaveInv'
<1> SUFFICES ASSUME TypeOK, SaveInv, WriteKey PROVE SaveInv'
  OBVIOUS
<1>0. PICK key \in unwritten : \E ok \in BOOLEAN :
        /\ unwritten' = unwritten \ {key}
        /\ nvs' = IF ok THEN [nvs EXCEPT ![key] = ModelValue(key)] ELSE nvs
        /\ lost' = IF ok THEN lost \ {key} ELSE lost \cup {key}
  BY DEF WriteKey
<1>1. PICK ok \in BOOLEAN :
        /\ unwritten' = unwritten \ {key}
        /\ nvs' = IF ok THEN [nvs EXCEPT ![key] = ModelValue(key)] ELSE nvs
        /\ lost' = IF ok THEN lost \ {key} ELSE lost \cup {key}
  BY <1>0
<1>2. KeysInUse' = KeysInUse /\ \A other : ModelValue(other)' = ModelValue(other)
  BY SameKeys DEF WriteKey
<1>3. key \in KeysInUse /\ key \in Key /\ main = "save" /\ toSave' = toSave /\ toSave # 0
  BY DEF WriteKey, TypeOK, KeysInUse, SaveInv, model
<1>4. ModelValue(key) # Absent
  <2>1. Absent \notin KeyValues(key)
    <3>1. key[1] \in Setting \/ key[1] \in Kind
      BY <1>3, KeyForms
    <3>2. Absent \notin Address \cup {Garbage} /\ Absent \notin OptionValues
      BY ConfigurationAssumption DEF ConfigurationAssumption, Address, Garbage, Absent
    <3>3. \A k \in Kind : Absent \notin 0 .. Limit[k]
      BY LimitType DEF Absent
    <3>4. QED
      BY <3>1, <3>2, <3>3 DEF KeyValues
  <2>2. QED
    BY <1>3, <2>1, ModelValueType
<1>5. ASSUME NEW other \in KeysInUse \ (lost' \cup unwritten')
      PROVE  Loaded(nvs', other) = ModelValue(other)
  <2>1. CASE other = key
    <3>1. ok = TRUE
      BY <1>1, <1>5, <2>1
    <3>2. nvs'[key] = ModelValue(key)
      BY <1>1, <1>3, <3>1 DEF TypeOK, FlashOK
    <3>3. QED
      BY <1>4, <2>1, <3>2 DEF Loaded
  <2>2. CASE other # key
    <3>1. other \in KeysInUse \ (lost \cup unwritten)
      BY <1>1, <1>5, <2>2
    <3>2. nvs'[other] = nvs[other]
      BY <1>1, <1>3, <2>2 DEF TypeOK, FlashOK
    <3>3. QED
      BY <1>3, <3>1, <3>2 DEF SaveInv, Loaded
  <2>3. QED
    BY <2>1, <2>2
<1>6. QED
  BY <1>2, <1>3, <1>5 DEF SaveInv, Loaded

\* Every step keeps the flash up to date with what has been saved.
LEMMA StepSave == TypeOK /\ SaveInv /\ [Next]_vars => SaveInv'
<1> SUFFICES ASSUME TypeOK, SaveInv, [Next]_vars PROVE SaveInv'
  OBVIOUS
<1>1. CASE Edit
  BY <1>1 DEF Edit, AddDevice, RemoveDevice, SetAddress, SetOwn, SetOption, NetworkEdited,
              OnlyEdits, SaveInv
<1>2. CASE BeginSave
  <2>1. KeysInUse' = KeysInUse /\ \A key : ModelValue(key)' = ModelValue(key)
    BY <1>2, SameKeys DEF BeginSave
  <2>2. /\ UNCHANGED <<toSave, nvs>> /\ unwritten' = IF toSave = 1 THEN KeysInUse ELSE {}
        /\ toSave = 0 => lost' = lost
    BY <1>2 DEF BeginSave, model
  <2>3. CASE toSave = 1
    BY <2>1, <2>2, <2>3 DEF SaveInv
  <2>4. CASE toSave = 0
    BY <2>1, <2>2, <2>4 DEF SaveInv, Loaded
  <2>5. QED
    BY <2>3, <2>4 DEF TypeOK
<1>3. CASE WriteKey
  BY <1>3, WriteSave
<1>4. CASE EndSave \/ RestartFromSave
  <2>1. UNCHANGED <<setting, devices, nvs, lost>> /\ unwritten = {} /\ unwritten' = {}
    BY <1>4 DEF EndSave, RestartFromSave, TypeOK
  <2>2. KeysInUse' = KeysInUse /\ \A key : ModelValue(key)' = ModelValue(key)
    BY <2>1 DEF KeysInUse, ModelValue
  <2>3. main = "save" \/ toSave' = toSave
    BY <1>4 DEF EndSave, RestartFromSave
  <2>4. main' # "save"
    BY <1>4 DEF EndSave, RestartFromSave
  <2>5. QED
    BY <2>1, <2>2, <2>3, <2>4 DEF SaveInv, Loaded
<1>5. CASE GotIp \/ LinkDown \/ Callback \/ TakeRestart \/ UNCHANGED vars
  <2>1. UNCHANGED <<model, main, unwritten, nvs, lost>>
    BY <1>5 DEF GotIp, LinkDown, Callback, TakeRestart, vars, model
  <2>2. KeysInUse' = KeysInUse /\ \A key : ModelValue(key)' = ModelValue(key)
    BY <2>1, SameKeys
  <2>3. QED
    BY <2>1, <2>2 DEF SaveInv, Loaded, model
<1>6. CASE Reboot
  <2>1. Boot
    BY <1>6 DEF Reboot
  <2>2. QED
    BY <2>1, BootLoads DEF Boot, SaveInv
<1>7. QED
  BY <1>1, <1>2, <1>3, <1>4, <1>5, <1>6 DEF Next

\* With nothing to save, a boot brings back the model, except for the keys that the
\* last save failed to write; edits, torn saves, power cuts and failed assertions included.
THEOREM StoredCorrect == Spec => []StoredWhenSaved
<1>1. TypeOK /\ SaveInv => StoredWhenSaved
  BY DEF SaveInv, StoredWhenSaved
<1>2. Init => TypeOK /\ SaveInv
  BY InitType, InitSave
<1>3. TypeOK /\ SaveInv /\ [Next]_vars => (TypeOK /\ SaveInv)'
  BY StepType, StepSave
<1>4. QED
  BY <1>1, <1>2, <1>3, PTL DEF Spec

\* While linked, with no callback and no restart due and the network not edited, the
\* tasks talk to the devices of the model and to no other; a device goes without a
\* task only if the restart could not create it.
THEOREM RunningCorrect == Spec => []RunningIsConfigured
<1>1. Init => RunningInv
  BY DEF Init, RunningInv, RunningIsConfigured
<1>2. TypeOK /\ RunningInv /\ [Next]_vars => RunningInv'
  <2> SUFFICES ASSUME TypeOK, RunningInv, [Next]_vars
               PROVE  RunningInv'
    OBVIOUS
  <2> USE DEF RunningInv, RunningIsConfigured
  <2>1. CASE Edit
    BY <2>1 DEF Edit, AddDevice, RemoveDevice, SetAddress, SetOwn, SetOption, NetworkEdited,
                OnlyEdits, link, TalksTo
  <2>2. CASE EndSave
    BY <2>2 DEF EndSave, link, TypeOK, TalksTo
  <2>3. CASE BeginSave \/ WriteKey \/ UNCHANGED vars
    BY <2>3 DEF BeginSave, WriteKey, vars, model, link, TalksTo
  <2>4. CASE GotIp \/ LinkDown
    BY <2>4 DEF GotIp, LinkDown, model, TypeOK
  <2>5. CASE Callback
    BY <2>5 DEF Callback, model, TypeOK, TalksTo
  <2>6. CASE RestartFromSave \/ TakeRestart
    <3>1. Restarted /\ UNCHANGED <<devices, linked, handler>>
      BY <2>6 DEF RestartFromSave, TakeRestart, model
    <3>2. QED
      BY <3>1, RestartType
  <2>7. CASE Reboot
    BY <2>7 DEF Reboot, Boot
  <2>8. QED
    BY <2>1, <2>2, <2>3, <2>4, <2>5, <2>6, <2>7 DEF Next
<1>3. RunningInv => RunningIsConfigured
  BY DEF RunningInv
<1>4. QED
  BY <1>1, <1>2, <1>3, TypeCorrect, PTL DEF Spec

-----------------------------------------------------------------------------
(* A save goes through the channels one after the other.                   *)

\* The keys of a channel lie together in the order of the writes.
LEMMA PositionInChannel ==
  ASSUME NEW k \in Kind, NEW c \in Channel, NEW j \in 0 .. Limit[k]
  PROVE  LET size  == 2 + MaxMasters + MaxMinions
             first == 3 + (c - 1) * size
         IN Position(<<k, c, j>>) \in first .. first + size - 1
<1> DEFINE size == 2 + MaxMasters + MaxMinions
           place == IF j = 0 THEN IF k = "master" THEN 0 ELSE 1
                    ELSE IF k = "master" THEN 1 + j ELSE 1 + MaxMasters + j
<1>1. MaxMasters \in Nat /\ MaxMinions \in Nat /\ c \in Nat /\ c >= 1
  BY ConfigurationAssumption DEF ConfigurationAssumption, Channel
<1>2. place \in 0 .. size - 1
  BY <1>1 DEF Limit, Kind
<1>3. Position(<<k, c, j>>) = 3 + (c - 1) * size + place
  BY KindsApart DEF Position
<1>4. (c - 1) * size \in Int /\ size \in Int
  BY <1>1
<1> HIDE DEF size, place
<1>5. Position(<<k, c, j>>) \in 3 + (c - 1) * size .. 3 + (c - 1) * size + size - 1
  BY <1>2, <1>3, <1>4
<1>6. QED
  BY <1>5 DEF size

\* A channel comes before those with a higher number.
LEMMA ChannelsInOrder ==
  ASSUME NEW k \in Kind, NEW c \in Channel, NEW i \in 0 .. Limit[k],
         NEW l \in Kind, NEW d \in Channel, NEW j \in 0 .. Limit[l], c < d
  PROVE  Position(<<k, c, i>>) < Position(<<l, d, j>>)
<1> DEFINE size == 2 + MaxMasters + MaxMinions
           low == (c - 1) * size
           high == (d - 1) * size
<1>1. size \in Nat /\ c \in Int /\ d \in Int
  BY ConfigurationAssumption DEF ConfigurationAssumption, Channel
<1>2. high - low = (d - c) * size /\ low \in Int /\ high \in Int
  BY <1>1
<1>3. (d - c) * size >= size
  <2>1. PICK more \in Nat : d - c = 1 + more
    <3>1. d - c - 1 \in Nat
      BY <1>1
    <3>2. QED
      BY <1>1, <3>1
  <2>2. (1 + more) * size = size + more * size /\ more * size \in Nat
    BY <1>1
  <2>3. QED
    BY <1>1, <2>1, <2>2
<1>4. Position(<<k, c, i>>) \in 3 + low .. 3 + low + size - 1
  BY PositionInChannel
<1>5. Position(<<l, d, j>>) \in 3 + high .. 3 + high + size - 1
  BY PositionInChannel
<1> HIDE DEF size, low, high
<1>6. QED
  BY <1>1, <1>2, <1>3, <1>4, <1>5

\* What a save has written lies before what it has not, and nothing else has changed.
OrderInv ==
  main = "save" =>
    /\ \A written \in KeysInUse \ unwritten, key \in unwritten :
         Position(written) <= Position(key)
    /\ \A key \in Key \ (KeysInUse \ unwritten) : nvs[key] = before[key]

LEMMA StepOrder == TypeOK /\ OrderInv /\ [Next]_vars => OrderInv'
<1> SUFFICES ASSUME TypeOK, OrderInv, [Next]_vars, main' = "save" PROVE OrderInv'
  BY DEF OrderInv
<1>1. CASE BeginSave
  <2>1. KeysInUse' = KeysInUse /\ nvs' = nvs /\ before' = nvs
    BY <1>1, SameKeys DEF BeginSave
  <2>2. KeysInUse \ unwritten' = {} \/ unwritten' = {}
    BY <1>1 DEF BeginSave
  <2>3. QED
    BY <2>1, <2>2 DEF OrderInv
<1>2. CASE WriteKey
  <2>1. KeysInUse' = KeysInUse /\ before' = before /\ main = "save"
    BY <1>2, SameKeys DEF WriteKey
  <2>2. PICK key \in unwritten :
          /\ \A other \in unwritten : Position(key) <= Position(other)
          /\ unwritten' = unwritten \ {key}
          /\ \/ nvs' = [nvs EXCEPT ![key] = ModelValue(key)]
             \/ nvs' = nvs
    BY <1>2 DEF WriteKey
  <2>3. key \in KeysInUse
    BY <2>1 DEF TypeOK
  <2>4. ASSUME NEW written \in KeysInUse \ unwritten', NEW other \in unwritten'
        PROVE  Position(written) <= Position(other)
    BY <2>1, <2>2, <2>4 DEF OrderInv
  <2>5. ASSUME NEW other \in Key \ (KeysInUse \ unwritten')
        PROVE  nvs'[other] = before[other]
    <3>1. other # key /\ other \in Key \ (KeysInUse \ unwritten)
      BY <2>2, <2>3
    <3>2. nvs'[other] = nvs[other]
      BY <2>2, <3>1 DEF TypeOK, FlashOK
    <3>3. QED
      BY <2>1, <3>1, <3>2 DEF OrderInv
  <2>6. QED
    BY <2>1, <2>4, <2>5 DEF OrderInv
<1>3. CASE GotIp \/ LinkDown \/ Callback \/ TakeRestart \/ UNCHANGED vars
  <2>1. UNCHANGED <<model, main, unwritten, nvs, before>>
    BY <1>3 DEF GotIp, LinkDown, Callback, TakeRestart, vars, model
  <2>2. KeysInUse' = KeysInUse
    BY <2>1, SameKeys
  <2>3. QED
    BY <2>1, <2>2 DEF OrderInv
<1>4. CASE Edit
  BY <1>4 DEF Edit, AddDevice, RemoveDevice, SetAddress, SetOwn, SetOption, OnlyEdits
<1>5. CASE EndSave \/ RestartFromSave
  BY <1>5 DEF EndSave, RestartFromSave
<1>6. CASE Reboot
  BY <1>6 DEF Reboot, Boot
<1>7. QED
  BY <1>1, <1>2, <1>3, <1>4, <1>5, <1>6 DEF Next

\* A channel whose keys hold a table comes back as in the table.
LEMMA LoadsTable ==
  ASSUME NEW flash, NEW table \in DeviceTable, NEW c \in Channel,
         \A k \in Kind : \A j \in 0 .. Len(table[c][k]) :
           Loaded(flash, <<k, c, j>>) = IF j = 0 THEN Len(table[c][k]) ELSE table[c][k][j]
  PROVE  LoadedChannel(flash, c) = table[c]
<1>1. ASSUME NEW k \in Kind
      PROVE  [j \in 1 .. Loaded(flash, <<k, c, 0>>) |-> Loaded(flash, <<k, c, j>>)] = table[c][k]
  <2>1. table[c][k] \in Seq(Address \cup {Garbage}) /\ Len(table[c][k]) \in Nat
    BY LenProperties DEF DeviceTable, Table
  <2>2. Loaded(flash, <<k, c, 0>>) = Len(table[c][k])
    BY <2>1
  <2>3. \A j \in 1 .. Len(table[c][k]) : Loaded(flash, <<k, c, j>>) = table[c][k][j]
    BY <2>1
  <2>4. table[c][k] = [j \in 1 .. Len(table[c][k]) |-> table[c][k][j]]
    BY <2>1, LenProperties
  <2>5. QED
    BY <2>2, <2>3, <2>4
<1>2. table[c] = [k \in Kind |-> table[c][k]]
  BY DEF DeviceTable, Table
<1>3. QED
  BY <1>1, <1>2 DEF LoadedChannel

\* A channel comes back the same from two flashes that agree on its keys.
LEMMA SameChannel ==
  ASSUME NEW flash, FlashOK(flash), NEW other, NEW c \in Channel,
         \A k \in Kind : \A j \in 0 .. Limit[k] : flash[<<k, c, j>>] = other[<<k, c, j>>]
  PROVE  LoadedChannel(flash, c) = LoadedChannel(other, c)
<1>1. \A k \in Kind : \A j \in 0 .. Limit[k] :
        Loaded(flash, <<k, c, j>>) = Loaded(other, <<k, c, j>>)
  BY DEF Loaded
<1>2. ASSUME NEW k \in Kind
      PROVE  /\ Loaded(flash, <<k, c, 0>>) = Loaded(other, <<k, c, 0>>)
             /\ \A j \in 1 .. Loaded(flash, <<k, c, 0>>) :
                  Loaded(flash, <<k, c, j>>) = Loaded(other, <<k, c, j>>)
  <2>1. Loaded(flash, <<k, c, 0>>) \in 0 .. Limit[k] /\ Limit[k] \in Nat
    BY LoadedChannelType, LimitType
  <2>2. QED
    BY <1>1, <2>1
<1>3. QED
  BY <1>2 DEF LoadedChannel

\* A number and the addresses it counts are keys in use.
LEMMA ChannelKeys ==
  ASSUME TypeOK, NEW c \in Channel, NEW k \in Kind, NEW j \in 0 .. Len(devices[c][k])
  PROVE  /\ <<k, c, j>> \in KeysInUse
         /\ ModelValue(<<k, c, j>>) = IF j = 0 THEN Len(devices[c][k]) ELSE devices[c][k][j]
<1>1. Limit[k] \in Nat /\ k \notin Setting /\ Len(devices[c][k]) \in Nat
      /\ Len(devices[c][k]) <= Limit[k]
  BY LimitType, KindsApart, LenProperties DEF TypeOK, DeviceTable, Table, FitsLimits
<1>2. <<k, c, j>> \in Key
  BY <1>1, KeyForms
<1>3. QED
  BY <1>1, <1>2 DEF KeysInUse, ModelValue

\* A channel whose keys are all written comes back as the model has it.
LEMMA WrittenChannel ==
  ASSUME TypeOK, SaveInv, main = "save", lost = {}, NEW c \in Channel,
         \A key \in KeysInUse : key[2] = c /\ key[1] \in Kind => key \notin unwritten
  PROVE  LoadedChannel(nvs, c) = devices[c]
<1>1. ASSUME NEW k \in Kind, NEW j \in 0 .. Len(devices[c][k])
      PROVE  Loaded(nvs, <<k, c, j>>) = IF j = 0 THEN Len(devices[c][k]) ELSE devices[c][k][j]
  <2>1. <<k, c, j>> \in KeysInUse
    BY ChannelKeys
  <2>2. Loaded(nvs, <<k, c, j>>) = ModelValue(<<k, c, j>>)
    BY <2>1 DEF SaveInv
  <2>3. QED
    BY <2>2, ChannelKeys
<1>2. QED
  BY <1>1, LoadsTable DEF TypeOK

\* A channel with no key written comes back as it was before the save.
LEMMA UntouchedChannel ==
  ASSUME TypeOK, OrderInv, main = "save", NEW c \in Channel,
         \A key \in KeysInUse : key[2] = c /\ key[1] \in Kind => key \in unwritten
  PROVE  LoadedChannel(nvs, c) = LoadedChannel(before, c)
<1>1. ASSUME NEW k \in Kind, NEW j \in 0 .. Limit[k]
      PROVE  nvs[<<k, c, j>>] = before[<<k, c, j>>]
  <2>1. <<k, c, j>> \in Key
    BY KeyForms
  <2>2. QED
    BY <2>1 DEF OrderInv
<1>2. QED
  BY <1>1, SameChannel DEF TypeOK

\* During a save one channel at most, that of the key to be written next, is a
\* mixture; the others are written or untouched.
THEOREM TornCorrect == Spec => []AtMostOneTorn
<1>1. ASSUME TypeOK, SaveInv, OrderInv PROVE AtMostOneTorn
  <2> SUFFICES ASSUME main = "save", lost = {}
               PROVE  \E torn \in Channel : \A c \in Channel \ {torn} :
                        LoadedChannel(nvs, c) \in {LoadedChannel(before, c), devices[c]}
    BY DEF AtMostOneTorn
  <2> DEFINE Mixed(c) == /\ \E key \in KeysInUse \ unwritten : key[2] = c /\ key[1] \in Kind
                         /\ \E key \in unwritten : key[2] = c /\ key[1] \in Kind
  <2>1. ASSUME NEW c \in Channel, ~ Mixed(c)
        PROVE  LoadedChannel(nvs, c) \in {LoadedChannel(before, c), devices[c]}
    <3>0. unwritten \subseteq KeysInUse
      BY <1>1 DEF TypeOK
    <3>1. CASE \A key \in KeysInUse : key[2] = c /\ key[1] \in Kind => key \notin unwritten
      BY <1>1, <3>1, WrittenChannel
    <3>2. CASE \A key \in KeysInUse : key[2] = c /\ key[1] \in Kind => key \in unwritten
      BY <1>1, <3>2, UntouchedChannel
    <3>3. QED
      BY <2>1, <3>0, <3>1, <3>2
  <2>2. ASSUME NEW c \in Channel, NEW d \in Channel, c < d, Mixed(c), Mixed(d)
        PROVE  FALSE
    <3>1. PICK late \in unwritten : late[2] = c /\ late[1] \in Kind
      BY <2>2
    <3>2. PICK early \in KeysInUse \ unwritten : early[2] = d /\ early[1] \in Kind
      BY <2>2
    <3>3. late \in Key /\ early \in Key
      BY <1>1 DEF TypeOK, KeysInUse
    <3>4. PICK k \in Kind : \E i \in 0 .. Limit[k] : late = <<k, c, i>>
      BY <3>1, <3>3, KeyForms, KindsApart
    <3>5. PICK l \in Kind : \E j \in 0 .. Limit[l] : early = <<l, d, j>>
      BY <3>2, <3>3, KeyForms, KindsApart
    <3>6. Position(late) < Position(early)
      BY <2>2, <3>4, <3>5, ChannelsInOrder
    <3>7. Position(early) <= Position(late)
      BY <1>1 DEF OrderInv
    <3>8. Position(early) \in Int /\ Position(late) \in Int
      BY <3>4, <3>5, PositionInChannel, ConfigurationAssumption
         DEF ConfigurationAssumption, Channel
    <3>9. QED
      BY <3>6, <3>7, <3>8
  <2> HIDE DEF Mixed
  <2>3. \A c, d \in Channel : Mixed(c) /\ Mixed(d) => c = d
    BY <2>2 DEF Channel
  <2>4. CASE \E c \in Channel : Mixed(c)
    BY <2>1, <2>3, <2>4
  <2>5. CASE \A c \in Channel : ~ Mixed(c)
    <3>1. 1 \in Channel
      BY ConfigurationAssumption DEF ConfigurationAssumption, Channel
    <3>2. QED
      BY <2>1, <2>5, <3>1
  <2>6. QED
    BY <2>4, <2>5
<1>2. Init => TypeOK /\ SaveInv /\ OrderInv
  BY InitType, InitSave DEF Init, OrderInv
<1>3. TypeOK /\ SaveInv /\ OrderInv /\ [Next]_vars => (TypeOK /\ SaveInv /\ OrderInv)'
  BY StepType, StepSave, StepOrder
<1>4. QED
  BY <1>1, <1>2, <1>3, PTL DEF Spec

-----------------------------------------------------------------------------
(* The keys implement the store of settings.                               *)

\* A part is an option or a channel.
LEMMA PartForms ==
  /\ \A p : p \in Part <=> \/ \E s \in Setting : p = <<s, 0>>
                          \/ \E c \in Channel : p = <<"CHANNEL", c>>
  /\ \A s \in Setting : PartOf(<<s, 0, 0>>) = <<s, 0>>
  /\ \A k \in Kind, c \in Channel : \A j : PartOf(<<k, c, j>>) = <<"CHANNEL", c>>
  /\ \A s \in Setting, c \in Channel : <<s, 0>> # <<"CHANNEL", c>>
  /\ \A c \in Channel : c # 0
<1>1. \A s \in Setting : s # "CHANNEL"
  BY DEF Setting
<1>2. \A c \in Channel : c # 0
  BY ConfigurationAssumption DEF ConfigurationAssumption, Channel
<1>3. QED
  BY <1>1, <1>2, KindsApart DEF Part, PartOf

\* An option is one key.
LEMMA OptionKey ==
  ASSUME NEW key \in Key, NEW s \in Setting, PartOf(key) = <<s, 0>>
  PROVE  key = <<s, 0, 0>>
<1>1. ASSUME NEW t \in Setting, key = <<t, 0, 0>>
      PROVE  key = <<s, 0, 0>>
  <2>1. <<t, 0>> = <<s, 0>>
    BY <1>1, PartForms
  <2>2. QED
    BY <1>1, <2>1
<1>2. ASSUME NEW k \in Kind, NEW c \in Channel, NEW j \in 0 .. Limit[k], key = <<k, c, j>>
      PROVE  FALSE
  BY <1>2, PartForms
<1>3. QED
  BY <1>1, <1>2, KeyForms

\* What the model and the flash hold of an option and of a channel.
LEMMA PartValues ==
  /\ Shown = [p \in Part |-> Shown[p]] /\ Kept = [p \in Part |-> Kept[p]]
  /\ \A s \in Setting : /\ Shown[<<s, 0>>] = setting[s]
                        /\ Kept[<<s, 0>>] = Loaded(nvs, <<s, 0, 0>>)
  /\ \A c \in Channel : /\ Shown[<<"CHANNEL", c>>] = devices[c]
                        /\ Kept[<<"CHANNEL", c>>] = LoadedChannel(nvs, c)
<1>1. ASSUME NEW s \in Setting
      PROVE  <<s, 0>> \in Part /\ <<s, 0>>[1] = s /\ <<s, 0>>[2] = 0
  BY PartForms
<1>2. ASSUME NEW c \in Channel
      PROVE  /\ <<"CHANNEL", c>> \in Part
             /\ <<"CHANNEL", c>>[2] = c /\ <<"CHANNEL", c>>[2] # 0
  BY PartForms
<1>3. QED
  BY <1>1, <1>2 DEF Shown, Kept

\* Every key belongs to a part, and the keys in use to all the parts.
LEMMA PartsOfKeys ==
  /\ \A key \in Key : PartOf(key) \in Part
  /\ TypeOK => {PartOf(key) : key \in KeysInUse} = Part
<1>1. ASSUME NEW key \in Key
      PROVE  PartOf(key) \in Part
  BY KeyForms, PartForms
<1>2. ASSUME TypeOK, NEW p \in Part
      PROVE  \E key \in KeysInUse : PartOf(key) = p
  <2>1. ASSUME NEW s \in Setting, p = <<s, 0>>
        PROVE  \E key \in KeysInUse : PartOf(key) = p
    <3>1. <<s, 0, 0>> \in KeysInUse
      BY KeyForms DEF KeysInUse
    <3>2. QED
      BY <2>1, <3>1, PartForms
  <2>2. ASSUME NEW c \in Channel, p = <<"CHANNEL", c>>
        PROVE  \E key \in KeysInUse : PartOf(key) = p
    <3>1. "master" \in Kind
      BY DEF Kind
    <3>2. 0 \in 0 .. Len(devices[c]["master"])
      BY <1>2, <3>1, LenProperties DEF TypeOK, DeviceTable, Table
    <3>3. <<"master", c, 0>> \in KeysInUse
      BY <1>2, <3>1, <3>2, ChannelKeys
    <3>4. QED
      BY <2>2, <3>1, <3>3, PartForms
  <2>3. QED
    BY <2>1, <2>2, PartForms
<1>3. QED
  BY <1>1, <1>2 DEF KeysInUse

\* The steps of the store, in terms of the keys.
LEMMA IsEdit ==
  ASSUME main # "save", main' # "save", toSave' = 1, UNCHANGED <<Kept, Due, Torn>>
  PROVE  Store!Next
<1>1. Store!Edit
  BY DEF Store!Edit
<1>2. QED
  BY <1>1, Zenon DEF Store!Next

LEMMA IsBegin ==
  ASSUME main # "save", main' = "save", Due' = IF toSave = 1 THEN Part ELSE {},
         UNCHANGED <<toSave, Torn, Kept, Shown>>
  PROVE  Store!Next
<1>1. Store!Begin
  BY DEF Store!Begin
<1>2. QED
  BY <1>1, Zenon DEF Store!Next

LEMMA IsWrite ==
  ASSUME NEW p \in Due, Torn \subseteq {p},
         \/ Torn' = {p} /\ UNCHANGED Due
         \/ /\ Due' = Due \ {p} /\ Torn' = {}
            /\ Kept'[p] = Shown[p] \/ p \in {PartOf(key) : key \in Flaky},
         \A other \in Part \ {p} : Kept'[other] = Kept[other],
         UNCHANGED <<main, toSave, Shown>>
  PROVE  Store!Next
<1>1. Store!OnlyWrites(p)
  BY DEF Store!OnlyWrites
<1>2. (p \in Torn' /\ Store!Touch(p)) \/ (p \in Due \ Due' /\ Store!Finish(p))
  BY <1>1 DEF Store!Touch, Store!Finish
<1>3. Store!Write
  BY <1>2 DEF Store!Write
<1>4. QED
  BY <1>3, Zenon DEF Store!Next

LEMMA IsEnd ==
  ASSUME main = "save", main' # "save", Due = {}, toSave' = 0,
         UNCHANGED <<Due, Torn, Kept, Shown>>
  PROVE  Store!Next
<1>1. Store!End
  BY DEF Store!End
<1>2. QED
  BY <1>1, Zenon DEF Store!Next

LEMMA IsRestart ==
  ASSUME main' # "save", toSave' = 0, Due' = {}, Torn' = {}, Shown' = Kept, UNCHANGED Kept
  PROVE  Store!Next
<1>1. Store!Restart
  BY DEF Store!Restart
<1>2. QED
  BY <1>1, Zenon DEF Store!Next

\* A step that touches neither the model, the flash nor the save is a stutter.
LEMMA StoreStutter ==
  ASSUME UNCHANGED <<setting, devices, toSave, unwritten, nvs>>,
         main' = "save" <=> main = "save"
  PROVE  UNCHANGED Store!abstractVars
<1>1. Shown' = Shown
  BY DEF Shown
<1>2. Kept' = Kept
  BY DEF Kept, Loaded, LoadedChannel
<1>3. Due' = Due /\ Torn' = Torn
  BY DEF Due, Torn
<1>4. (toSave = 1)' = (toSave = 1) /\ (main = "save")' = (main = "save")
  OBVIOUS
<1>5. QED
  BY <1>1, <1>2, <1>3, <1>4 DEF Store!abstractVars

\* Only a write that may fail is ever lost.
LostInv == lost \subseteq Flaky

LEMMA StepLost == LostInv /\ [Next]_vars => LostInv'
<1> SUFFICES ASSUME LostInv, [Next]_vars PROVE LostInv'
  OBVIOUS
<1>1. CASE WriteKey
  <2>1. PICK key \in unwritten : \E ok \in IF key \in Flaky THEN BOOLEAN ELSE {TRUE} :
          lost' = IF ok THEN lost \ {key} ELSE lost \cup {key}
    BY <1>1 DEF WriteKey
  <2>2. QED
    BY <2>1 DEF LostInv
<1>2. CASE Reboot
  BY <1>2 DEF Reboot, Boot, LostInv
<1>3. CASE ~WriteKey /\ ~Reboot
  <2>1. lost' = lost \/ lost' = {}
    BY <1>3 DEF Next, Edit, AddDevice, RemoveDevice, SetAddress, SetOwn, SetOption, OnlyEdits,
                BeginSave, EndSave, RestartFromSave, GotIp, LinkDown, Callback, TakeRestart, vars
  <2>2. QED
    BY <2>1 DEF LostInv
<1>4. QED
  BY <1>1, <1>2, <1>3

\* The options are written before the channels, and the number of its masters before
\* the rest of a channel.
LEMMA NumberFirst ==
  /\ \A s \in Setting : Position(<<s, 0, 0>>) \in 0 .. 2
  /\ \A k \in Kind, c \in Channel : \A j \in 0 .. Limit[k] :
       <<k, c, j>> # <<"master", c, 0>> =>
         Position(<<"master", c, 0>>) < Position(<<k, c, j>>)
<1>1. ASSUME NEW s \in Setting
      PROVE  Position(<<s, 0, 0>>) \in 0 .. 2
  BY DEF Position
<1>2. ASSUME NEW k \in Kind, NEW c \in Channel, NEW j \in 0 .. Limit[k],
             <<k, c, j>> # <<"master", c, 0>>
      PROVE  Position(<<"master", c, 0>>) < Position(<<k, c, j>>)
  <2> DEFINE base == 3 + (c - 1) * (2 + MaxMasters + MaxMinions)
             place == IF j = 0 THEN IF k = "master" THEN 0 ELSE 1
                      ELSE IF k = "master" THEN 1 + j ELSE 1 + MaxMasters + j
  <2>1. Position(<<"master", c, 0>>) = base + 0 /\ Position(<<k, c, j>>) = base + place
    BY KindsApart DEF Position, Kind
  <2>2. MaxMasters \in Nat /\ MaxMinions \in Nat /\ c \in Int
    BY ConfigurationAssumption DEF ConfigurationAssumption, Channel
  <2>3. place > 0 /\ place \in Int
    BY <1>2, <2>2, LimitType DEF Kind
  <2>4. base \in Int
    BY <2>2
  <2> HIDE DEF base, place
  <2>5. QED
    BY <2>1, <2>3, <2>4
<1>3. QED
  BY <1>1, <1>2

\* The part of the key to be written next is the only one that may be torn.
LEMMA TornIsNext ==
  ASSUME TypeOK, OrderInv, main = "save", NEW key \in unwritten,
         \A other \in unwritten : Position(key) <= Position(other)
  PROVE  /\ PartOf(key) \in Due
         /\ Torn \subseteq {PartOf(key)}
         /\ \A c \in Channel : PartOf(key) = <<"CHANNEL", c>> /\ key # <<"master", c, 0>> =>
              <<"master", c, 0>> \notin unwritten
<1>1. key \in Key /\ unwritten \subseteq KeysInUse /\ KeysInUse \subseteq Key
  BY DEF TypeOK, KeysInUse
<1>2. ASSUME NEW p \in Torn, p # PartOf(key)
      PROVE  FALSE
  <2>1. PICK late \in unwritten : p = PartOf(late)
    BY DEF Torn, Due
  <2>2. p[2] # 0 /\ <<"master", p[2], 0>> \notin unwritten
    BY DEF Torn
  <2>3. late \in Key
    BY <1>1
  <2>4. PICK l \in Kind, d \in Channel : \E j \in 0 .. Limit[l] : late = <<l, d, j>>
    <3>1. ASSUME NEW s \in Setting, late = <<s, 0, 0>>
          PROVE  FALSE
      BY <2>1, <2>2, <3>1, PartForms
    <3>2. QED
      BY <2>3, <3>1, KeyForms
  <2>5. p = <<"CHANNEL", d>> /\ p[2] = d
    BY <2>1, <2>4, PartForms
  <2> DEFINE first == <<"master", d, 0>>
  <2>6. "master" \in Kind /\ 0 \in 0 .. Limit["master"]
    BY LimitType DEF Kind
  <2>7. first \in KeysInUse \ unwritten
    <3>1. 0 \in 0 .. Len(devices[d]["master"])
      BY <2>6, LenProperties DEF TypeOK, DeviceTable, Table
    <3>2. QED
      BY <2>2, <2>5, <2>6, <3>1, ChannelKeys
  <2>8. Position(first) <= Position(key) /\ Position(key) <= Position(late)
    BY <2>7 DEF OrderInv
  <2>9. CASE \E s \in Setting : key = <<s, 0, 0>>
    <3>1. Position(key) \in 0 .. 2
      BY <2>9, NumberFirst
    <3>2. Position(first) \in 3 + (d - 1) * (2 + MaxMasters + MaxMinions)
                              .. 3 + (d - 1) * (2 + MaxMasters + MaxMinions) + 1 + MaxMasters + MaxMinions
      <4>1. MaxMasters \in Nat /\ MaxMinions \in Nat /\ d \in Int
        BY ConfigurationAssumption DEF ConfigurationAssumption, Channel
      <4>2. QED
        BY <2>6, <4>1, PositionInChannel
    <3>3. (d - 1) * (2 + MaxMasters + MaxMinions) \in Nat
      <4>1. MaxMasters \in Nat /\ MaxMinions \in Nat /\ d - 1 \in Nat
        BY ConfigurationAssumption DEF ConfigurationAssumption, Channel
      <4>2. QED
        BY <4>1
    <3>4. QED
      BY <2>8, <3>1, <3>2, <3>3
  <2>10. CASE \E k \in Kind, c \in Channel : \E j \in 0 .. Limit[k] : key = <<k, c, j>>
    <3>1. PICK k \in Kind, c \in Channel : \E j \in 0 .. Limit[k] : key = <<k, c, j>>
      BY <2>10
    <3>2. c # d
      BY <1>2, <2>5, <3>1, PartForms
    <3>3. Position(key) \in Int /\ Position(first) \in Int /\ Position(late) \in Int
      BY <2>4, <2>6, <3>1, PositionInChannel, ConfigurationAssumption
         DEF ConfigurationAssumption, Channel
    <3>4. CASE c < d
      <4>1. Position(key) < Position(first)
        BY <2>6, <3>1, <3>4, ChannelsInOrder
      <4>2. QED
        BY <2>8, <3>3, <4>1
    <3>5. CASE d < c
      <4>1. Position(late) < Position(key)
        BY <2>4, <3>1, <3>5, ChannelsInOrder
      <4>2. QED
        BY <2>8, <3>3, <4>1
    <3>6. QED
      BY <3>2, <3>4, <3>5 DEF Channel
  <2>11. QED
    BY <1>1, <2>9, <2>10, KeyForms
<1>3. ASSUME NEW c \in Channel, PartOf(key) = <<"CHANNEL", c>>, key # <<"master", c, 0>>,
             <<"master", c, 0>> \in unwritten
      PROVE  FALSE
  <2>1. PICK k \in Kind, d \in Channel : \E j \in 0 .. Limit[k] : key = <<k, d, j>>
    BY <1>1, <1>3, KeyForms, PartForms
  <2>2. d = c
    BY <1>3, <2>1, PartForms
  <2>3. Position(<<"master", c, 0>>) < Position(key)
    BY <1>3, <2>1, <2>2, NumberFirst
  <2>4. Position(key) \in Int /\ Position(<<"master", c, 0>>) \in Int
    <3>1. "master" \in Kind /\ 0 \in 0 .. Limit["master"]
      BY LimitType DEF Kind
    <3>2. QED
      BY <2>1, <3>1, PositionInChannel, ConfigurationAssumption
         DEF ConfigurationAssumption, Channel
  <2>5. QED
    BY <1>3, <2>3, <2>4
<1>4. QED
  BY <1>2, <1>3 DEF Due

\* A part without a key to write and without a lost one comes back as the model has it.
LEMMA FinishedPart ==
  ASSUME TypeOK', SaveInv', LostInv', main' = "save", NEW p \in Part,
         \A key \in unwritten' : PartOf(key) # p,
         p \notin {PartOf(key) : key \in Flaky}
  PROVE  Kept'[p] = Shown'[p]
<1>1. ASSUME NEW key \in KeysInUse', PartOf(key) = p
      PROVE  Loaded(nvs', key) = ModelValue(key)'
  <2>1. key \notin lost' \cup unwritten'
    BY <1>1 DEF LostInv
  <2>2. QED
    BY <2>1 DEF SaveInv, Loaded
<1>2. ASSUME NEW s \in Setting, p = <<s, 0>>
      PROVE  Kept'[p] = Shown'[p]
  <2>1. <<s, 0, 0>> \in KeysInUse'
    BY KeyForms DEF KeysInUse
  <2>2. Loaded(nvs', <<s, 0, 0>>) = setting'[s]
    BY <1>1, <1>2, <2>1, PartForms DEF ModelValue
  <2>3. QED
    BY <1>2, <2>2 DEF Kept, Shown, Loaded
<1>3. ASSUME NEW c \in Channel, p = <<"CHANNEL", c>>
      PROVE  Kept'[p] = Shown'[p]
  <2>1. ASSUME NEW k \in Kind, NEW j \in 0 .. Len(devices'[c][k])
        PROVE  Loaded(nvs', <<k, c, j>>) = IF j = 0 THEN Len(devices'[c][k]) ELSE devices'[c][k][j]
    <3>1. /\ Limit[k] \in Nat /\ k \notin Setting /\ Len(devices'[c][k]) \in Nat
          /\ Len(devices'[c][k]) <= Limit[k]
      BY LimitType, KindsApart, LenProperties DEF TypeOK, DeviceTable, Table, FitsLimits
    <3>2. <<k, c, j>> \in Key
      BY <3>1, KeyForms
    <3>3. <<k, c, j>> \in KeysInUse'
      BY <3>1, <3>2 DEF KeysInUse
    <3>4. Loaded(nvs', <<k, c, j>>) = ModelValue(<<k, c, j>>)'
      BY <1>1, <1>3, <3>3, PartForms
    <3>5. QED
      BY <3>1, <3>4 DEF ModelValue
  <2>2. LoadedChannel(nvs', c) = devices'[c]
    BY <2>1, LoadsTable DEF TypeOK
  <2>3. Kept'[p] = LoadedChannel(nvs', c) /\ Shown'[p] = devices'[c]
    BY <1>3, PartForms DEF Kept, Shown, LoadedChannel, Loaded
  <2>4. QED
    BY <2>2, <2>3
<1>4. QED
  BY <1>2, <1>3, PartForms

\* A write changes the part of its key only.
LEMMA OthersKept ==
  ASSUME TypeOK, NEW key \in Key, \A other \in Key \ {key} : nvs'[other] = nvs[other],
         NEW p \in Part, p # PartOf(key)
  PROVE  Kept'[p] = Kept[p]
<1>1. \A other \in Key : PartOf(other) = p => nvs'[other] = nvs[other]
  OBVIOUS
<1>2. ASSUME NEW s \in Setting, p = <<s, 0>>
      PROVE  Kept'[p] = Kept[p]
  <2>1. <<s, 0, 0>> \in Key /\ PartOf(<<s, 0, 0>>) = p
    BY <1>2, KeyForms, PartForms
  <2>2. QED
    BY <1>1, <1>2, <2>1 DEF Kept, Loaded
<1>3. ASSUME NEW c \in Channel, p = <<"CHANNEL", c>>
      PROVE  Kept'[p] = Kept[p]
  <2>1. \A k \in Kind : \A j \in 0 .. Limit[k] : nvs[<<k, c, j>>] = nvs'[<<k, c, j>>]
    BY <1>1, <1>3, KeyForms, PartForms
  <2>2. LoadedChannel(nvs, c) = LoadedChannel(nvs', c)
    BY <2>1, SameChannel DEF TypeOK
  <2>3. Kept'[p] = LoadedChannel(nvs', c) /\ Kept[p] = LoadedChannel(nvs, c)
    BY <1>3, PartForms DEF Kept, LoadedChannel, Loaded
  <2>4. QED
    BY <2>2, <2>3
<1>4. QED
  BY <1>2, <1>3, PartForms

\* A write begins or goes on with a part, or finishes it.
LEMMA WriteRefines ==
  ASSUME TypeOK, TypeOK', SaveInv', LostInv', OrderInv, WriteKey
  PROVE  Store!Next
<1>1. PICK key \in unwritten :
        /\ \A other \in unwritten : Position(key) <= Position(other)
        /\ unwritten' = unwritten \ {key}
        /\ nvs' = [nvs EXCEPT ![key] = ModelValue(key)] \/ nvs' = nvs
  BY DEF WriteKey
<1>2. /\ main = "save" /\ UNCHANGED <<setting, devices, toSave, main>>
      /\ key \in Key /\ unwritten \subseteq KeysInUse /\ KeysInUse \subseteq Key
  BY DEF WriteKey, model, TypeOK, KeysInUse
<1>3. PICK p \in Part : p = PartOf(key)
  BY <1>2, PartsOfKeys
<1>4. /\ p \in Due /\ Torn \subseteq {p}
      /\ \A c \in Channel : p = <<"CHANNEL", c>> /\ key # <<"master", c, 0>> =>
           <<"master", c, 0>> \notin unwritten
  BY <1>1, <1>2, <1>3, TornIsNext
<1>5. \A other \in Part \ {p} : Kept'[other] = Kept[other]
  <2>1. \A other \in Key \ {key} : nvs'[other] = nvs[other]
    BY <1>1, <1>2 DEF TypeOK, FlashOK
  <2>2. QED
    BY <1>2, <1>3, <2>1, OthersKept
<1>6. Shown' = Shown
  BY <1>2 DEF Shown
<1>7. Due' = {PartOf(other) : other \in unwritten \ {key}}
  BY <1>1 DEF Due
<1>8. ASSUME NEW q \in Torn'
      PROVE  q \in Due' /\ q[2] # 0 /\ (q = p \/ q \in Torn)
  <2>1. q \in Due' /\ q[2] # 0 /\ <<"master", q[2], 0>> \notin unwritten'
    BY DEF Torn
  <2>2. q \in Due /\ q \in Part
    BY <1>2, <1>7, <2>1, PartsOfKeys DEF Due
  <2>3. PICK c \in Channel : q = <<"CHANNEL", c>> /\ q[2] = c
    BY <2>1, <2>2, PartForms
  <2>4. CASE <<"master", c, 0>> = key
    <3>1. "master" \in Kind
      BY DEF Kind
    <3>2. PartOf(<<"master", c, 0>>) = <<"CHANNEL", c>>
      BY <3>1, PartForms
    <3>3. QED
      BY <1>3, <2>1, <2>3, <2>4, <3>2
  <2>5. CASE <<"master", c, 0>> # key
    BY <1>1, <2>1, <2>2, <2>3, <2>5 DEF Torn
  <2>6. QED
    BY <2>4, <2>5
<1>9. CASE p \in Due'
  <2>1. Due' = Due
    BY <1>3, <1>7, <1>9 DEF Due
  <2>2. PICK other \in unwritten : other # key /\ PartOf(other) = p
    BY <1>7, <1>9
  <2>3. PICK c \in Channel : p = <<"CHANNEL", c>> /\ p[2] = c
    <3>1. other \in Key
      BY <1>2
    <3>2. ASSUME NEW s \in Setting, p = <<s, 0>>
          PROVE  FALSE
      <4>1. key = <<s, 0, 0>>
        BY <1>2, <1>3, <3>2, OptionKey
      <4>2. other = <<s, 0, 0>>
        BY <2>2, <3>1, <3>2, OptionKey
      <4>3. QED
        BY <2>2, <4>1, <4>2
    <3>3. QED
      BY <3>2, PartForms
  <2>4. <<"master", c, 0>> \notin unwritten'
    BY <1>1, <1>4, <2>3
  <2>5. p \in Torn'
    BY <1>9, <2>3, <2>4, PartForms DEF Torn
  <2>6. Torn' = {p}
    BY <1>4, <1>8, <2>5
  <2>7. QED
    BY <1>2, <1>4, <1>5, <1>6, <2>1, <2>6, IsWrite
<1>10. CASE p \notin Due'
  <2>1. Due' = Due \ {p}
    BY <1>3, <1>7, <1>10 DEF Due
  <2>2. Torn' = {}
    BY <1>4, <1>8, <1>10
  <2>3. Kept'[p] = Shown[p] \/ p \in {PartOf(other) : other \in Flaky}
    <3>1. \A other \in unwritten' : PartOf(other) # p
      BY <1>10 DEF Due
    <3>2. QED
      BY <1>2, <1>6, <3>1, FinishedPart
  <2>4. QED
    BY <1>2, <1>4, <1>5, <1>6, <2>1, <2>2, <2>3, IsWrite
<1>11. QED
  BY <1>9, <1>10

\* A boot shows what the flash holds of every part.
LEMMA BootRefines == TypeOK /\ Boot => Store!Next
<1> SUFFICES ASSUME TypeOK, Boot PROVE Store!Next
  OBVIOUS
<1>1. \A s \in Setting : setting'[s] = Loaded(nvs, <<s, 0, 0>>)
  BY DEF Boot
<1>2. \A c \in Channel : devices'[c] = LoadedChannel(nvs, c)
  BY DEF Boot
<1>3. ASSUME NEW p \in Part
      PROVE  Shown'[p] = Kept[p]
  BY <1>1, <1>2, PartForms DEF Shown, Kept
<1>4. Shown' = Kept
  BY <1>3 DEF Shown, Kept
<1>5. Kept' = Kept
  BY DEF Boot, Kept, Loaded, LoadedChannel
<1>6. Due' = {} /\ Torn' = {}
  BY DEF Boot, Due, Torn
<1>7. QED
  BY <1>4, <1>5, <1>6, IsRestart DEF Boot

\* The factory configuration is what an empty flash brings.
LEMMA StoreInit == Init => Store!Init
<1> SUFFICES ASSUME Init PROVE Store!Init
  OBVIOUS
<1>1. TypeOK
  BY InitType
<1>2. ASSUME NEW key \in Key
      PROVE  Loaded(nvs, key) = Default(key)
  BY DEF Init, Loaded
<1>3. ASSUME NEW s \in Setting
      PROVE  Kept[<<s, 0>>] = Shown[<<s, 0>>]
  <2>1. Loaded(nvs, <<s, 0, 0>>) = Default(<<s, 0, 0>>)
    BY <1>2, KeyForms
  <2>2. setting[s] = Default(<<s, 0, 0>>)
    BY DEF Init
  <2>3. QED
    BY <2>1, <2>2, PartValues
<1>4. ASSUME NEW c \in Channel
      PROVE  Kept[<<"CHANNEL", c>>] = Shown[<<"CHANNEL", c>>]
  <2>1. ASSUME NEW k \in Kind
        PROVE  Loaded(nvs, <<k, c, 0>>) = Len(devices[c][k]) /\ Len(devices[c][k]) = 0
    <3>1. devices[c][k] = <<>>
      BY DEF Init, NoDevices
    <3>2. <<k, c, 0>> \in Key /\ k # "IPADDR"
      BY LimitType, KeyForms DEF Kind
    <3>3. Loaded(nvs, <<k, c, 0>>) = 0
      BY <1>2, <3>2, KindsApart DEF Default
    <3>4. QED
      BY <3>1, <3>3, EmptySeq
  <2>2. ASSUME NEW k \in Kind, NEW j \in 0 .. Len(devices[c][k])
        PROVE  Loaded(nvs, <<k, c, j>>) = IF j = 0 THEN Len(devices[c][k]) ELSE devices[c][k][j]
    <3>1. Loaded(nvs, <<k, c, 0>>) = Len(devices[c][k]) /\ Len(devices[c][k]) = 0
      BY <2>1
    <3>2. j = 0
      BY <3>1
    <3>3. QED
      BY <3>1, <3>2
  <2>3. LoadedChannel(nvs, c) = devices[c]
    <3>1. devices \in DeviceTable
      BY <1>1 DEF TypeOK
    <3>2. QED
      BY <2>2, <3>1, LoadsTable
  <2>4. QED
    BY <2>3, PartValues
<1>5. \A p \in Part : Kept[p] = Shown[p]
  BY <1>3, <1>4, PartForms
<1>6. Kept = Shown
  BY <1>5, PartValues
<1>7. Due = {} /\ Torn = {}
  BY DEF Init, Due, Torn
<1>8. (toSave = 1) = FALSE /\ (main = "save") = FALSE
  BY DEF Init
<1>9. QED
  BY <1>6, <1>7, <1>8 DEF Store!Init

\* Every step is a step of the store or leaves it as it is.
LEMMA StoreStep ==
  ASSUME TypeOK, TypeOK', SaveInv', LostInv', OrderInv, [Next]_vars
  PROVE  [Store!Next]_(Store!abstractVars)
<1>1. CASE Edit
  <2>1. /\ main = "gui" /\ toSave' = 1
        /\ UNCHANGED <<main, unwritten, nvs>>
    BY <1>1 DEF Edit, AddDevice, RemoveDevice, SetAddress, SetOwn, SetOption, NetworkEdited, OnlyEdits
  <2>2. UNCHANGED <<Kept, Due, Torn>>
    BY <2>1 DEF Kept, Loaded, LoadedChannel, Due, Torn
  <2>3. QED
    BY <2>1, <2>2, IsEdit
<1>2. CASE BeginSave
  <2>1. /\ main = "gui" /\ main' = "save" /\ unwritten = {}
        /\ unwritten' = IF toSave = 1 THEN KeysInUse ELSE {}
        /\ UNCHANGED <<setting, devices, toSave, nvs>>
    BY <1>2 DEF BeginSave, model, TypeOK
  <2>2. Due' = IF toSave = 1 THEN Part ELSE {}
    BY <2>1, PartsOfKeys DEF Due
  <2>3. Torn = {}
    BY <2>1 DEF Torn, Due
  <2>4. ASSUME NEW p \in Torn'
        PROVE  FALSE
    <3>1. p \in Part /\ p[2] # 0 /\ toSave = 1 /\ <<"master", p[2], 0>> \notin KeysInUse
      BY <2>1, <2>2 DEF Torn
    <3>2. PICK c \in Channel : p = <<"CHANNEL", c>> /\ p[2] = c
      BY <3>1, PartForms
    <3>3. "master" \in Kind /\ 0 \in 0 .. Len(devices[c]["master"])
      BY LenProperties DEF Kind, TypeOK, DeviceTable, Table
    <3>4. QED
      BY <3>1, <3>2, <3>3, ChannelKeys
  <2>5. UNCHANGED <<Kept, Shown>>
    BY <2>1 DEF Kept, Shown, Loaded, LoadedChannel
  <2>6. QED
    BY <2>1, <2>2, <2>3, <2>4, <2>5, IsBegin
<1>3. CASE WriteKey
  BY <1>3, WriteRefines
<1>4. CASE EndSave
  <2>1. /\ main = "save" /\ main' # "save" /\ unwritten = {} /\ toSave' = 0
        /\ UNCHANGED <<setting, devices, unwritten, nvs>>
    BY <1>4 DEF EndSave
  <2>2. Due = {} /\ UNCHANGED <<Due, Torn, Kept, Shown>>
    BY <2>1 DEF Due, Torn, Kept, Shown, Loaded, LoadedChannel
  <2>3. QED
    BY <2>1, <2>2, IsEnd
<1>5. CASE RestartFromSave \/ GotIp \/ LinkDown \/ Callback \/ TakeRestart \/ UNCHANGED vars
  <2>1. /\ UNCHANGED <<setting, devices, toSave, unwritten, nvs>>
        /\ main' = "save" <=> main = "save"
    BY <1>5 DEF RestartFromSave, GotIp, LinkDown, Callback, TakeRestart, vars, model
  <2>2. QED
    BY <2>1, StoreStutter
<1>6. CASE Reboot
  BY <1>6, BootRefines DEF Reboot
<1>7. QED
  BY <1>1, <1>2, <1>3, <1>4, <1>5, <1>6 DEF Next

\* The keys of the flash, written one by one and read back by a boot that may come at
\* any moment, implement a store that replaces the options and the channels one after
\* the other and leaves one of them at most as a mixture.
THEOREM StoreImplemented == Spec => Stored
<1>1. Init => TypeOK /\ SaveInv /\ LostInv /\ OrderInv
  BY InitType, InitSave DEF Init, LostInv, OrderInv
<1>2. /\ TypeOK /\ SaveInv /\ LostInv /\ OrderInv /\ [Next]_vars
      => (TypeOK /\ SaveInv /\ LostInv /\ OrderInv)'
  BY StepType, StepSave, StepLost, StepOrder
<1>3. /\ TypeOK /\ TypeOK' /\ SaveInv' /\ LostInv' /\ OrderInv /\ [Next]_vars
      => [Store!Next]_(Store!abstractVars)
  BY StoreStep
<1>4. QED
  BY <1>1, <1>2, <1>3, StoreInit, PTL DEF Spec, Stored, Store!Spec
=============================================================================
