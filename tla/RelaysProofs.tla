---------------------------- MODULE RelaysProofs ----------------------------
(***************************************************************************)
(* What Relays guarantees for every length of the queue, and every choice  *)
(* of inputs, cables, faults and buttons: its types, and that a command,   *)
(* once given, is not undone by an older one on its way.                   *)
(***************************************************************************)
EXTENDS Relays, SequenceTheorems, TLAPS

-----------------------------------------------------------------------------
(* Types.                                                                  *)

\* management_board_set_relay makes messages the board task understands.
LEMMA SetRelayType ==
  ASSUME NEW r \in Relay, NEW value \in Bit
  PROVE  /\ SetRelay(r, value) \in Message
         /\ SetRelay(r, value).rele = r
         /\ SetRelay(r, value).level = 1 - value
  BY DEF SetRelay, Message, Relay, Bit

\* The commands of a new test are a sequence of four messages.
LEMMA TestCommands ==
  [r \in Relay |-> SetRelay(r, 0)] \in Seq(Message)
  <1>1. \A r \in Relay : SetRelay(r, 0) \in Message
    BY SetRelayType DEF Bit
  <1>2. [r \in 1 .. 4 |-> SetRelay(r, 0)] \in [1 .. 4 -> Message]
    BY <1>1 DEF Relay
  <1>3. [1 .. 4 -> Message] \subseteq Seq(Message)
    BY SeqDef
  <1> QED  BY <1>2, <1>3 DEF Relay

\* The two commands of a round of faults are messages.
LEMMA FaultCommands ==
  ASSUME NEW f \in Faults
  PROVE  /\ <<SetRelay(Antenna, f[Antenna]), SetRelay(Radio, f[Radio])>> \in Seq(Message)
         /\ f \in [{Antenna, Radio} -> Bit]
  <1>1. f \in [{Antenna, Radio} -> Bit]
    BY DEF Faults
  <1>2. f[Antenna] \in Bit /\ f[Radio] \in Bit /\ Antenna \in Relay /\ Radio \in Relay
    BY <1>1 DEF Antenna, Radio, Relay
  <1>3. SetRelay(Antenna, f[Antenna]) \in Message /\ SetRelay(Radio, f[Radio]) \in Message
    BY <1>2, SetRelayType
  <1> QED  BY <1>1, <1>3

LEMMA TypeInit == Init => TypeOK
  BY RelaysAssumption DEF Init, TypeOK, Bit, Relay, Message

\* The main loop.
LEMMA TypeMain ==
  ASSUME TypeOK, User \/ MainLoop
  PROVE  TypeOK'
  <1> USE RelaysAssumption
  <1>1. CASE SendNext
    <2>1. Head(todo) \in Message /\ Tail(todo) \in Seq(Message)
      BY <1>1 DEF SendNext, TypeOK
    <2>2. Head(todo).rele \in Relay
      BY <2>1 DEF Message
    <2>3. relayq' \in Seq(Message) /\ Len(relayq') <= RelayQueueLength
      <3>1. relayq \in Seq(Message) /\ Len(relayq) <= RelayQueueLength /\ RelayQueueLength \in Nat
        BY DEF TypeOK, RelaysAssumption
      <3>2. CASE Len(relayq) < RelayQueueLength
        <4>1. relayq' = Append(relayq, Head(todo))
          BY <1>1, <3>2 DEF SendNext
        <4> QED  BY <2>1, <3>1, <3>2, <4>1
      <3>3. CASE ~(Len(relayq) < RelayQueueLength)
        BY <1>1, <3>1, <3>3 DEF SendNext
      <3> QED  BY <3>2, <3>3
    <2>4. missed' \subseteq Relay
      BY <1>1, <2>2 DEF SendNext, TypeOK
    <2> QED  BY <1>1, <2>1, <2>3, <2>4 DEF SendNext, TypeOK, boardVars
  <1>2. CASE EnterTest
    <2>1. todo' \in Seq(Message)
      BY <1>2, TestCommands DEF EnterTest
    <2>2. asked' \in [Relay -> Bit] /\ judged' \in [{Antenna, Radio} -> Bit]
      BY <1>2 DEF EnterTest, Bit
    <2> QED  BY <1>2, <2>1, <2>2 DEF EnterTest, TypeOK, boardVars, Bit
  <1>3. CASE TestRelay
    <2>1. PICK r \in Buttons, value \in Bit :
            todo' = <<SetRelay(r, value)>> /\ asked' = [asked EXCEPT ![r] = value]
      BY <1>3 DEF TestRelay
    <2>2. SetRelay(r, value) \in Message
      BY <2>1, SetRelayType
    <2>3. todo' \in Seq(Message) /\ asked' \in [Relay -> Bit]
      BY <2>1, <2>2 DEF TypeOK
    <2> QED  BY <1>3, <2>3 DEF TestRelay, TypeOK, boardVars
  <1>4. CASE LeaveTest
    BY <1>4 DEF LeaveTest, TypeOK, boardVars, Bit
  <1>5. CASE EditCables
    BY <1>5 DEF EditCables, TypeOK, boardVars, history
  <1>6. CASE EditDevices
    BY <1>6 DEF EditDevices, TypeOK, boardVars, history
  <1>7. CASE LeaveGui
    BY <1>7 DEF LeaveGui, TypeOK, boardVars, history
  <1>8. CASE ManageCables
    <2>1. SetRelay(Cable, CableAnomaly) \in Message
      BY SetRelayType DEF Cable, CableAnomaly, Relay, Bit
    <2>2. todo' \in Seq(Message)
      BY <1>8, <2>1 DEF ManageCables
    <2>3. fault' \in Faults /\ update' \in Bit
      BY <1>8 DEF ManageCables, TypeOK, Bit
    <2>4. seenAnomaly' = 0 /\ seenCables' = cavi /\ main' = "faults"
      BY <1>8 DEF ManageCables, CableAnomaly
    <2> QED  BY <1>8, <2>2, <2>3, <2>4 DEF ManageCables, TypeOK, boardVars, history
  <1>9. CASE ManageFaults
    <2>0. fault \in Faults /\ todo \in Seq(Message) /\ judged \in [{Antenna, Radio} -> Bit]
      BY DEF TypeOK
    <2>1. todo' \in Seq(Message)
      <3> DEFINE round == <<SetRelay(Antenna, fault[Antenna]), SetRelay(Radio, fault[Radio])>>
      <3>1. todo' = todo \/ todo' = <<>> \/ todo' = round
        BY <1>9 DEF ManageFaults
      <3>2. round \in Seq(Message)
        BY <2>0, FaultCommands
      <3>3. <<>> \in Seq(Message)
        OBVIOUS
      <3> HIDE DEF round
      <3> QED  BY <2>0, <3>1, <3>2, <3>3
    <2>2. judged' \in [{Antenna, Radio} -> Bit]
      BY <1>9, <2>0, FaultCommands DEF ManageFaults
    <2> QED  BY <1>9, <2>1, <2>2 DEF ManageFaults, TypeOK, boardVars, Bit
  <1> QED  BY <1>1, <1>2, <1>3, <1>4, <1>5, <1>6, <1>7, <1>8, <1>9 DEF User, MainLoop

\* The board task and the lines.
LEMMA TypeBoard ==
  ASSUME TypeOK, BoardTask \/ LinesChange
  PROVE  TypeOK'
  <1> USE RelaysAssumption
  <1>1. CASE BoardReceive
    <2>1. relayq' \in Seq(Message) /\ Len(relayq') <= RelayQueueLength /\ pin' \in [Relay -> Bit]
      <3>1. CASE relayq = <<>>
        BY <1>1, <3>1 DEF BoardReceive, TypeOK
      <3>2. CASE relayq # <<>>
        <4>0. relayq \in Seq(Message) /\ Len(relayq) <= RelayQueueLength /\ RelayQueueLength \in Nat
               /\ pin \in [Relay -> Bit]
          BY DEF TypeOK, RelaysAssumption
        <4>1. Head(relayq) \in Message /\ Tail(relayq) \in Seq(Message)
               /\ Len(Tail(relayq)) = Len(relayq) - 1
          BY <3>2, <4>0
        <4>2. Head(relayq).level \in Bit
          BY <4>1 DEF Message
        <4>3. relayq' = Tail(relayq) /\ pin' = [pin EXCEPT ![Head(relayq).rele] = Head(relayq).level]
          BY <1>1, <3>2 DEF BoardReceive
        <4>4. pin' \in [Relay -> Bit]
          BY <4>0, <4>2, <4>3
        <4>5. relayq' \in Seq(Message) /\ Len(relayq') <= RelayQueueLength
          BY <4>0, <4>1, <4>3
        <4> QED  BY <4>4, <4>5
      <3> QED  BY <3>1, <3>2
    <2> QED  BY <1>1, <2>1 DEF BoardReceive, TypeOK, mainVars, history
  <1>2. CASE BoardSample
    BY <1>2 DEF BoardSample, TypeOK, mainVars, history
  <1>3. CASE BoardPower
    <2>1. pin' \in [Relay -> Bit] /\ lastPower' \in 0 .. 3 \cup {256}
      <3>1. pin \in [Relay -> Bit] /\ lastPower \in 0 .. 3 \cup {256} /\ input \in 0 .. 3
        BY DEF TypeOK
      <3>2. 0 \in Bit /\ 1 \in Bit
        BY DEF Bit
      <3>3. (IF input = 0 THEN 1 ELSE 0) \in Bit
        BY <3>2
      <3>4. [pin EXCEPT ![1] = IF input = 0 THEN 1 ELSE 0] \in [Relay -> Bit]
        BY <3>1, <3>3
      <3>5. pin' \in [Relay -> Bit]
        BY <1>3, <3>1, <3>4 DEF BoardPower
      <3>6. lastPower' \in 0 .. 3 \cup {256}
        BY <1>3, <3>1 DEF BoardPower
      <3> QED  BY <3>5, <3>6
    <2> QED  BY <1>3, <2>1 DEF BoardPower, TypeOK, mainVars, history
  <1>4. CASE LinesChange
    BY <1>4 DEF LinesChange, TypeOK, mainVars, boardVars, history
  <1> QED  BY <1>1, <1>2, <1>3, <1>4 DEF BoardTask

LEMMA TypeStep == TypeOK /\ [Next]_vars => TypeOK'
  <1> SUFFICES ASSUME TypeOK, [Next]_vars PROVE TypeOK'
    OBVIOUS
  <1>1. CASE UNCHANGED vars
    BY <1>1 DEF vars, mainVars, boardVars, history, TypeOK
  <1> QED  BY <1>1, TypeMain, TypeBoard DEF Next

\* The variables of the two tasks, and the queue between them, keep their
\* types; in particular the queue never outgrows its length
\* (management_board.c:94-107, 168-181, controller.c:58-139).
THEOREM TypeCorrect == Spec => []TypeOK
  BY TypeInit, TypeStep, PTL DEF Spec

-----------------------------------------------------------------------------
(* Commands on their way.                                                  *)

\* With the queue q and the pins p, relay r is going to have level v: the last
\* of its messages says so, or none is left and the pin has it.
Ends(q, p, r, v) ==
  \/ /\ p[r] = v
     /\ \A i \in 1 .. Len(q) : q[i].rele # r
  \/ \E i \in 1 .. Len(q) :
       /\ q[i].rele = r /\ q[i].level = v
       /\ \A j \in 1 .. Len(q) : j > i => q[j].rele # r

\* The relays that obey the user, or the faults last found.
Governed(r) ==
  /\ r \in Relay \ {Cable}
  /\ test = 1 \/ (r \in {Antenna, Radio} /\ afterTest = 0)

Wanted(r) == IF test = 1 THEN asked[r] ELSE judged[r]

\* What is about to be sent to a governed relay is what is wanted of it; with
\* nothing about to be sent, the queue and the pin have it.
CommandInv ==
  \A r \in Relay : Governed(r) =>
    /\ \A i \in 1 .. Len(todo) : todo[i].rele = r => todo[i].level = 1 - Wanted(r)
    /\ r \notin missed /\ (\A i \in 1 .. Len(todo) : todo[i].rele # r)
         => Ends(relayq, pin, r, 1 - Wanted(r))

\* A message sent for a relay decides its level.
LEMMA EndsAppend ==
  ASSUME NEW q \in Seq(Message), NEW msg \in Message, NEW p
  PROVE  Ends(Append(q, msg), p, msg.rele, msg.level)
  <1> DEFINE s == Append(q, msg)
  <1>1. Len(s) = Len(q) + 1 /\ Len(q) \in Nat /\ s[Len(q) + 1] = msg
    OBVIOUS
  <1>2. \A j \in 1 .. Len(s) : ~(j > Len(q) + 1)
    BY <1>1
  <1>3. Len(q) + 1 \in 1 .. Len(s)
    BY <1>1
  <1> HIDE DEF s
  <1>4. Ends(s, p, msg.rele, msg.level)
    BY <1>1, <1>2, <1>3 DEF Ends
  <1> QED  BY <1>4 DEF s

\* A message sent for another relay changes nothing.
LEMMA EndsKeep ==
  ASSUME NEW q \in Seq(Message), NEW msg \in Message, NEW p, NEW r, NEW v,
         msg.rele # r, Ends(q, p, r, v)
  PROVE  Ends(Append(q, msg), p, r, v)
  <1> DEFINE s == Append(q, msg)
  <1>1. Len(s) = Len(q) + 1 /\ Len(q) \in Nat /\ s[Len(q) + 1] = msg
    OBVIOUS
  <1>2. \A i \in 1 .. Len(q) : i \in 1 .. Len(s) /\ s[i] = q[i]
    OBVIOUS
  <1>3. \A i \in 1 .. Len(s) : i \in 1 .. Len(q) \/ i = Len(q) + 1
    BY <1>1
  <1> HIDE DEF s
  <1>4. Ends(s, p, r, v)
    BY <1>1, <1>2, <1>3 DEF Ends
  <1> QED  BY <1>4 DEF s

\* The board task takes the first message and drives its pin: the end is the same.
LEMMA EndsTail ==
  ASSUME NEW q \in Seq(Message), q # <<>>, NEW p \in [Relay -> Bit], NEW r \in Relay, NEW v,
         Ends(q, p, r, v)
  PROVE  Ends(Tail(q), [p EXCEPT ![Head(q).rele] = Head(q).level], r, v)
  <1> DEFINE s == Tail(q)
             o == [p EXCEPT ![Head(q).rele] = Head(q).level]
  <1>1. Len(s) = Len(q) - 1 /\ Len(q) \in Nat \ {0} /\ q[1] = Head(q) /\ q[1] \in Message
    OBVIOUS
  <1>2. \A i \in 1 .. Len(s) : i + 1 \in 1 .. Len(q) /\ s[i] = q[i + 1]
    BY <1>1
  <1>3. \A i \in 1 .. Len(q) : i = 1 \/ (i - 1 \in 1 .. Len(s) /\ s[i - 1] = q[i])
    BY <1>1, <1>2
  <1>4. q[1].rele \in Relay
    BY <1>1 DEF Message
  <1>5. o[r] = IF q[1].rele = r THEN q[1].level ELSE p[r]
    BY <1>1, <1>4
  <1> HIDE DEF s, o
  <1>6. Ends(s, o, r, v)
    <2>1. CASE p[r] = v /\ \A i \in 1 .. Len(q) : q[i].rele # r
      <3>1. 1 \in 1 .. Len(q)
        BY <1>1
      <3>2. o[r] = v
        BY <2>1, <3>1, <1>5
      <3>3. \A i \in 1 .. Len(s) : s[i].rele # r
        BY <2>1, <1>2
      <3> QED  BY <3>2, <3>3 DEF Ends
    <2>2. ASSUME NEW i \in 1 .. Len(q), q[i].rele = r, q[i].level = v,
                 \A j \in 1 .. Len(q) : j > i => q[j].rele # r
          PROVE  Ends(s, o, r, v)
      <3>1. CASE i = 1
        <4>1. o[r] = v
          BY <2>2, <3>1, <1>5
        <4>2. \A k \in 1 .. Len(s) : k + 1 > 1
          OBVIOUS
        <4>3. \A k \in 1 .. Len(s) : s[k].rele # r
          BY <2>2, <3>1, <1>2, <4>2
        <4> QED  BY <4>1, <4>3 DEF Ends
      <3>2. CASE i # 1
        <4>1. i - 1 \in 1 .. Len(s) /\ s[i - 1] = q[i]
          BY <3>2, <1>3
        <4>2. \A k \in 1 .. Len(s) : k > i - 1 => k + 1 > i
          OBVIOUS
        <4>3. \A k \in 1 .. Len(s) : k > i - 1 => s[k].rele # r
          BY <2>2, <1>2, <4>2
        <4> QED  BY <2>2, <4>1, <4>3 DEF Ends
      <3> QED  BY <3>1, <3>2
    <2> QED  BY <2>1, <2>2 DEF Ends
  <1> QED  BY <1>6 DEF s, o

\* The end is what the properties call the pending level.
LEMMA EndsPending ==
  ASSUME relayq \in Seq(Message), NEW r \in Relay, NEW v, Ends(relayq, pin, r, v)
  PROVE  Pending(r) = v
  <1> DEFINE own == {i \in 1 .. Len(relayq) : relayq[i].rele = r}
             last == CHOOSE i \in own : \A j \in own : j <= i
  <1>1. CASE pin[r] = v /\ \A i \in 1 .. Len(relayq) : relayq[i].rele # r
    BY <1>1 DEF Pending
  <1>2. ASSUME NEW i \in 1 .. Len(relayq), relayq[i].rele = r, relayq[i].level = v,
               \A j \in 1 .. Len(relayq) : j > i => relayq[j].rele # r
        PROVE  Pending(r) = v
    <2>1. i \in own /\ own \subseteq Int /\ own # {}
      BY <1>2
    <2>2. \A j \in own : j <= i
      BY <1>2
    <2>3. last \in own /\ \A j \in own : j <= last
      BY <2>1, <2>2
    <2>4. last = i
      BY <2>1, <2>2, <2>3
    <2>5. Pending(r) = relayq[last].level
      BY <2>1 DEF Pending
    <2> QED  BY <1>2, <2>4, <2>5
  <1> QED  BY <1>1, <1>2 DEF Ends

LEMMA CommandInit == Init => CommandInv
  <1> SUFFICES ASSUME Init, NEW r \in Relay, Governed(r)
               PROVE  /\ \A i \in 1 .. Len(todo) : todo[i].rele = r => todo[i].level = 1 - Wanted(r)
                      /\ Ends(relayq, pin, r, 1 - Wanted(r))
    BY DEF CommandInv
  <1>1. r \in {Antenna, Radio} /\ Wanted(r) = 1
    BY DEF Init, Governed, Wanted
  <1>2. todo = <<>> /\ relayq = <<>> /\ pin[r] = 0
    BY DEF Init
  <1> QED  BY <1>1, <1>2 DEF Ends

\* One command leaves the main loop for the queue, or is dropped.
LEMMA CommandSend ==
  ASSUME TypeOK, CommandInv, SendNext
  PROVE  CommandInv'
  <1> SUFFICES ASSUME NEW r \in Relay, Governed(r)'
               PROVE  /\ \A i \in 1 .. Len(todo') : todo'[i].rele = r => todo'[i].level = 1 - Wanted(r)'
                      /\ r \notin missed' /\ (\A i \in 1 .. Len(todo') : todo'[i].rele # r)
                           => Ends(relayq', pin', r, 1 - Wanted(r)')
    BY DEF CommandInv
  <1> DEFINE msg == Head(todo)
  <1>1. Governed(r) /\ Wanted(r)' = Wanted(r) /\ pin' = pin
    BY DEF SendNext, Governed, Wanted
  <1>2. /\ todo \in Seq(Message) /\ todo # <<>> /\ todo' = Tail(todo)
        /\ msg \in Message /\ msg = todo[1] /\ relayq \in Seq(Message)
    BY DEF SendNext, TypeOK
  <1>3. \A i \in 1 .. Len(todo') : i + 1 \in 1 .. Len(todo) /\ todo'[i] = todo[i + 1]
    BY <1>2
  <1>4. 1 \in 1 .. Len(todo) /\ \A i \in 1 .. Len(todo) :
          i = 1 \/ (i - 1 \in 1 .. Len(todo') /\ todo'[i - 1] = todo[i])
    BY <1>2
  <1>5. /\ \A i \in 1 .. Len(todo) : todo[i].rele = r => todo[i].level = 1 - Wanted(r)
        /\ r \notin missed /\ (\A i \in 1 .. Len(todo) : todo[i].rele # r)
             => Ends(relayq, pin, r, 1 - Wanted(r))
    BY <1>1 DEF CommandInv
  <1>6. \/ relayq' = Append(relayq, msg) /\ missed' = missed \ {msg.rele}
        \/ relayq' = relayq /\ missed' = missed \cup {msg.rele}
    BY DEF SendNext
  <1> HIDE DEF msg
  <1>7. \A i \in 1 .. Len(todo') : todo'[i].rele = r => todo'[i].level = 1 - Wanted(r)'
    BY <1>1, <1>3, <1>5
  <1>8. ASSUME r \notin missed', \A i \in 1 .. Len(todo') : todo'[i].rele # r
        PROVE  Ends(relayq', pin, r, 1 - Wanted(r))
    <2>1. CASE msg.rele = r
      <3>1. relayq' = Append(relayq, msg) /\ msg.level = 1 - Wanted(r)
        BY <1>2, <1>4, <1>5, <1>6, <1>8, <2>1
      <3>2. Ends(Append(relayq, msg), pin, msg.rele, msg.level)
        BY <1>2, EndsAppend
      <3> QED  BY <2>1, <3>1, <3>2
    <2>2. CASE msg.rele # r
      <3>1. \A i \in 1 .. Len(todo) : todo[i].rele # r
        BY <1>2, <1>4, <1>8, <2>2
      <3>2. r \notin missed
        BY <1>6, <1>8, <2>2
      <3>3. Ends(relayq, pin, r, 1 - Wanted(r))
        BY <1>5, <3>1, <3>2
      <3> QED  BY <1>2, <1>6, <2>2, <3>3, EndsKeep
    <2> QED  BY <2>1, <2>2
  <1> QED  BY <1>1, <1>7, <1>8

\* What the main loop and the user do with the commands to send.
LEMMA CommandMain ==
  ASSUME TypeOK, CommandInv, User \/ LeaveGui \/ ManageCables \/ ManageFaults
  PROVE  CommandInv'
  <1> SUFFICES ASSUME NEW r \in Relay, Governed(r)'
               PROVE  /\ \A i \in 1 .. Len(todo') : todo'[i].rele = r => todo'[i].level = 1 - Wanted(r)'
                      /\ r \notin missed' /\ (\A i \in 1 .. Len(todo') : todo'[i].rele # r)
                           => Ends(relayq', pin', r, 1 - Wanted(r)')
    BY DEF CommandInv
  <1>1. todo = <<>> /\ UNCHANGED <<relayq, pin, missed>>
    BY DEF User, EnterTest, TestRelay, LeaveTest, EditCables, EditDevices, LeaveGui,
           ManageCables, ManageFaults, At, boardVars, history
  <1>2. Governed(r) /\ r \notin missed => Ends(relayq, pin, r, 1 - Wanted(r))
    BY <1>1 DEF CommandInv
  <1>3. CASE UNCHANGED <<todo, test, afterTest, asked, judged>>
    BY <1>1, <1>2, <1>3 DEF Governed, Wanted
  <1>4. CASE EnterTest
    <2>1. Wanted(r)' = 0 /\ r \in Relay
      BY <1>4 DEF EnterTest, Wanted
    <2>2. Len(todo') = 4 /\ \A i \in 1 .. 4 : todo'[i] = SetRelay(i, 0)
      BY <1>4 DEF EnterTest, Relay
    <2>3. \A i \in 1 .. 4 : todo'[i].rele = i /\ todo'[i].level = 1
      BY <2>2 DEF SetRelay
    <2>4. r \in 1 .. 4
      BY DEF Relay
    <2> QED  BY <2>1, <2>2, <2>3, <2>4
  <1>5. CASE TestRelay
    <2>1. PICK button \in Buttons, value \in Bit :
            todo' = <<SetRelay(button, value)>> /\ asked' = [asked EXCEPT ![button] = value]
      BY <1>5 DEF TestRelay
    <2>2. test = 1 /\ test' = 1 /\ asked \in [Relay -> Bit]
      BY <1>5 DEF TestRelay, TypeOK
    <2>3. Wanted(r)' = IF r = button THEN value ELSE Wanted(r)
      BY <2>1, <2>2 DEF Wanted
    <2>4. Len(todo') = 1 /\ todo'[1].rele = button /\ todo'[1].level = 1 - value
      BY <2>1 DEF SetRelay
    <2>5. Governed(r)
      BY <2>2 DEF Governed
    <2>6. CASE r = button
      BY <2>3, <2>4, <2>6
    <2>7. CASE r # button
      BY <1>1, <1>2, <2>3, <2>4, <2>5, <2>7
    <2> QED  BY <2>6, <2>7
  <1>6. CASE LeaveTest
    BY <1>6 DEF LeaveTest, Governed
  <1>7. CASE ManageCables
    <2>1. Governed(r) /\ Wanted(r)' = Wanted(r) /\ r # Cable
      BY <1>7 DEF ManageCables, Governed, Wanted, history
    <2>2. \/ todo' = <<>>
          \/ Len(todo') = 1 /\ todo'[1].rele = Cable
      BY <1>7 DEF ManageCables, SetRelay
    <2>3. \A i \in 1 .. Len(todo') : todo'[i].rele # r
      BY <2>1, <2>2
    <2> QED  BY <1>1, <1>2, <2>1, <2>3
  <1>8. CASE ManageFaults
    <2>1. test' = test /\ asked' = asked /\ afterTest' = 0
      BY <1>8 DEF ManageFaults
    <2>2. CASE test = 1
      <3>1. todo' = <<>> /\ Governed(r) /\ Wanted(r)' = Wanted(r)
        BY <1>1, <1>8, <2>1, <2>2 DEF ManageFaults, Governed, Wanted
      <3> QED  BY <1>1, <1>2, <3>1
    <2>3. CASE test # 1 /\ ~(update = 1 \/ afterTest = 1)
      <3>1. test = 0 /\ afterTest = 0 /\ todo' = todo /\ judged' = judged
        BY <1>8, <2>3 DEF ManageFaults, TypeOK, Bit
      <3>2. Governed(r) /\ Wanted(r)' = Wanted(r)
        BY <2>1, <3>1 DEF Governed, Wanted
      <3> QED  BY <1>1, <1>2, <3>1, <3>2
    <2>4. CASE test # 1 /\ (update = 1 \/ afterTest = 1)
      <3>1. test = 0 /\ r \in {Antenna, Radio}
        BY <2>1, <2>4 DEF TypeOK, Bit, Governed
      <3>2. judged' = fault
            /\ todo' = <<SetRelay(Antenna, fault[Antenna]), SetRelay(Radio, fault[Radio])>>
        BY <1>8, <2>4, <3>1 DEF ManageFaults
      <3>3. Wanted(r)' = fault[r]
        BY <2>1, <3>1, <3>2 DEF Wanted
      <3>4. /\ Len(todo') = 2
            /\ todo'[1].rele = Antenna /\ todo'[1].level = 1 - fault[Antenna]
            /\ todo'[2].rele = Radio /\ todo'[2].level = 1 - fault[Radio]
        BY <3>2 DEF SetRelay
      <3>5. \A i \in 1 .. Len(todo') : i = 1 \/ i = 2
        BY <3>4
      <3>6. 1 \in 1 .. Len(todo') /\ 2 \in 1 .. Len(todo')
        BY <3>4
      <3> QED  BY <3>1, <3>3, <3>4, <3>5, <3>6 DEF Antenna, Radio
    <2> QED  BY <2>2, <2>3, <2>4
  <1>9. CASE LeaveGui \/ EditCables \/ EditDevices
    BY <1>3, <1>9 DEF LeaveGui, EditCables, EditDevices, history
  <1> QED  BY <1>4, <1>5, <1>6, <1>7, <1>8, <1>9 DEF User

\* The board task.
LEMMA CommandBoard ==
  ASSUME TypeOK, CommandInv, BoardTask \/ LinesChange
  PROVE  CommandInv'
  <1> SUFFICES ASSUME NEW r \in Relay, Governed(r)'
               PROVE  /\ \A i \in 1 .. Len(todo') : todo'[i].rele = r => todo'[i].level = 1 - Wanted(r)'
                      /\ r \notin missed' /\ (\A i \in 1 .. Len(todo') : todo'[i].rele # r)
                           => Ends(relayq', pin', r, 1 - Wanted(r)')
    BY DEF CommandInv
  <1>1. UNCHANGED <<todo, test, afterTest, asked, judged, missed>>
    BY DEF BoardTask, BoardReceive, BoardSample, BoardPower, LinesChange, mainVars, history
  <1>2. Governed(r) /\ Wanted(r)' = Wanted(r)
    BY <1>1 DEF Governed, Wanted
  <1>3. SUFFICES ASSUME Ends(relayq, pin, r, 1 - Wanted(r))
                 PROVE  Ends(relayq', pin', r, 1 - Wanted(r))
    BY <1>1, <1>2 DEF CommandInv
  <1>4. CASE UNCHANGED <<relayq, pin>>
    BY <1>3, <1>4
  <1>5. CASE BoardReceive
    <2>1. CASE relayq = <<>>
      BY <1>4, <1>5, <2>1 DEF BoardReceive
    <2>2. CASE relayq # <<>>
      <3>1. relayq' = Tail(relayq) /\ pin' = [pin EXCEPT ![Head(relayq).rele] = Head(relayq).level]
        BY <1>5, <2>2 DEF BoardReceive
      <3>2. relayq \in Seq(Message) /\ pin \in [Relay -> Bit]
        BY DEF TypeOK
      <3> QED  BY <1>3, <2>2, <3>1, <3>2, EndsTail
    <2> QED  BY <2>1, <2>2
  <1>6. CASE BoardPower
    <2>1. relayq' = relayq /\ pin \in [Relay -> Bit]
      BY <1>6 DEF BoardPower, TypeOK
    <2>2. r # 1
      BY <1>2 DEF Governed, Cable
    <2>3. pin'[r] = pin[r]
      BY <1>6, <2>1, <2>2 DEF BoardPower
    <2> QED  BY <1>3, <2>1, <2>3 DEF Ends
  <1>7. CASE BoardSample \/ LinesChange
    BY <1>4, <1>7 DEF BoardSample, LinesChange
  <1> QED  BY <1>5, <1>6, <1>7 DEF BoardTask

LEMMA CommandStep == TypeOK /\ CommandInv /\ [Next]_vars => CommandInv'
  <1> SUFFICES ASSUME TypeOK, CommandInv, [Next]_vars PROVE CommandInv'
    OBVIOUS
  <1>1. CASE UNCHANGED vars
    BY <1>1 DEF vars, mainVars, boardVars, history, CommandInv, Governed, Wanted, Ends
  <1> QED  BY <1>1, CommandSend, CommandMain, CommandBoard DEF Next, MainLoop

LEMMA CommandsHold == Spec => []CommandInv
  BY CommandInit, CommandStep, TypeCorrect, PTL DEF Spec

\* Outside a test the relays of the antenna and radio faults are going to show
\* what the main loop last found, whatever a test has left in the queue
\* (controller.c:124-139).
THEOREM RelaysCorrect == Spec => []RelaysFollow
  <1>1. TypeOK /\ CommandInv => RelaysFollow
    <2> SUFFICES ASSUME TypeOK, CommandInv, Idle, test = 0, afterTest = 0,
                        NEW r \in {Antenna, Radio} \ missed
                 PROVE  Pending(r) = 1 - judged[r]
      BY DEF RelaysFollow
    <2>1. r \in Relay /\ r \in Relay \ {Cable} /\ r \in {Antenna, Radio}
      BY DEF Antenna, Radio, Relay, Cable
    <2>2. Governed(r) /\ Wanted(r) = judged[r]
      BY <2>1 DEF Governed, Wanted
    <2>3. todo = <<>>
      BY DEF Idle, At
    <2>4. Ends(relayq, pin, r, 1 - judged[r])
      BY <2>1, <2>2, <2>3 DEF CommandInv
    <2> QED  BY <2>1, <2>4, EndsPending DEF TypeOK
  <1> QED  BY <1>1, TypeCorrect, CommandsHold, PTL

\* During a test the relays obey the user (controller.c:63-75, 110, 136).
THEOREM TestCorrect == Spec => []TestObeyed
  <1>1. TypeOK /\ CommandInv => TestObeyed
    <2> SUFFICES ASSUME TypeOK, CommandInv, Idle, test = 1,
                        NEW r \in (Relay \ {Cable}) \ missed
                 PROVE  Pending(r) = 1 - asked[r]
      BY DEF TestObeyed
    <2>1. Governed(r) /\ Wanted(r) = asked[r]
      BY DEF Governed, Wanted
    <2>2. todo = <<>>
      BY DEF Idle, At
    <2>3. Ends(relayq, pin, r, 1 - asked[r])
      BY <2>1, <2>2 DEF CommandInv
    <2> QED  BY <2>3, EndsPending DEF TypeOK
  <1> QED  BY <1>1, TypeCorrect, CommandsHold, PTL
=============================================================================
