----------------------------- MODULE ViewProofs -----------------------------
(***************************************************************************)
(* What View guarantees for any number of channels, devices and cables and *)
(* any length of the event queue: what was edited is saved on the way      *)
(* back, no touch reaches another page, a test lasts as long as its page,  *)
(* the menu is locked, and no page misses what was reported.               *)
(***************************************************************************)
EXTENDS View, SequenceTheorems, TLAPS

\* A sequence, of whatever elements.
IsSeq(q) == \E S : q \in Seq(S)

-----------------------------------------------------------------------------
(* The event queue.                                                        *)

LEMMA AppendFacts ==
  ASSUME NEW q, IsSeq(q), NEW e
  PROVE  /\ IsSeq(Append(q, e)) /\ Len(q) \in Nat /\ Len(Append(q, e)) = Len(q) + 1
         /\ Append(q, e)[Len(q) + 1] = e
         /\ \A i \in 1 .. Len(q) : Append(q, e)[i] = q[i]
  <1>1. PICK S : q \in Seq(S)
    BY DEF IsSeq
  <1>2. q \in Seq(S \cup {e}) /\ e \in S \cup {e}
    BY <1>1
  <1>3. Append(q, e) \in Seq(S \cup {e})
    BY <1>2
  <1>4. Len(q) \in Nat /\ Len(Append(q, e)) = Len(q) + 1 /\ Append(q, e)[Len(q) + 1] = e
        /\ \A i \in 1 .. Len(q) : Append(q, e)[i] = q[i]
    BY <1>2
  <1> QED  BY <1>3, <1>4 DEF IsSeq

LEMMA TailFacts ==
  ASSUME NEW q, IsSeq(q), q # <<>>
  PROVE  /\ IsSeq(Tail(q)) /\ Len(q) \in Nat \ {0} /\ Len(Tail(q)) = Len(q) - 1
         /\ \A i \in 1 .. Len(Tail(q)) : i + 1 \in 1 .. Len(q) /\ Tail(q)[i] = q[i + 1]
         /\ \A i \in 1 .. Len(q) : i = 1 \/ (i - 1 \in 1 .. Len(Tail(q)) /\ Tail(q)[i - 1] = q[i])
  <1>1. PICK S : q \in Seq(S)
    BY DEF IsSeq
  <1>2. Tail(q) \in Seq(S) /\ Len(q) \in Nat \ {0} /\ Len(Tail(q)) = Len(q) - 1
    BY <1>1
  <1>3. \A i \in 1 .. Len(Tail(q)) : i + 1 \in 1 .. Len(q) /\ Tail(q)[i] = q[i + 1]
    BY <1>1, <1>2
  <1>4. \A i \in 1 .. Len(q) : i = 1 \/ (i - 1 \in 1 .. Len(Tail(q)) /\ Tail(q)[i - 1] = q[i])
    BY <1>2, <1>3
  <1> QED  BY <1>2, <1>3, <1>4 DEF IsSeq

\* What view_event leaves in the queue.
LEMMA EnqueuedFacts ==
  ASSUME NEW q, IsSeq(q), NEW e
  PROVE  /\ IsSeq(Enqueued(q, e)) /\ Len(q) \in Nat /\ Len(Enqueued(q, e)) \in Nat
         /\ Len(Enqueued(q, e)) <= Len(q) + 1 /\ Len(q) <= Len(Enqueued(q, e))
         /\ \A i \in 1 .. Len(q) : i \in 1 .. Len(Enqueued(q, e)) /\ Enqueued(q, e)[i] = q[i]
         /\ \A i \in 1 .. Len(Enqueued(q, e)) :
              (i \in 1 .. Len(q) /\ Enqueued(q, e)[i] = q[i]) \/ Enqueued(q, e)[i] = e
         /\ Len(q) < QueueLength =>
              /\ Len(q) + 1 \in 1 .. Len(Enqueued(q, e)) /\ Enqueued(q, e)[Len(q) + 1] = e
         /\ Len(q) <= QueueLength => Len(Enqueued(q, e)) <= QueueLength
  <1>0. QueueLength \in Nat
    BY ViewAssumption DEF ViewAssumption
  <1>1. Len(q) \in Nat
    BY AppendFacts
  <1>2. CASE Len(q) < QueueLength
    <2>1. Enqueued(q, e) = Append(q, e)
      BY <1>2 DEF Enqueued
    <2> DEFINE s == Append(q, e)
    <2>2. IsSeq(s) /\ Len(s) = Len(q) + 1 /\ s[Len(q) + 1] = e /\ \A i \in 1 .. Len(q) : s[i] = q[i]
      BY AppendFacts
    <2>3. \A i \in 1 .. Len(s) : i \in 1 .. Len(q) \/ i = Len(q) + 1
      BY <1>1, <2>2
    <2> HIDE DEF s
    <2>4. /\ IsSeq(s) /\ Len(s) \in Nat /\ Len(s) <= Len(q) + 1 /\ Len(q) <= Len(s)
          /\ \A i \in 1 .. Len(q) : i \in 1 .. Len(s) /\ s[i] = q[i]
          /\ \A i \in 1 .. Len(s) : (i \in 1 .. Len(q) /\ s[i] = q[i]) \/ s[i] = e
          /\ Len(q) + 1 \in 1 .. Len(s) /\ s[Len(q) + 1] = e /\ Len(s) <= QueueLength
      BY <1>0, <1>1, <1>2, <2>2, <2>3
    <2> QED  BY <1>1, <2>1, <2>4 DEF s
  <1>3. CASE ~(Len(q) < QueueLength)
    <2>1. Enqueued(q, e) = q
      BY <1>3 DEF Enqueued
    <2> QED  BY <1>1, <1>3, <2>1
  <1> QED  BY <1>2, <1>3

-----------------------------------------------------------------------------
(* The page stack.                                                         *)

\* The pages a page leads to.
Leads == {<<"main", "menu">>, <<"main", "channel_state">>,
          <<"menu", "channels">>, <<"menu", "cavi">>, <<"menu", "settings">>, <<"menu", "test">>,
          <<"channels", "channel_settings">>,
          <<"channel_settings", "master_settings">>, <<"channel_settings", "minion_settings">>}

\* Every page of the stack was opened from the one below; the main page is the first.
StackInv ==
  /\ IsSeq(stack) /\ stack # <<>>
  /\ stack[1].page = "main"
  /\ \A i \in 2 .. Len(stack) : <<stack[i - 1].page, stack[i].page>> \in Leads

\* Nothing is left in the queue when controller_manage is called.
QueueInv == IsSeq(queue) /\ (main = "manage" => queue = <<>>)

\* The page was just opened: view_change_page has emptied the queue.
JustOpened ==
  queue' = <<OpenEvent>> /\ screen' = Drawn(Top') /\ unlocked' = 0 /\ silent' = {}

\* What an event does to the stack and to the queue.
Stays == stack' = stack /\ queue' = Tail(queue) /\ UNCHANGED <<unlocked, silent>>
Deeper == StackInv' /\ JustOpened /\ <<Page, Page'>> \in Leads
Returns == StackInv' /\ JustOpened /\ <<Page', Page>> \in Leads /\ Page # "main"

LEMMA ChangePageMoves ==
  ASSUME StackInv, NEW page, NEW arg, ChangePage(page, arg), <<Page, page>> \in Leads
  PROVE  Deeper /\ Page' = page /\ Top' = [page |-> page, arg |-> arg]
  <1> DEFINE frame == [page |-> page, arg |-> arg]
  <1>1. stack' = Append(stack, frame) /\ queue' = <<OpenEvent>> /\ unlocked' = 0 /\ silent' = {}
        /\ screen' = Drawn(stack'[Len(stack')])
    BY DEF ChangePage, Opening
  <1>2. /\ IsSeq(stack') /\ Len(stack) \in Nat /\ Len(stack') = Len(stack) + 1
        /\ stack'[Len(stack) + 1] = frame /\ \A i \in 1 .. Len(stack) : stack'[i] = stack[i]
    BY <1>1, AppendFacts DEF StackInv
  <1>3. Top' = frame /\ Page' = page
    BY <1>2 DEF Top, Page
  <1>4. Len(stack) # 0
    BY DEF StackInv, IsSeq
  <1>5. stack' # <<>> /\ stack'[1].page = "main"
    BY <1>2, <1>4 DEF StackInv
  <1>6. ASSUME NEW i \in 2 .. Len(stack') PROVE <<stack'[i - 1].page, stack'[i].page>> \in Leads
    <2>1. CASE i \in 2 .. Len(stack)
      <3>1. i - 1 \in 1 .. Len(stack) /\ i \in 1 .. Len(stack)
        BY <1>2, <2>1
      <3> QED  BY <1>2, <2>1, <3>1 DEF StackInv
    <2>2. CASE i = Len(stack) + 1
      <3>1. i - 1 = Len(stack) /\ Len(stack) \in 1 .. Len(stack)
        BY <1>2, <1>4, <2>2
      <3> QED  BY <1>2, <2>2, <3>1 DEF Page, Top
    <2> QED  BY <1>2, <2>1, <2>2
  <1> QED  BY <1>1, <1>2, <1>3, <1>5, <1>6 DEF Deeper, JustOpened, StackInv, Top

LEMMA BackMoves ==
  ASSUME StackInv, Page # "main", Back
  PROVE  Returns
  <1> DEFINE n == Len(stack)
             below == SubSeq(stack, 1, n - 1)
  <1>1. stack' = below /\ queue' = <<OpenEvent>> /\ unlocked' = 0 /\ silent' = {}
        /\ screen' = Drawn(stack'[Len(stack')])
    BY DEF Back, Opening
  <1>2. PICK S : stack \in Seq(S)
    BY DEF StackInv, IsSeq
  <1>3. n \in Nat /\ n # 0 /\ n # 1
    BY <1>2 DEF StackInv, Page, Top
  <1>4. below \in Seq(S) /\ Len(below) = n - 1 /\ \A i \in 1 .. n - 1 : below[i] = stack[i]
    <2>0. \A i \in 1 .. n : stack[i] \in S
      BY <1>2
    <2> HIDE DEF n
    <2>1. 1 \in Int /\ n - 1 \in Int /\ 1 <= n - 1 /\ \A i \in 1 .. n - 1 : stack[i] \in S
      BY <1>3, <2>0
    <2>2. /\ below \in Seq(S) /\ Len(below) = (n - 1) - 1 + 1
          /\ \A i \in 1 .. (n - 1) - 1 + 1 : below[i] = stack[1 + i - 1]
      BY <2>1, SubSeqProperties
    <2>3. (n - 1) - 1 + 1 = n - 1 /\ \A i \in 1 .. n - 1 : 1 + i - 1 = i
      BY <1>3
    <2> HIDE DEF below
    <2> QED  BY <2>2, <2>3
  <1>5. IsSeq(stack')
    BY <1>1, <1>4 DEF IsSeq
  <1>6. Page' = stack[n - 1].page /\ n \in 2 .. n /\ 1 \in 1 .. n - 1
    <2>1. Len(stack') = n - 1 /\ stack'[n - 1] = stack[n - 1]
      BY <1>1, <1>3, <1>4
    <2> QED  BY <1>3, <2>1 DEF Page, Top
  <1>7. <<Page', Page>> \in Leads
    BY <1>6 DEF StackInv, Page, Top
  <1>8. stack' # <<>> /\ stack'[1].page = "main"
    <2> HIDE DEF below
    <2>1. stack'[1] = stack[1] /\ Len(stack') = n - 1 /\ n - 1 # 0
      BY <1>1, <1>3, <1>4, <1>6
    <2> QED  BY <2>1 DEF StackInv
  <1>9. \A i \in 2 .. Len(stack') : <<stack'[i - 1].page, stack'[i].page>> \in Leads
    <2>1. \A i \in 2 .. n - 1 : i \in 2 .. n /\ i \in 1 .. n - 1 /\ i - 1 \in 1 .. n - 1
      BY <1>3
    <2> QED  BY <1>1, <1>4, <2>1 DEF StackInv
  <1> QED  BY <1>1, <1>5, <1>7, <1>8, <1>9 DEF Returns, JustOpened, StackInv, Top

LEMMA UpdateStays ==
  ASSUME NEW s, Update(s)
  PROVE  Stays /\ Page' = Page /\ Top' = Top /\ screen' = s
  BY DEF Update, Stays, Page, Top

\* The page of a channel is opened by the widget that carries its number.
Opens(page, arg) ==
  /\ ChangePage(page, arg) /\ <<Page, page>> \in Leads
  /\ page = "channel_state" => Is("CLICKED", "CHANNEL_LED") /\ arg = Event.number
  /\ page = "channel_settings" => Is("CLICKED", "CHANNEL_BTN") /\ arg = Event.number

\* An event leaves the page on top, opens one it leads to, or closes it.
LEMMA ProcessSteps ==
  ASSUME Process
  PROVE  Stays \/ (Back /\ Page # "main") \/ \E page, arg : Opens(page, arg)
  <1>1. ASSUME NEW page, NEW arg, Opens(page, arg) PROVE \E p, a : Opens(p, a)
    BY <1>1
  <1>3. ASSUME NEW s, Update(s) PROVE Stays
    BY <1>3, UpdateStays
  <1>4. CASE Stay
    BY <1>3, <1>4 DEF Stay
  <1>5. CASE Page = "main" /\ ProcessMain
    BY <1>1, <1>3, <1>4, <1>5 DEF ProcessMain, Leads, Opens
  <1>6. CASE Page = "menu" /\ ProcessMenu
    BY <1>1, <1>4, <1>6 DEF ProcessMenu, Leads, Opens
  <1>7. CASE Page = "channels" /\ ProcessChannels
    BY <1>1, <1>4, <1>7 DEF ProcessChannels, Leads, Opens
  <1>8. CASE Page = "channel_settings" /\ ProcessChannelSettings
    <2>1. CASE AddOrRemove(TheChannel)
      BY <1>3, <2>1 DEF AddOrRemove
    <2>2. CASE ChangePage(IF Event.number[1] = "master" THEN "master_settings"
                                                        ELSE "minion_settings",
                          <<TheChannel, Event.number[2]>>)
      BY <1>1, <1>8, <2>2 DEF Leads, Opens
    <2>3. CASE Back
      BY <1>8, <2>3
    <2> QED  BY <1>4, <1>8, <2>1, <2>2, <2>3 DEF ProcessChannelSettings
  <1>9. CASE Page \in {"master_settings", "minion_settings"} /\ ProcessDeviceSettings
    BY <1>4, <1>9 DEF ProcessDeviceSettings
  <1>10. CASE Page = "cavi" /\ ProcessCavi
    BY <1>4, <1>10 DEF ProcessCavi
  <1>11. CASE Page = "settings" /\ ProcessSettings
    BY <1>4, <1>11 DEF ProcessSettings
  <1>12. CASE Page = "test" /\ ProcessTest
    BY <1>3, <1>4, <1>12 DEF ProcessTest
  <1>13. CASE Page = "channel_state" /\ ProcessChannelState
    BY <1>3, <1>4, <1>13 DEF ProcessChannelState
  <1> QED  BY <1>5, <1>6, <1>7, <1>8, <1>9, <1>10, <1>11, <1>12, <1>13 DEF Process

LEMMA ProcessMoves ==
  ASSUME StackInv, Process
  PROVE  Stays \/ Deeper \/ Returns
  <1>1. ASSUME NEW page, NEW arg, Opens(page, arg) PROVE Deeper
    BY <1>1, ChangePageMoves DEF Opens
  <1> QED  BY <1>1, ProcessSteps, BackMoves

\* The other steps leave the stack alone, and the screen; only the queue grows.
Elsewhere == Touch \/ EnterDigits \/ LinkChange \/ LeaveLvgl \/ LeaveGui \/ Manage \/ UNCHANGED vars

LEMMA ElsewhereKeeps ==
  ASSUME Elsewhere
  PROVE  UNCHANGED <<stack, screen, flags, devices, cavi, pin, toSave, netChanged, test>>
         /\ Page' = Page /\ Top' = Top
  <1>1. UNCHANGED <<stack, screen, flags, devices, cavi, pin, toSave, netChanged, test>>
    BY DEF Elsewhere, Touch, EnterDigits, LinkChange, LeaveLvgl, LeaveGui, Manage, vars, view,
           config, testing
  <1> QED  BY <1>1 DEF Page, Top

LEMMA NextSplit == [Next]_vars <=> Process \/ Elsewhere
  BY DEF Next, MainLoop, Elsewhere

StructInv == StackInv /\ QueueInv

LEMMA StructInit == Init => StructInv
  <1> SUFFICES ASSUME Init PROVE StructInv
    OBVIOUS
  <1>1. stack \in Seq({stack[1]}) /\ queue \in Seq({OpenEvent}) /\ stack # <<>>
        /\ stack[1].page = "main" /\ Len(stack) = 1 /\ main = "lvgl"
    BY DEF Init
  <1> QED  BY <1>1 DEF StructInv, StackInv, QueueInv, IsSeq

\* One event after the other is added to the queue.
LEMMA ElsewhereQueue ==
  ASSUME QueueInv, Elsewhere
  PROVE  QueueInv'
  <1> USE DEF QueueInv
  <1>1. CASE Touch
    <2>1. PICK e : queue' = Enqueued(queue, e)
      BY <1>1 DEF Touch
    <2> QED  BY <1>1, <2>1, EnqueuedFacts DEF Touch
  <1>2. CASE EnterDigits
    <2>1. queue' = queue \/ queue' = Enqueued(queue, LvglEvent("APPLY", "PASSWORD_POPUP", <<>>))
      BY <1>2 DEF EnterDigits
    <2> QED  BY <1>2, <2>1, EnqueuedFacts DEF EnterDigits
  <1>3. CASE LinkChange \/ UNCHANGED vars
    BY <1>3 DEF LinkChange, vars, view
  <1>4. CASE LeaveLvgl \/ LeaveGui
    BY <1>4 DEF LeaveLvgl, LeaveGui, view
  <1>5. CASE Manage
    <2>1. main' = "lvgl"
      BY <1>5 DEF Manage
    <2> DEFINE afterPower == IF powerBits' # powerBits
                             THEN Enqueued(queue, PowerState(powerBits')) ELSE queue
    <2>2. IsSeq(afterPower)
      BY EnqueuedFacts
    <2>3. queue' = Enqueued(afterPower, ModelUpdate) \/ queue' = afterPower
      BY <1>5 DEF Manage
    <2> HIDE DEF afterPower
    <2>4. IsSeq(queue')
      BY <2>2, <2>3, EnqueuedFacts
    <2> QED  BY <2>1, <2>4
  <1> QED  BY <1>1, <1>2, <1>3, <1>4, <1>5 DEF Elsewhere

LEMMA StructStep == StructInv /\ [Next]_vars => StructInv'
  <1> SUFFICES ASSUME StructInv, [Next]_vars PROVE StructInv'
    OBVIOUS
  <1>1. CASE Elsewhere
    BY <1>1, ElsewhereKeeps, ElsewhereQueue DEF StructInv, StackInv
  <1>2. CASE Process
    <2>1. main' = "gui" /\ queue # <<>>
      BY <1>2 DEF Process
    <2>2. CASE Stays
      <3>1. IsSeq(queue')
        BY <2>1, <2>2, TailFacts DEF Stays, StructInv, QueueInv
      <3> QED  BY <2>1, <2>2, <3>1 DEF Stays, StructInv, StackInv, QueueInv
    <2>3. CASE Deeper \/ Returns
      <3>1. StackInv' /\ queue' = <<OpenEvent>>
        BY <2>3 DEF Deeper, Returns, JustOpened
      <3>2. queue' \in Seq({OpenEvent})
        BY <3>1
      <3> QED  BY <2>1, <3>1, <3>2 DEF StructInv, QueueInv, IsSeq
    <2> QED  BY <1>2, <2>2, <2>3, ProcessMoves DEF StructInv
  <1> QED  BY <1>1, <1>2, NextSplit

LEMMA StructHolds == Spec => []StructInv
  BY StructInit, StructStep, PTL DEF Spec

-----------------------------------------------------------------------------
(* What the events of the queue have in common.                            *)

LEMMA ElsewhereEvents ==
  ASSUME StructInv, Elsewhere, NEW i \in 1 .. Len(queue')
  PROVE  \/ i \in 1 .. Len(queue) /\ queue'[i] = queue[i]
         \/ Manage /\ queue'[i] \in {ModelUpdate, PowerState(powerBits')}
         \/ Touch /\ \E w \in Widgets : queue'[i] = LvglEvent(w[1], w[2], w[3])
         \/ EnterDigits /\ queue'[i] = LvglEvent("APPLY", "PASSWORD_POPUP", <<>>) /\ queue' # queue
  <1> USE DEF StructInv, QueueInv
  <1>1. CASE Touch
    <2>1. PICK w \in Widgets : queue' = Enqueued(queue, LvglEvent(w[1], w[2], w[3]))
      BY <1>1 DEF Touch
    <2>2. (i \in 1 .. Len(queue) /\ queue'[i] = queue[i]) \/ queue'[i] = LvglEvent(w[1], w[2], w[3])
      BY <2>1, EnqueuedFacts
    <2> QED  BY <1>1, <2>2
  <1>2. CASE EnterDigits
    <2> DEFINE apply == LvglEvent("APPLY", "PASSWORD_POPUP", <<>>)
    <2>1. queue' = queue \/ (queue' # queue /\ queue' = Enqueued(queue, apply))
      BY <1>2 DEF EnterDigits
    <2> HIDE DEF apply
    <2>2. queue' = Enqueued(queue, apply) =>
            (i \in 1 .. Len(queue) /\ queue'[i] = queue[i]) \/ queue'[i] = apply
      BY EnqueuedFacts
    <2>3. (i \in 1 .. Len(queue) /\ queue'[i] = queue[i]) \/ (queue' # queue /\ queue'[i] = apply)
      BY <2>1, <2>2
    <2> QED  BY <1>2, <2>3 DEF apply
  <1>3. CASE LinkChange \/ UNCHANGED vars \/ LeaveLvgl \/ LeaveGui
    <2>1. queue' = queue
      BY <1>3 DEF LinkChange, vars, view, LeaveLvgl, LeaveGui
    <2> QED  BY <2>1
  <1>4. CASE Manage
    <2> DEFINE power == PowerState(powerBits')
               afterPower == IF powerBits' # powerBits THEN Enqueued(queue, power) ELSE queue
    <2>1. queue' = Enqueued(afterPower, ModelUpdate) \/ queue' = afterPower
      BY <1>4 DEF Manage
    <2> HIDE DEF power
    <2>2. IsSeq(afterPower)
      BY EnqueuedFacts
    <2>3. \A j \in 1 .. Len(afterPower) :
            (j \in 1 .. Len(queue) /\ afterPower[j] = queue[j]) \/ afterPower[j] = power
      BY EnqueuedFacts
    <2> HIDE DEF afterPower
    <2>4. \A j \in 1 .. Len(Enqueued(afterPower, ModelUpdate)) :
            \/ j \in 1 .. Len(afterPower) /\ Enqueued(afterPower, ModelUpdate)[j] = afterPower[j]
            \/ Enqueued(afterPower, ModelUpdate)[j] = ModelUpdate
      BY <2>2, EnqueuedFacts
    <2>5. (i \in 1 .. Len(queue) /\ queue'[i] = queue[i]) \/ queue'[i] = power \/ queue'[i] = ModelUpdate
      BY <2>1, <2>3, <2>4
    <2> QED  BY <1>4, <2>5 DEF power
  <1> QED  BY <1>1, <1>2, <1>3, <1>4 DEF Elsewhere

\* Taking an event leaves the others; a page that opens has its first one only.
LEMMA ProcessEvents ==
  ASSUME StructInv, Process
  PROVE  \/ /\ Stays /\ Page' = Page /\ Top' = Top
            /\ \A i \in 1 .. Len(queue') : i + 1 \in 1 .. Len(queue) /\ queue'[i] = queue[i + 1]
            /\ \A i \in 1 .. Len(queue) : i = 1 \/ (i - 1 \in 1 .. Len(queue') /\ queue'[i - 1] = queue[i])
         \/ /\ Deeper \/ Returns
            /\ Len(queue') = 1 /\ queue'[1] = OpenEvent
  <1>1. CASE Stays
    <2>1. Page' = Page /\ Top' = Top
      BY <1>1 DEF Stays, Page, Top
    <2>2. queue # <<>> /\ IsSeq(queue) /\ queue' = Tail(queue)
      BY <1>1 DEF Process, StructInv, QueueInv, Stays
    <2> QED  BY <1>1, <2>1, <2>2, TailFacts
  <1>2. CASE Deeper \/ Returns
    <2>1. queue' = <<OpenEvent>>
      BY <1>2 DEF Deeper, Returns, JustOpened
    <2> QED  BY <1>2, <2>1
  <1> QED  BY <1>1, <1>2, ProcessMoves DEF StructInv

-----------------------------------------------------------------------------
(* The properties.                                                         *)

LEMMA TouchesStep == StructInv /\ TouchesOfPage /\ [Next]_vars => TouchesOfPage'
  <1> SUFFICES ASSUME StructInv, TouchesOfPage, [Next]_vars, NEW i \in 1 .. Len(queue'),
                      queue'[i].code = "LVGL"
               PROVE  queue'[i].page = Page'
    BY DEF TouchesOfPage
  <1>1. CASE Elsewhere
    <2>1. Page' = Page
      BY <1>1, ElsewhereKeeps
    <2>2. CASE i \in 1 .. Len(queue) /\ queue'[i] = queue[i]
      BY <2>1, <2>2 DEF TouchesOfPage
    <2>3. CASE queue'[i] \in {ModelUpdate, PowerState(powerBits')}
      BY <2>3 DEF ModelUpdate, PowerState
    <2>4. CASE \E e, id, number : queue'[i] = LvglEvent(e, id, number)
      BY <2>1, <2>4 DEF LvglEvent
    <2> QED  BY <1>1, <2>2, <2>3, <2>4, ElsewhereEvents
  <1>2. CASE Process
    <2>1. CASE Len(queue') = 1 /\ queue'[1] = OpenEvent
      <3>1. i = 1
        BY <2>1
      <3> QED  BY <2>1, <3>1 DEF OpenEvent
    <2>2. CASE Page' = Page /\ i + 1 \in 1 .. Len(queue) /\ queue'[i] = queue[i + 1]
      BY <2>2 DEF TouchesOfPage
    <2> QED  BY <1>2, <2>1, <2>2, ProcessEvents
  <1> QED  BY <1>1, <1>2, NextSplit

\* A page never gets the touch of a widget of another page (view.c:55-63).
THEOREM TouchesCorrect == Spec => []TouchesOfPage
  <1>1. Init => TouchesOfPage
    BY DEF Init, TouchesOfPage, OpenEvent
  <1> QED  BY <1>1, StructHolds, TouchesStep, PTL DEF Spec

\* No command for the controller is given outside the test page.
LEMMA OnlyTestPageTests ==
  ASSUME Process, Page # "test"
  PROVE  test' = test
  BY DEF Process, ProcessMain, ProcessMenu, ProcessChannels, ProcessChannelSettings, AddOrRemove,
         ProcessDeviceSettings, ProcessCavi, ProcessSettings, ProcessChannelState, OnlyView,
         NoCommand, testing

LEMMA TestStep == StructInv /\ TestOnItsPage /\ [Next]_vars => TestOnItsPage'
  <1> SUFFICES ASSUME StructInv, TestOnItsPage, [Next]_vars PROVE TestOnItsPage'
    OBVIOUS
  <1>1. CASE Elsewhere
    <2>1. Page' = Page /\ test' = test
      BY <1>1, ElsewhereKeeps
    <2>2. ASSUME queue # <<>> PROVE queue' # <<>> /\ queue'[1] = queue[1]
      <3>0. Len(queue) \in Nat \ {0} /\ 1 \in 1 .. Len(queue)
        BY <2>2, TailFacts DEF StructInv, QueueInv
      <3>1. ASSUME NEW e, queue' = Enqueued(queue, e) PROVE queue' # <<>> /\ queue'[1] = queue[1]
        <4>1. 1 \in 1 .. Len(queue') /\ queue'[1] = queue[1]
          BY <3>0, <3>1, EnqueuedFacts DEF StructInv, QueueInv
        <4> QED  BY <4>1
      <3>2. CASE queue' = queue
        BY <2>2, <3>2
      <3>3. ~Manage
        BY <2>2 DEF Manage, StructInv, QueueInv
      <3>4. queue' = queue \/ \E e : queue' = Enqueued(queue, e)
        BY <1>1, <3>3 DEF Elsewhere, Touch, EnterDigits, LinkChange, vars, view, LeaveLvgl, LeaveGui
      <3> QED  BY <3>1, <3>2, <3>4
    <2> QED  BY <2>1, <2>2 DEF TestOnItsPage
  <1>2. CASE Process
    <2>1. CASE Page # "test"
      <3>1. test' = test /\ test # 1
        BY <1>2, <2>1, OnlyTestPageTests DEF TestOnItsPage
      <3>2. Page' = "test" => queue' = <<OpenEvent>>
        BY <1>2, <2>1, ProcessMoves DEF Stays, Deeper, Returns, JustOpened, Page, Top, StructInv
      <3> QED  BY <3>1, <3>2 DEF TestOnItsPage
    <2>2. CASE Page = "test" /\ Event.code = "OPEN" /\ SetTest(1) /\ Stay
      <3>1. test' = 1 /\ Page' = Page
        BY <2>2, UpdateStays DEF SetTest, Stay
      <3> QED  BY <2>2, <3>1 DEF TestOnItsPage
    <2>3. CASE Page = "test" /\ SetTest(0) /\ Back
      <3>1. test' = 0 /\ Returns
        BY <2>3, BackMoves DEF SetTest, StructInv
      <3>2. Page' # "test"
        BY <3>1 DEF Returns, Leads
      <3> QED  BY <3>1, <3>2 DEF TestOnItsPage
    <2>4. CASE Page = "test" /\ Event.code # "OPEN" /\ NoCommand
      <3>1. test # 0
        BY <1>2, <2>4 DEF TestOnItsPage, OpenEvent, Event
      <3>2. test' = test
        BY <2>4 DEF NoCommand, testing
      <3>3. Stays
        BY <1>2, <2>4, <3>1, <3>2, UpdateStays DEF Process, ProcessTest, Stay, SetTest
      <3>4. Page' = Page
        BY <3>3 DEF Stays, Page, Top
      <3> QED  BY <2>4, <3>1, <3>2, <3>4 DEF TestOnItsPage
    <2>5. Page = "test" => \/ Event.code = "OPEN" /\ SetTest(1) /\ Stay
                           \/ SetTest(0) /\ Back
                           \/ Event.code # "OPEN" /\ NoCommand
      BY <1>2 DEF Process, ProcessTest, Is
    <2> QED  BY <2>1, <2>2, <2>3, <2>4, <2>5
  <1> QED  BY <1>1, <1>2, NextSplit

\* The test mode lasts as long as its page (page_test.c:96-112).
THEOREM TestsCorrect == Spec => []TestOnItsPage
  <1>1. Init => TestOnItsPage
    BY DEF Init, TestOnItsPage, Page, Top
  <1> QED  BY <1>1, StructHolds, TestStep, PTL DEF Spec

\* The pages from which one leaves over a save.
Editors == {"channels", "channel_settings", "master_settings", "minion_settings", "cavi", "settings"}

LEMMA SavedStep == StructInv /\ SavedOutsideEditors /\ [Next]_vars => SavedOutsideEditors'
  <1> SUFFICES ASSUME StructInv, SavedOutsideEditors, [Next]_vars PROVE SavedOutsideEditors'
    OBVIOUS
  <1> DEFINE kept == toSave' = toSave /\ netChanged' = netChanged
  <1>1. CASE Elsewhere
    BY <1>1, ElsewhereKeeps DEF SavedOutsideEditors
  <1>2. CASE Process
    <2>1. Stays => Page' = Page
      BY DEF Stays, Page, Top
    <2>2. ASSUME Page \notin Editors, kept PROVE SavedOutsideEditors'
      BY <2>2 DEF SavedOutsideEditors, Editors
    <2>3. ASSUME Page' \in Editors PROVE SavedOutsideEditors'
      BY <2>3 DEF SavedOutsideEditors, Editors
    <2>4. ASSUME SaveConfig PROVE SavedOutsideEditors'
      BY <2>4 DEF SavedOutsideEditors, SaveConfig
    <2>5. ASSUME Stay, Page \in Editors PROVE SavedOutsideEditors'
      BY <2>1, <2>3, <2>5, UpdateStays DEF Stay
    <2>6. ASSUME NEW page, NEW arg, ChangePage(page, arg), <<Page, page>> \in Leads, page \in Editors
          PROVE  SavedOutsideEditors'
      BY <2>3, <2>6, ChangePageMoves DEF StructInv
    <2>7. ASSUME Back, Page \in {"channel_settings", "master_settings", "minion_settings"}
          PROVE  SavedOutsideEditors'
      <3>1. <<Page', Page>> \in Leads
        BY <2>7, BackMoves DEF StructInv, Returns
      <3> QED  BY <2>3, <2>7, <3>1 DEF Leads, Editors
    <2>8. CASE Page = "main" /\ ProcessMain
      BY <2>2, <2>8 DEF ProcessMain, OnlyView, NoEdit, config, Editors
    <2>9. CASE Page = "menu" /\ ProcessMenu
      BY <2>2, <2>9 DEF ProcessMenu, OnlyView, NoEdit, config, Editors
    <2>10. CASE Page = "channels" /\ ProcessChannels
      BY <2>4, <2>5, <2>6, <2>10 DEF ProcessChannels, Leads, Editors
    <2>11. CASE Page = "channel_settings" /\ ProcessChannelSettings
      <3>1. CASE AddOrRemove(TheChannel)
        <4>1. PICK s : Update(s)
          BY <3>1 DEF AddOrRemove
        <4> QED  BY <2>3, <2>11, <4>1, UpdateStays DEF Editors
      <3>2. CASE ChangePage(IF Event.number[1] = "master" THEN "master_settings"
                                                          ELSE "minion_settings",
                            <<TheChannel, Event.number[2]>>)
        BY <2>6, <2>11, <3>2 DEF Leads, Editors
      <3> QED  BY <2>5, <2>7, <2>11, <3>1, <3>2 DEF ProcessChannelSettings, Editors
    <2>12. CASE Page \in {"master_settings", "minion_settings"} /\ ProcessDeviceSettings
      BY <2>5, <2>7, <2>12 DEF ProcessDeviceSettings, Editors
    <2>13. CASE Page = "cavi" /\ ProcessCavi
      BY <2>4, <2>5, <2>13 DEF ProcessCavi, Editors
    <2>14. CASE Page = "settings" /\ ProcessSettings
      BY <2>4, <2>5, <2>14 DEF ProcessSettings, Editors
    <2>15. CASE Page = "test" /\ ProcessTest
      BY <2>2, <2>15 DEF ProcessTest, NoEdit, config, Editors
    <2>16. CASE Page = "channel_state" /\ ProcessChannelState
      BY <2>2, <2>16 DEF ProcessChannelState, OnlyView, NoEdit, config, Editors
    <2> QED  BY <1>2, <2>8, <2>9, <2>10, <2>11, <2>12, <2>13, <2>14, <2>15, <2>16 DEF Process
  <1> QED  BY <1>1, <1>2, NextSplit

\* Whatever was changed is saved when the pages that change it have been left
\* (page_channels.c:100-103, page_test.c:107-112).
THEOREM SavedCorrect == Spec => []SavedOutsideEditors
  <1>1. Init => SavedOutsideEditors
    BY DEF Init, SavedOutsideEditors
  <1> QED  BY <1>1, StructHolds, SavedStep, PTL DEF Spec

-----------------------------------------------------------------------------
(* What the pages show.                                                    *)

\* The fields of a screen.
ScreenInv ==
  screen = [leds |-> screen.leds, cables |-> screen.cables, panels |-> screen.panels,
            green |-> screen.green, power |-> screen.power, popup |-> screen.popup,
            pin |-> screen.pin]

\* What the pages that show a state show when they open.
LEMMA DrawnFacts ==
  ASSUME NEW frame
  PROVE  /\ Drawn(frame) = [leds |-> Drawn(frame).leds, cables |-> Drawn(frame).cables,
                            panels |-> Drawn(frame).panels, green |-> Drawn(frame).green,
                            power |-> Drawn(frame).power, popup |-> Drawn(frame).popup,
                            pin |-> Drawn(frame).pin]
         /\ Drawn(frame).green \subseteq {c \in Channel : ChannelOk(c)}
         /\ frame.page = "test" => Drawn(frame).power = powerBits
         /\ frame.page = "main" =>
              /\ Drawn(frame).pin = pin /\ Drawn(frame).cables = cavi
              /\ Drawn(frame).leds = {c \in Channel : Configured(c)}
         /\ frame.page = "channel_state" => Drawn(frame).panels = devices[frame.arg[1]]
  <1> USE DEF Blank
  <1>1. CASE frame.page = "main"
    BY <1>1 DEF Drawn, UpdateMain, DrawMain
  <1>2. CASE frame.page = "channel_settings"
    BY <1>2 DEF Drawn, UpdateDeviceList
  <1>3. CASE frame.page = "channel_state"
    BY <1>3 DEF Drawn, UpdateState, DrawState
  <1>4. CASE frame.page = "test"
    BY <1>4 DEF Drawn, UpdateTest
  <1>5. CASE frame.page \notin {"main", "channel_settings", "channel_state", "test"}
    BY <1>5 DEF Drawn
  <1> QED  BY <1>1, <1>2, <1>3, <1>4, <1>5

\* A page that stays is not one that opens.
LEMMA StaysOrMoves == ~(Stays /\ (Deeper \/ Returns))
  BY DEF Stays, Deeper, Returns, Leads, Page, Top

\* The configuration changes on a page that stays; what is known of the channels does so
\* too, or on the way back to the menu.
LEMMA MovesKeep ==
  ASSUME StructInv, Process, ~Stays
  PROVE  /\ Deeper \/ Returns
         /\ UNCHANGED <<devices, cavi, pin>> /\ (faulty' = faulty \/ Page' = "menu")
  <1>1. Deeper \/ Returns
    BY ProcessMoves DEF StructInv
  <1>2. \A s : ~Update(s)
    BY UpdateStays
  <1>3. ~Stay
    BY <1>2 DEF Stay
  <1>0. ASSUME Back, Page \in {"channels", "cavi", "settings"} PROVE Page' = "menu"
    <2>1. <<Page', Page>> \in Leads
      BY <1>0, BackMoves DEF Returns, StructInv
    <2> QED  BY <1>0, <2>1 DEF Leads
  <1>4. UNCHANGED <<devices, cavi, pin>> /\ (faulty' = faulty \/ Page' = "menu")
    <2>1. CASE Page = "main" /\ ProcessMain
      BY <2>1 DEF ProcessMain, OnlyView, NoEdit, config
    <2>2. CASE Page = "menu" /\ ProcessMenu
      BY <2>2 DEF ProcessMenu, OnlyView, NoEdit, config
    <2>3. CASE Page = "channels" /\ ProcessChannels
      BY <1>0, <1>3, <2>3 DEF ProcessChannels, SaveConfig, NoEdit, config
    <2>4. CASE Page = "channel_settings" /\ ProcessChannelSettings
      BY <1>2, <2>4 DEF ProcessChannelSettings, AddOrRemove, OnlyView, NoEdit, config
    <2>5. CASE Page \in {"master_settings", "minion_settings"} /\ ProcessDeviceSettings
      BY <2>5 DEF ProcessDeviceSettings
    <2>6. CASE Page = "cavi" /\ ProcessCavi
      BY <1>0, <1>3, <2>6 DEF ProcessCavi, SaveConfig, NoEdit, config
    <2>7. CASE Page = "settings" /\ ProcessSettings
      BY <1>0, <1>3, <2>7 DEF ProcessSettings, SaveConfig, NoEdit, config
    <2>8. CASE Page = "test" /\ ProcessTest
      BY <2>8 DEF ProcessTest, NoEdit, config
    <2>9. CASE Page = "channel_state" /\ ProcessChannelState
      BY <2>9 DEF ProcessChannelState, OnlyView, NoEdit, config
    <2> QED  BY <2>1, <2>2, <2>3, <2>4, <2>5, <2>6, <2>7, <2>8, <2>9 DEF Process
  <1> QED  BY <1>1, <1>4

\* What an event does to the main page that stays open.
LEMMA MainStays ==
  ASSUME StructInv, Process, Page = "main", Stays
  PROVE  /\ UNCHANGED <<devices, cavi, pin, faulty, powerBits>>
         /\ \/ screen' = UpdateMain(screen, flags')
            \/ queue[1].code # "MODEL_UPDATE" /\ screen' = screen
            \/ queue[1].code # "MODEL_UPDATE" /\ screen' = [screen EXCEPT !.popup = "hidden"]
            \/ queue[1].code # "MODEL_UPDATE" /\ screen' = [screen EXCEPT !.popup = "shown"]
  <1>1. ASSUME NEW page \in {"menu", "channel_state"}, NEW arg, ChangePage(page, arg) PROVE FALSE
    BY <1>1, ChangePageMoves, StaysOrMoves DEF StructInv, Leads
  <1>2. ProcessMain /\ powerBits' = powerBits
    BY DEF Process
  <1>3. UNCHANGED <<devices, cavi, pin, faulty>>
    BY <1>2 DEF ProcessMain, OnlyView, NoEdit, config
  <1>4. CASE Event.code = "POWER_STATE" /\ flags' = Event.bits /\ Update(UpdateMain(screen, Event.bits))
    BY <1>2, <1>3, <1>4, UpdateStays
  <1>5. CASE Event.code = "MODEL_UPDATE" /\ UNCHANGED flags /\ Update(UpdateMain(screen, flags))
    BY <1>2, <1>3, <1>5, UpdateStays
  <1>6. CASE Event.code # "MODEL_UPDATE" /\ Update([screen EXCEPT !.popup = "hidden"])
    BY <1>2, <1>3, <1>6, UpdateStays DEF Event
  <1>7. CASE Event.code # "MODEL_UPDATE" /\ Update([screen EXCEPT !.popup = "shown"])
    BY <1>2, <1>3, <1>7, UpdateStays DEF Event
  <1>8. CASE Event.code # "MODEL_UPDATE" /\ Stay
    BY <1>2, <1>3, <1>8, UpdateStays DEF Event, Stay
  <1> QED  BY <1>1, <1>2, <1>4, <1>5, <1>6, <1>7, <1>8 DEF ProcessMain, OnlyView, Is

\* What an event does to the page of a channel that stays open.
LEMMA StateStays ==
  ASSUME StructInv, Process, Page = "channel_state", Stays
  PROVE  /\ UNCHANGED <<devices, cavi, pin, faulty, powerBits>>
         /\ \/ screen' = UpdateState(screen, TheChannel)
            \/ queue[1].code # "MODEL_UPDATE" /\ screen' = screen
  <1>1. ~Back
    BY BackMoves, StaysOrMoves DEF StructInv
  <1>2. ProcessChannelState /\ powerBits' = powerBits
    BY DEF Process
  <1>3. UNCHANGED <<devices, cavi, pin, faulty>>
    BY <1>2 DEF ProcessChannelState, OnlyView, NoEdit, config
  <1>4. CASE Update(UpdateState(screen, TheChannel))
    BY <1>2, <1>3, <1>4, UpdateStays
  <1>5. CASE Event.code # "MODEL_UPDATE" /\ Stay
    BY <1>2, <1>3, <1>5, UpdateStays DEF Event, Stay
  <1> QED  BY <1>1, <1>2, <1>4, <1>5 DEF ProcessChannelState, Is

\* What an event does to the test page that stays open.
LEMMA TestStays ==
  ASSUME StructInv, Process, Page = "test", Stays
  PROVE  /\ powerBits' = powerBits
         /\ \/ screen' = UpdateTest(screen)
            \/ queue[1].code # "POWER_STATE" /\ screen' = screen
  <1>1. ~Back
    BY BackMoves, StaysOrMoves DEF StructInv
  <1>2. ProcessTest /\ powerBits' = powerBits
    BY DEF Process
  <1>3. CASE Update(UpdateTest(screen))
    BY <1>2, <1>3, UpdateStays
  <1>4. CASE Event.code # "POWER_STATE" /\ Stay
    BY <1>2, <1>4, UpdateStays DEF Event, Stay
  <1> QED  BY <1>1, <1>2, <1>3, <1>4 DEF ProcessTest, Is

\* The other pages redraw the list of devices at most.
LEMMA OtherStays ==
  ASSUME StructInv, Process, Page \notin {"main", "channel_state", "test"}, Stays
  PROVE  screen' = screen \/ \E t, c : screen' = UpdateDeviceList(screen, t, c)
  <1>1. ~Back
    BY BackMoves, StaysOrMoves DEF StructInv
  <1>2. ASSUME NEW page, NEW arg, ChangePage(page, arg), <<Page, page>> \in Leads PROVE FALSE
    BY <1>2, ChangePageMoves, StaysOrMoves DEF StructInv
  <1>3. CASE Stay
    BY <1>3, UpdateStays DEF Stay
  <1>4. CASE Page = "menu" /\ ProcessMenu
    BY <1>1, <1>2, <1>3, <1>4 DEF ProcessMenu, Leads
  <1>5. CASE Page = "channels" /\ ProcessChannels
    BY <1>1, <1>2, <1>3, <1>5 DEF ProcessChannels, Leads
  <1>6. CASE Page = "channel_settings" /\ ProcessChannelSettings
    <2>1. CASE AddOrRemove(TheChannel)
      BY <2>1, UpdateStays DEF AddOrRemove
    <2>2. CASE ChangePage(IF Event.number[1] = "master" THEN "master_settings"
                                                        ELSE "minion_settings",
                          <<TheChannel, Event.number[2]>>)
      BY <1>2, <1>6, <2>2 DEF Leads
    <2> QED  BY <1>1, <1>3, <1>6, <2>1, <2>2 DEF ProcessChannelSettings
  <1>7. CASE Page \in {"master_settings", "minion_settings"} /\ ProcessDeviceSettings
    BY <1>1, <1>3, <1>7 DEF ProcessDeviceSettings
  <1>8. CASE Page = "cavi" /\ ProcessCavi
    BY <1>1, <1>3, <1>8 DEF ProcessCavi
  <1>9. CASE Page = "settings" /\ ProcessSettings
    BY <1>1, <1>3, <1>9 DEF ProcessSettings
  <1> QED  BY <1>4, <1>5, <1>6, <1>7, <1>8, <1>9 DEF Process

\* What controller_manage puts into the empty queue.
LEMMA ManageFacts ==
  ASSUME StructInv, Manage
  PROVE  /\ queue = <<>> /\ devices' = devices
         /\ \/ \E i \in 1 .. Len(queue') : queue'[i] = ModelUpdate
            \/ faulty' \ faulty \subseteq silent' /\ silent \subseteq silent'
         /\ powerBits' # powerBits =>
              \E i \in 1 .. Len(queue') : queue'[i] = PowerState(powerBits')
  <1> DEFINE power == PowerState(powerBits')
             afterPower == IF powerBits' # powerBits THEN Enqueued(queue, power) ELSE queue
             both == Enqueued(afterPower, ModelUpdate)
  <1>1. queue = <<>> /\ IsSeq(queue) /\ Len(queue) = 0 /\ devices' = devices
    BY DEF Manage, StructInv, QueueInv, config
  <1>2. QueueLength \in Nat /\ QueueLength >= 2
    BY ViewAssumption DEF ViewAssumption
  <1> DEFINE restarted == IF restart = 1 THEN Reset ELSE faulty
  <1>3. PICK reports \in BOOLEAN :
          LET told == reports \/ seenCables # cavi \/ afterTest = 1
          IN /\ faulty' \in IF reports THEN SUBSET Channel ELSE {restarted}
             /\ queue' = IF told THEN both ELSE afterPower
             /\ silent' = IF told THEN {} ELSE silent \cup (restarted \ faulty)
    BY DEF Manage
  <1> HIDE DEF restarted
  <1> HIDE DEF power
  <1>4. IsSeq(afterPower) /\ Len(afterPower) \in Nat /\ Len(afterPower) < QueueLength
    <2>1. IsSeq(Enqueued(queue, power)) /\ Len(Enqueued(queue, power)) \in Nat
          /\ Len(Enqueued(queue, power)) <= Len(queue) + 1
      BY <1>1, EnqueuedFacts
    <2> QED  BY <1>1, <1>2, <2>1
  <1>5. powerBits' # powerBits => \E i \in 1 .. Len(afterPower) : afterPower[i] = power
    <2>1. Len(queue) < QueueLength
      BY <1>1, <1>2
    <2> QED  BY <1>1, <2>1, EnqueuedFacts
  <1> HIDE DEF afterPower
  <1>6. /\ Len(afterPower) + 1 \in 1 .. Len(both) /\ both[Len(afterPower) + 1] = ModelUpdate
        /\ \A i \in 1 .. Len(afterPower) : i \in 1 .. Len(both) /\ both[i] = afterPower[i]
    BY <1>4, EnqueuedFacts
  <1> HIDE DEF both
  <1>7. \/ \E i \in 1 .. Len(queue') : queue'[i] = ModelUpdate
        \/ faulty' \ faulty \subseteq silent' /\ silent \subseteq silent'
    <2>1. CASE queue' = both
      BY <1>6, <2>1
    <2>2. CASE faulty' = restarted /\ silent' = silent \cup (restarted \ faulty)
      BY <2>2
    <2> QED  BY <1>3, <2>1, <2>2
  <1>8. powerBits' # powerBits => \E i \in 1 .. Len(queue') : queue'[i] = power
    BY <1>3, <1>5, <1>6
  <1> QED  BY <1>1, <1>7, <1>8 DEF power

\* No event is lost but by its being handled.
LEMMA QueueGrows ==
  ASSUME StructInv, Elsewhere, NEW i \in 1 .. Len(queue)
  PROVE  i \in 1 .. Len(queue') /\ queue'[i] = queue[i]
  <1>1. ~Manage
    BY ManageFacts
  <1>2. queue' = queue \/ \E e : queue' = Enqueued(queue, e)
    BY <1>1 DEF Elsewhere, Touch, EnterDigits, LinkChange, vars, view, LeaveLvgl, LeaveGui
  <1>3. ASSUME NEW e, queue' = Enqueued(queue, e) PROVE i \in 1 .. Len(queue') /\ queue'[i] = queue[i]
    BY <1>3, EnqueuedFacts DEF StructInv, QueueInv
  <1> QED  BY <1>2, <1>3

LEMMA GreenStep == StructInv /\ ScreenInv /\ GreenIsHealthy /\ [Next]_vars => GreenIsHealthy'
  <1> SUFFICES ASSUME StructInv, ScreenInv, GreenIsHealthy, [Next]_vars,
                      Page' \in {"main", "channel_state"},
                      \A i \in 1 .. Len(queue') : queue'[i] # ModelUpdate
               PROVE  screen'.green \cap faulty' \cap {c \in Channel : Configured(c)'} \subseteq silent'
    BY DEF GreenIsHealthy, ModelUpdate
  <1>1. ASSUME devices' = devices, screen'.green = screen.green,
               faulty' \ faulty \subseteq silent', silent \subseteq silent',
               Page \in {"main", "channel_state"},
               \A i \in 1 .. Len(queue) : queue[i] # ModelUpdate
        PROVE  screen'.green \cap faulty' \cap {c \in Channel : Configured(c)'} \subseteq silent'
    BY <1>1 DEF GreenIsHealthy, Configured
  <1>2. ASSUME UNCHANGED faulty, screen'.green \subseteq {c \in Channel : ChannelOk(c)}
        PROVE  screen'.green \cap faulty' \cap {c \in Channel : Configured(c)'} \subseteq silent'
    BY <1>2 DEF ChannelOk
  <1>3. CASE Elsewhere
    <2>1. Page' = Page /\ screen' = screen /\ devices' = devices
      BY <1>3, ElsewhereKeeps
    <2>2. \A i \in 1 .. Len(queue) : queue[i] # ModelUpdate
      BY <1>3, QueueGrows
    <2>3. faulty' \ faulty \subseteq silent' /\ silent \subseteq silent'
      BY <1>3, ManageFacts DEF Elsewhere, Touch, EnterDigits, LinkChange, vars, LeaveLvgl, LeaveGui,
         status, view
    <2> QED  BY <1>1, <2>1, <2>2, <2>3
  <1>4. CASE Process /\ ~Stays
    <2>1. screen' = Drawn(Top') /\ faulty' = faulty
      BY <1>4, MovesKeep DEF Deeper, Returns, JustOpened
    <2> QED  BY <1>2, <2>1, DrawnFacts
  <1>5. CASE Process /\ Stays
    <2>1. Page' = Page /\ silent' = silent
      BY <1>5 DEF Stays, Page, Top
    <2>2. ASSUME queue[1].code # "MODEL_UPDATE", screen'.green = screen.green,
                 UNCHANGED <<devices, faulty>>
          PROVE  screen'.green \cap faulty' \cap {c \in Channel : Configured(c)'} \subseteq silent'
      <3>1. \A i \in 1 .. Len(queue) : queue[i] # ModelUpdate
        BY <1>5, <2>2, ProcessEvents, StaysOrMoves DEF ModelUpdate
      <3> QED  BY <1>1, <2>1, <2>2, <3>1
    <2>3. CASE Page = "main"
      <3>1. UNCHANGED <<devices, faulty>>
        BY <1>5, <2>3, MainStays
      <3>2. CASE screen' = UpdateMain(screen, flags')
        <4>1. screen'.green = {c \in Channel : Configured(c) /\ ChannelOk(c)}
          BY <3>2 DEF UpdateMain, ScreenInv
        <4> QED  BY <1>2, <3>1, <4>1
      <3>3. CASE queue[1].code # "MODEL_UPDATE" /\ screen'.green = screen.green
        BY <2>2, <3>1, <3>3
      <3>4. screen' = UpdateMain(screen, flags')
            \/ (queue[1].code # "MODEL_UPDATE" /\ screen'.green = screen.green)
        BY <1>5, <2>3, MainStays DEF ScreenInv
      <3> QED  BY <3>2, <3>3, <3>4
    <2>4. CASE Page = "channel_state"
      <3>1. UNCHANGED <<devices, faulty>>
        BY <1>5, <2>4, StateStays
      <3>2. CASE screen' = UpdateState(screen, TheChannel)
        <4>1. screen'.green \subseteq {c \in Channel : ChannelOk(c)}
          BY <3>2 DEF UpdateState, ScreenInv
        <4> QED  BY <1>2, <3>1, <4>1
      <3>3. CASE queue[1].code # "MODEL_UPDATE" /\ screen' = screen
        BY <2>2, <3>1, <3>3
      <3> QED  BY <1>5, <2>4, <3>2, <3>3, StateStays
    <2> QED  BY <2>1, <2>3, <2>4
  <1> QED  BY <1>3, <1>4, <1>5, NextSplit

LEMMA ScreenStep == StructInv /\ ScreenInv /\ [Next]_vars => ScreenInv'
  <1> SUFFICES ASSUME StructInv, ScreenInv, [Next]_vars PROVE ScreenInv'
    OBVIOUS
  <1>1. CASE Elsewhere
    BY <1>1, ElsewhereKeeps DEF ScreenInv
  <1>2. CASE Process /\ ~Stays
    <2>1. screen' = Drawn(Top')
      BY <1>2, MovesKeep DEF Deeper, Returns, JustOpened
    <2> QED  BY <2>1, DrawnFacts DEF ScreenInv
  <1>3. CASE Process /\ Stays
    <2>1. CASE Page = "main"
      BY <1>3, <2>1, MainStays DEF UpdateMain, ScreenInv
    <2>2. CASE Page = "channel_state"
      BY <1>3, <2>2, StateStays DEF UpdateState, ScreenInv
    <2>3. CASE Page = "test"
      BY <1>3, <2>3, TestStays DEF UpdateTest, ScreenInv
    <2>4. CASE Page \notin {"main", "channel_state", "test"}
      <3>1. screen' = screen \/ \E t, c : screen' = UpdateDeviceList(screen, t, c)
        BY <1>3, <2>4, OtherStays
      <3> QED  BY <3>1 DEF UpdateDeviceList, ScreenInv
    <2> QED  BY <2>1, <2>2, <2>3, <2>4
  <1> QED  BY <1>1, <1>2, <1>3, NextSplit

LEMMA ScreenHolds == Spec => []ScreenInv
  <1>1. Init => ScreenInv
    BY DrawnFacts DEF Init, ScreenInv
  <1> QED  BY <1>1, StructHolds, ScreenStep, PTL DEF Spec

\* A report that comes while another page is open, or that a change of page throws
\* away, is not missed: a channel goes on being shown as good after a fault of it is
\* known only if a restart of the connections has made it bad, which raises no event
\* (page_main.c:93-131, page_channel_state.c:275-364, controller.c:95-98, 141-148).
THEOREM GreenCorrect == Spec => []GreenIsHealthy
  <1>1. Init => GreenIsHealthy
    <2> SUFFICES ASSUME Init PROVE GreenIsHealthy
      OBVIOUS
    <2>1. screen = Drawn(stack[1]) /\ connected = 0
      BY DEF Init
    <2>2. screen.green \subseteq {c \in Channel : ChannelOk(c)}
      BY <2>1, DrawnFacts
    <2>3. screen.green = {}
      BY <2>1, <2>2 DEF ChannelOk
    <2> QED  BY <2>3 DEF GreenIsHealthy
  <1> QED  BY <1>1, StructHolds, ScreenHolds, GreenStep, PTL DEF Spec

LEMMA PowerStep == StructInv /\ ScreenInv /\ PowerOnTestPage /\ [Next]_vars => PowerOnTestPage'
  <1> SUFFICES ASSUME StructInv, ScreenInv, PowerOnTestPage, [Next]_vars, Page' = "test",
                      \A i \in 1 .. Len(queue') : queue'[i].code # "POWER_STATE"
               PROVE  screen'.power = powerBits'
    BY DEF PowerOnTestPage
  <1>1. CASE Elsewhere
    <2>1. Page' = Page /\ screen' = screen
      BY <1>1, ElsewhereKeeps
    <2>2. \A i \in 1 .. Len(queue) : queue[i].code # "POWER_STATE"
      BY <1>1, QueueGrows
    <2>3. powerBits' = powerBits
      <3>1. CASE Manage
        BY <3>1, ManageFacts DEF PowerState
      <3>2. CASE ~Manage
        BY <1>1, <3>2 DEF Elsewhere, Touch, EnterDigits, LinkChange, vars, LeaveLvgl, LeaveGui, status
      <3> QED  BY <3>1, <3>2
    <2> QED  BY <2>1, <2>2, <2>3 DEF PowerOnTestPage
  <1>2. CASE Process /\ ~Stays
    <2>1. screen' = Drawn(Top') /\ powerBits' = powerBits
      BY <1>2, MovesKeep DEF Deeper, Returns, JustOpened, Process
    <2>2. Top'.page = "test"
      BY DEF Page
    <2> QED  BY <2>1, <2>2, DrawnFacts
  <1>3. CASE Process /\ Stays
    <2>1. Page' = Page /\ Page = "test"
      BY <1>3 DEF Stays, Page, Top
    <2>2. CASE screen' = UpdateTest(screen)
      BY <1>3, <2>1, <2>2, TestStays DEF UpdateTest, ScreenInv
    <2>3. CASE queue[1].code # "POWER_STATE" /\ screen' = screen
      <3>1. \A i \in 1 .. Len(queue) : queue[i].code # "POWER_STATE"
        BY <1>3, <2>3, ProcessEvents, StaysOrMoves
      <3> QED  BY <1>3, <2>1, <2>3, <3>1, TestStays DEF PowerOnTestPage
    <2> QED  BY <1>3, <2>1, <2>2, <2>3, TestStays
  <1> QED  BY <1>1, <1>2, <1>3, NextSplit

\* The test page shows the power supply as it was last read, unless it is about to be
\* told (page_test.c:94-95, 133-137, controller.c:118-122).
THEOREM PowerCorrect == Spec => []PowerOnTestPage
  <1>1. Init => PowerOnTestPage
    BY DEF Init, PowerOnTestPage, Page, Top
  <1> QED  BY <1>1, StructHolds, ScreenHolds, PowerStep, PTL DEF Spec

-----------------------------------------------------------------------------
(* The password.                                                           *)

\* The popup compares with the password as it is, and the event that opens the menu is in
\* the queue after the right digits only.
LockInv ==
  Page = "main" =>
    /\ screen.pin = pin
    /\ \A i \in 1 .. Len(queue) :
         queue[i].code = "LVGL" /\ queue[i].event = "APPLY" => unlocked = 1

LEMMA LockStep == StructInv /\ ScreenInv /\ LockInv /\ [Next]_vars => LockInv'
  <1> SUFFICES ASSUME StructInv, ScreenInv, LockInv, [Next]_vars, Page' = "main"
               PROVE  /\ screen'.pin = pin'
                      /\ \A i \in 1 .. Len(queue') :
                           queue'[i].code = "LVGL" /\ queue'[i].event = "APPLY" => unlocked' = 1
    BY DEF LockInv
  <1>1. CASE Elsewhere
    <2>1. Page = "main" /\ screen' = screen /\ pin' = pin /\ screen.pin = pin
      BY <1>1, ElsewhereKeeps DEF LockInv
    <2>2. unlocked' = unlocked \/ EnterDigits
      BY <1>1 DEF Elsewhere, Touch, LinkChange, vars, view, LeaveLvgl, LeaveGui, Manage
    <2>3. EnterDigits => unlocked' = unlocked \/ unlocked' = 1
      BY DEF EnterDigits
    <2>4. EnterDigits /\ queue' # queue => unlocked' = 1
      BY <2>1 DEF EnterDigits, DigitsMatch
    <2>5. ASSUME NEW i \in 1 .. Len(queue'), queue'[i].code = "LVGL", queue'[i].event = "APPLY"
          PROVE  unlocked' = 1
      <3>1. CASE i \in 1 .. Len(queue) /\ queue'[i] = queue[i]
        BY <2>1, <2>2, <2>3, <2>5, <3>1 DEF LockInv
      <3>2. CASE queue'[i] \in {ModelUpdate, PowerState(powerBits')}
        BY <2>5, <3>2 DEF ModelUpdate, PowerState
      <3>3. CASE Touch /\ \E w \in Widgets : queue'[i] = LvglEvent(w[1], w[2], w[3])
        <4>1. PICK w \in Widgets : queue'[i] = LvglEvent(w[1], w[2], w[3])
          BY <3>3
        <4>2. w[1] = "CLICKED"
          BY <2>1 DEF Widgets, MainWidgets
        <4> QED  BY <2>5, <4>1, <4>2 DEF LvglEvent
      <3>4. CASE EnterDigits /\ queue' # queue
        BY <2>4, <3>4
      <3> QED  BY <1>1, <3>1, <3>2, <3>3, <3>4, ElsewhereEvents
    <2> QED  BY <2>1, <2>5
  <1>2. CASE Process /\ ~Stays
    <2>1. screen' = Drawn(Top') /\ queue' = <<OpenEvent>> /\ pin' = pin
      BY <1>2, MovesKeep DEF Deeper, Returns, JustOpened
    <2>2. Top'.page = "main"
      BY DEF Page
    <2>3. screen'.pin = pin
      BY <2>1, <2>2, DrawnFacts
    <2> QED  BY <2>1, <2>3 DEF OpenEvent
  <1>3. CASE Process /\ Stays
    <2>1. Page = "main" /\ unlocked' = unlocked
      BY <1>3 DEF Stays, Page, Top
    <2>2. screen'.pin = screen.pin /\ pin' = pin
      BY <1>3, <2>1, MainStays DEF UpdateMain, ScreenInv
    <2>3. \A i \in 1 .. Len(queue') : i + 1 \in 1 .. Len(queue) /\ queue'[i] = queue[i + 1]
      BY <1>3, ProcessEvents, StaysOrMoves
    <2> QED  BY <2>1, <2>2, <2>3 DEF LockInv
  <1> QED  BY <1>1, <1>2, <1>3, NextSplit

\* Whoever opens the menu with a password set has typed it since the main page was opened
\* (page_main.c:205-262, common.c:58-97).
THEOREM LockCorrect == Spec => MenuIsLocked
  <1>1. Init => LockInv
    <2> SUFFICES ASSUME Init PROVE LockInv
      OBVIOUS
    <2>1. stack[1].page = "main" /\ screen = Drawn(stack[1]) /\ queue = <<OpenEvent>>
      BY DEF Init
    <2>2. screen.pin = pin
      BY <2>1, DrawnFacts
    <2> QED  BY <2>1, <2>2 DEF LockInv, OpenEvent
  <1>2. StructInv /\ LockInv /\ [Next]_vars
          => [Page = "main" /\ Page' = "menu" => pin = 0 \/ unlocked = 1]_vars
    <2> SUFFICES ASSUME StructInv, LockInv, [Next]_vars, Page = "main", Page' = "menu"
                 PROVE  pin = 0 \/ unlocked = 1
      OBVIOUS
    <2>1. Process /\ ProcessMain /\ queue # <<>> /\ ~Stays
      BY NextSplit, ElsewhereKeeps DEF Process, Stays, Page, Top
    <2>2. \A s : ~Update(s)
      BY <2>1, UpdateStays
    <2>3. Is("APPLY", "PASSWORD_POPUP") \/ pin = 0
      <3>1. ASSUME NEW arg, ChangePage("channel_state", arg) PROVE FALSE
        BY <3>1, ChangePageMoves DEF StructInv, Leads
      <3> QED  BY <2>1, <2>2, <3>1 DEF ProcessMain, Stay
    <2>4. 1 \in 1 .. Len(queue)
      BY <2>1, TailFacts DEF StructInv, QueueInv
    <2> QED  BY <2>3, <2>4 DEF LockInv, Is, Event
  <1> QED  BY <1>1, <1>2, StructHolds, ScreenHolds, LockStep, PTL DEF Spec, MenuIsLocked

-----------------------------------------------------------------------------
(* Types, and the widgets.                                                 *)

\* What an event carries names a widget of the page it comes from.
EventOK(e) ==
  /\ e.code = "POWER_STATE" => e.bits \in PowerInputs
  /\ e.code = "LVGL" =>
       /\ e.id \in {"CHANNEL_LED", "CHANNEL_BTN"} => \E c \in Channel : e.number = <<c>>
       /\ e.id = "CABLE_CB" => \E c \in Cable : e.number = <<c>>
       /\ e.id = "DEL_BTN" => e.number[2] \in Nat \ {0}

EventInv == \A i \in 1 .. Len(queue) : EventOK(queue[i])

\* The pages of a channel know which.
FrameInv ==
  \A i \in 1 .. Len(stack) :
    stack[i].page \in {"channel_settings", "channel_state"} => stack[i].arg[1] \in Channel

\* The lists of the channels keep their limits.
ConfigInv ==
  /\ devices \in [Channel -> [Kind -> Nat]]
  /\ \A c \in Channel, k \in Kind : devices[c][k] <= Limit[k]
  /\ cavi \subseteq Cable /\ pin \in Pins /\ toSave \in 0 .. 1 /\ netChanged \in 0 .. 1
  /\ faulty \subseteq Channel

RestInv ==
  /\ Len(queue) <= QueueLength /\ main \in {"lvgl", "gui", "manage"}
  /\ powerBits \in PowerInputs \cup {0} /\ flags \in PowerInputs \cup {0}
  /\ linked \in 0 .. 1 /\ connected \in 0 .. 1
  /\ test \in 0 .. 1 /\ afterTest \in 0 .. 1 /\ unlocked \in 0 .. 1
  /\ restart \in 0 .. 1 /\ silent \subseteq Channel

ShownInv ==
  /\ screen.leds \cup screen.green \subseteq Channel /\ screen.cables \subseteq Cable
  /\ screen.power \in PowerInputs \cup {0}

LEMMA PagesOfStack ==
  ASSUME StackInv
  PROVE  /\ Len(stack) \in Nat \ {0} /\ Page \in Pages
         /\ \A i \in 1 .. Len(stack) : stack[i].page \in Pages
  <1>1. Len(stack) \in Nat \ {0}
    BY DEF StackInv, IsSeq
  <1>2. ASSUME NEW i \in 1 .. Len(stack) PROVE stack[i].page \in Pages
    <2>1. CASE i = 1
      BY <2>1 DEF StackInv, Pages
    <2>2. CASE i \in 2 .. Len(stack)
      BY <2>2 DEF StackInv, Leads, Pages
    <2> QED  BY <2>1, <2>2
  <1> QED  BY <1>1, <1>2 DEF Page, Top

LEMMA WidgetNumbers ==
  ASSUME StackInv, ShownInv, NEW w \in Widgets
  PROVE  EventOK(LvglEvent(w[1], w[2], w[3]))
  <1>1. ASSUME w \in BackButton PROVE w[2] = "BACK_BTN"
    BY <1>1 DEF BackButton
  <1>2. ASSUME NEW event, NEW id, w \in DeviceWidgets(event, id)
        PROVE  w[2] = id /\ w[3][2] \in Nat \ {0}
    <2>1. PICK k \in Kind : \E j \in 1 .. screen.panels[k] : w = <<event, id, <<k, j>> >>
      BY <1>2 DEF DeviceWidgets
    <2>2. PICK j \in 1 .. screen.panels[k] : w = <<event, id, <<k, j>> >>
      BY <2>1
    <2> QED  BY <2>2
  <1>3. \/ w[2] \notin {"CHANNEL_LED", "CHANNEL_BTN", "CABLE_CB", "DEL_BTN"}
        \/ w[2] \in {"CHANNEL_LED", "CHANNEL_BTN"} /\ \E c \in Channel : w[3] = <<c>>
        \/ w[2] = "CABLE_CB" /\ \E c \in Cable : w[3] = <<c>>
        \/ w[2] = "DEL_BTN" /\ w[3][2] \in Nat \ {0}
    <2>1. CASE w \in BackButton
      BY <1>1, <2>1
    <2>2. CASE w \in MainWidgets
      BY <2>2 DEF MainWidgets, ShownInv
    <2>3. CASE w \in MenuWidgets
      BY <2>3 DEF MenuWidgets
    <2>4. CASE w \in ChannelsWidgets
      BY <2>4 DEF ChannelsWidgets
    <2>5. CASE w \in ChannelSettingsWidgets
      BY <1>2, <2>5 DEF ChannelSettingsWidgets
    <2>6. CASE w \in DeviceSettingsWidgets \cup SettingsWidgets \cup TestWidgets
      BY <2>6 DEF DeviceSettingsWidgets, SettingsWidgets, TestWidgets
    <2>7. CASE w \in CaviWidgets
      BY <2>7 DEF CaviWidgets
    <2>8. CASE w \in ChannelStateWidgets
      BY <1>2, <2>8 DEF ChannelStateWidgets
    <2> QED  BY <2>1, <2>2, <2>3, <2>4, <2>5, <2>6, <2>7, <2>8, PagesOfStack DEF Widgets, Pages
  <1>4. LvglEvent(w[1], w[2], w[3]).code = "LVGL" /\ LvglEvent(w[1], w[2], w[3]).id = w[2]
        /\ LvglEvent(w[1], w[2], w[3]).number = w[3]
    BY DEF LvglEvent
  <1> QED  BY <1>3, <1>4 DEF EventOK

TypesInv == EventInv /\ FrameInv /\ ConfigInv /\ RestInv /\ ShownInv

LEMMA EventStep ==
  ASSUME StructInv, TypesInv, [Next]_vars
  PROVE  EventInv'
  <1> SUFFICES ASSUME NEW i \in 1 .. Len(queue') PROVE EventOK(queue'[i])
    BY DEF EventInv, EventOK
  <1>1. CASE Elsewhere
    <2>1. CASE i \in 1 .. Len(queue) /\ queue'[i] = queue[i]
      BY <2>1 DEF TypesInv, EventInv
    <2>2. CASE Manage /\ queue'[i] \in {ModelUpdate, PowerState(powerBits')}
      BY <2>2 DEF Manage, ModelUpdate, PowerState, EventOK
    <2>3. CASE \E w \in Widgets : queue'[i] = LvglEvent(w[1], w[2], w[3])
      BY <2>3, WidgetNumbers DEF StructInv, TypesInv
    <2>4. CASE queue'[i] = LvglEvent("APPLY", "PASSWORD_POPUP", <<>>)
      BY <2>4 DEF LvglEvent, EventOK
    <2> QED  BY <1>1, <2>1, <2>2, <2>3, <2>4, ElsewhereEvents
  <1>2. CASE Process
    <2>1. CASE Len(queue') = 1 /\ queue'[1] = OpenEvent
      <3>1. i = 1
        BY <2>1
      <3> QED  BY <2>1, <3>1 DEF OpenEvent, EventOK
    <2>2. CASE i + 1 \in 1 .. Len(queue) /\ queue'[i] = queue[i + 1]
      BY <2>2 DEF TypesInv, EventInv
    <2> QED  BY <1>2, <2>1, <2>2, ProcessEvents
  <1> QED  BY <1>1, <1>2, NextSplit

\* The page of a channel is opened by a widget that carries its number.
LEMMA FrameStep ==
  ASSUME StructInv, TypesInv, [Next]_vars
  PROVE  FrameInv'
  <1>1. CASE stack' = stack
    BY <1>1 DEF TypesInv, FrameInv
  <1>2. CASE Process /\ Back /\ Page # "main"
    <2>1. PICK S : stack \in Seq(S)
      BY DEF StructInv, StackInv, IsSeq
    <2>2. Len(stack) \in Nat \ {0} /\ stack' = SubSeq(stack, 1, Len(stack) - 1)
      BY <1>2, PagesOfStack DEF Back, Opening, StructInv
    <2>3. \A i \in 1 .. Len(stack') : i \in 1 .. Len(stack) /\ stack'[i] = stack[i]
      BY <2>1, <2>2
    <2> QED  BY <2>3 DEF TypesInv, FrameInv
  <1>3. ASSUME NEW page, NEW arg, Process, Opens(page, arg) PROVE FrameInv'
    <2> DEFINE frame == [page |-> page, arg |-> arg]
    <2>1. stack' = Append(stack, frame) /\ IsSeq(stack)
      BY <1>3 DEF Opens, ChangePage, Opening, StructInv, StackInv
    <2>2. \A i \in 1 .. Len(stack') :
            (i \in 1 .. Len(stack) /\ stack'[i] = stack[i]) \/ stack'[i] = frame
      <3>1. \A i \in 1 .. Len(stack) + 1 : i \in 1 .. Len(stack) \/ i = Len(stack) + 1
        BY <2>1, AppendFacts
      <3> QED  BY <2>1, <3>1, AppendFacts
    <2>3. 1 \in 1 .. Len(queue)
      BY <1>3, TailFacts DEF Process, StructInv, QueueInv
    <2>4. page \in {"channel_settings", "channel_state"} => arg[1] \in Channel
      BY <1>3, <2>3 DEF Opens, Is, Event, TypesInv, EventInv, EventOK
    <2>5. frame.page \in {"channel_settings", "channel_state"} => frame.arg[1] \in Channel
      BY <2>4
    <2> HIDE DEF frame
    <2> QED  BY <2>2, <2>5 DEF TypesInv, FrameInv
  <1>4. CASE Elsewhere
    BY <1>1, <1>4, ElsewhereKeeps
  <1>5. CASE Process /\ Stays
    BY <1>1, <1>5 DEF Stays
  <1> QED  BY <1>2, <1>3, <1>4, <1>5, NextSplit, ProcessSteps

\* What the button of a list does to the lists.
LEMMA ListTypes ==
  ASSUME ConfigInv, NEW c \in Channel, NEW k \in Kind
  PROVE  /\ Added(c, k) \in [Channel -> [Kind -> Nat]]
         /\ \A d \in Channel, l \in Kind : Added(c, k)[d][l] <= Limit[l]
         /\ \A j \in Nat \ {0} :
              /\ Removed(c, k, j) \in [Channel -> [Kind -> Nat]]
              /\ \A d \in Channel, l \in Kind : Removed(c, k, j)[d][l] <= Limit[l]
  <1>1. Limit[k] \in Nat
    BY ViewAssumption DEF ViewAssumption, Limit, Kind
  <1> USE <1>1 DEF ConfigInv
  <1>2. ASSUME NEW n \in Nat, n <= Limit[k]
        PROVE  /\ [devices EXCEPT ![c][k] = n] \in [Channel -> [Kind -> Nat]]
               /\ \A d \in Channel, l \in Kind : [devices EXCEPT ![c][k] = n][d][l] <= Limit[l]
    <2>1. [devices EXCEPT ![c][k] = n] = [devices EXCEPT ![c] = [devices[c] EXCEPT ![k] = n]]
      OBVIOUS
    <2>2. [devices[c] EXCEPT ![k] = n] \in [Kind -> Nat]
      OBVIOUS
    <2> QED  BY <1>2, <2>1, <2>2
  <1>3. devices[c][k] \in Nat
    OBVIOUS
  <1>4. Added(c, k) = devices \/ (devices[c][k] + 1 <= Limit[k]
          /\ Added(c, k) = [devices EXCEPT ![c][k] = devices[c][k] + 1])
    BY <1>3 DEF Added
  <1>5. ASSUME NEW j \in Nat \ {0}
        PROVE  Removed(c, k, j) = devices \/ (devices[c][k] - 1 \in Nat
                 /\ Removed(c, k, j) = [devices EXCEPT ![c][k] = devices[c][k] - 1])
    BY <1>3, <1>5 DEF Removed
  <1>6. devices[c][k] - 1 <= Limit[k] /\ devices[c][k] <= Limit[k]
    BY <1>3
  <1> QED  BY <1>2, <1>3, <1>4, <1>5, <1>6

LEMMA ConfigStep ==
  ASSUME StructInv, TypesInv, [Next]_vars
  PROVE  ConfigInv'
  <1>1. CASE UNCHANGED <<config, faulty>>
    BY <1>1 DEF TypesInv, ConfigInv, config
  <1>2. CASE UNCHANGED <<devices, cavi, pin>> /\ faulty' \in {faulty, Reset}
             /\ toSave' \in {0, 1, toSave} /\ netChanged' \in {0, 1, netChanged}
    BY <1>2 DEF TypesInv, ConfigInv, Reset
  <1>3. CASE Elsewhere
    <2>1. UNCHANGED config
      BY <1>3, ElsewhereKeeps DEF config
    <2>2. faulty' = faulty \/ faulty' = Reset \/ faulty' \subseteq Channel
      BY <1>3 DEF Elsewhere, Touch, EnterDigits, LinkChange, vars, LeaveLvgl, LeaveGui, Manage, status
    <2> QED  BY <2>1, <2>2 DEF TypesInv, ConfigInv, config, Reset
  <1>4. ASSUME Process PROVE EventOK(Event)
    <2>1. 1 \in 1 .. Len(queue)
      BY <1>4, TailFacts DEF Process, StructInv, QueueInv
    <2> QED  BY <2>1 DEF Event, TypesInv, EventInv
  <1>5. CASE Process
    <2>1. CASE Page = "main" /\ ProcessMain
      BY <1>1, <2>1 DEF ProcessMain, OnlyView, NoEdit
    <2>2. CASE Page = "menu" /\ ProcessMenu
      BY <1>1, <2>2 DEF ProcessMenu, OnlyView, NoEdit
    <2>3. CASE Page = "channels" /\ ProcessChannels
      BY <1>1, <1>2, <2>3 DEF ProcessChannels, SaveConfig, NoEdit
    <2>4. CASE Page = "channel_settings" /\ AddOrRemove(TheChannel)
      <3>1. TheChannel \in Channel
        BY <2>4, PagesOfStack DEF TheChannel, Top, Page, TypesInv, FrameInv, StructInv
      <3>2. PICK k \in Kind :
              \/ devices' = Added(TheChannel, k)
              \/ Is("LONG_PRESSED", "DEL_BTN") /\ devices' = Removed(TheChannel, k, Event.number[2])
        BY <2>4 DEF AddOrRemove
      <3>3. Is("LONG_PRESSED", "DEL_BTN") => Event.number[2] \in Nat \ {0}
        BY <1>4, <1>5 DEF EventOK, Is
      <3>4. devices' \in [Channel -> [Kind -> Nat]]
            /\ \A d \in Channel, l \in Kind : devices'[d][l] <= Limit[l]
        <4>1. CASE devices' = Added(TheChannel, k)
          BY <3>1, <4>1, ListTypes DEF TypesInv
        <4>2. CASE Is("LONG_PRESSED", "DEL_BTN") /\ devices' = Removed(TheChannel, k, Event.number[2])
          <5> DEFINE j == Event.number[2]
          <5>1. j \in Nat \ {0} /\ devices' = Removed(TheChannel, k, j)
            BY <3>3, <4>2
          <5> HIDE DEF j
          <5> QED  BY <3>1, <5>1, ListTypes DEF TypesInv
        <4> QED  BY <3>2, <4>1, <4>2
      <3>5. UNCHANGED <<cavi, pin>> /\ toSave' = 1 /\ netChanged' = 1
            /\ faulty' \in {faulty \cup {TheChannel}, faulty \ {TheChannel}}
        BY <2>4 DEF AddOrRemove, NetworkEdited
      <3>6. \A d \in Channel, l \in Kind : devices'[d][l] <= Limit'[l]
        BY <3>4 DEF Limit
      <3> QED  BY <3>1, <3>4, <3>5 DEF TypesInv, ConfigInv
    <2>5. CASE Page = "channel_settings" /\ ProcessChannelSettings /\ ~AddOrRemove(TheChannel)
      BY <1>1, <2>5 DEF ProcessChannelSettings, OnlyView, NoEdit
    <2>6. CASE Page \in {"master_settings", "minion_settings"} /\ ProcessDeviceSettings
      BY <1>2, <2>6 DEF ProcessDeviceSettings, NetworkEdited
    <2>7. CASE Page = "cavi" /\ ProcessCavi
      <3>1. CASE /\ Is("VALUE_CHANGED", "CABLE_CB")
                 /\ cavi' \in {cavi \cup {Event.number[1]}, cavi \ {Event.number[1]}} /\ toSave' = 1
                 /\ UNCHANGED <<devices, pin, netChanged, faulty>>
        <4>1. Event.number[1] \in Cable
          BY <1>4, <1>5, <3>1 DEF EventOK, Is
        <4> QED  BY <3>1, <4>1 DEF TypesInv, ConfigInv
      <3>2. CASE SaveConfig
        BY <1>2, <3>2 DEF SaveConfig
      <3>3. CASE UNCHANGED <<config, faulty>>
        BY <1>1, <3>3
      <3> QED  BY <2>7, <3>1, <3>2, <3>3 DEF ProcessCavi, NoEdit
    <2>8. CASE Page = "settings" /\ ProcessSettings
      <3>1. CASE pin' \in Pins /\ toSave' = 1 /\ UNCHANGED <<devices, cavi, netChanged, faulty>>
        BY <3>1 DEF TypesInv, ConfigInv
      <3> QED  BY <1>1, <1>2, <2>8, <3>1 DEF ProcessSettings, SaveConfig, NetworkEdited, NoEdit
    <2>9. CASE Page = "test" /\ ProcessTest
      BY <1>1, <2>9 DEF ProcessTest, NoEdit
    <2>10. CASE Page = "channel_state" /\ ProcessChannelState
      BY <1>1, <2>10 DEF ProcessChannelState, OnlyView, NoEdit
    <2> QED  BY <1>5, <2>1, <2>2, <2>3, <2>4, <2>5, <2>6, <2>7, <2>8, <2>9, <2>10 DEF Process
  <1> QED  BY <1>3, <1>5, NextSplit

LEMMA RestStep ==
  ASSUME StructInv, TypesInv, [Next]_vars
  PROVE  RestInv'
  <1> USE DEF RestInv, TypesInv
  <1>0. QueueLength \in Nat /\ QueueLength >= 2 /\ Len(queue) \in Nat /\ Len(queue) <= QueueLength
    BY ViewAssumption, AppendFacts DEF ViewAssumption, StructInv, QueueInv
  <1>1. Len(queue') <= QueueLength
    <2>1. CASE Process
      <3>1. CASE queue' = Tail(queue)
        <4>1. Len(queue') = Len(queue) - 1
          BY <2>1, <3>1, TailFacts DEF Process, StructInv, QueueInv
        <4> HIDE DEF RestInv, TypesInv
        <4> QED  BY <1>0, <4>1
      <3>2. CASE Len(queue') = 1
        <4> HIDE DEF RestInv, TypesInv
        <4> QED  BY <1>0, <3>2
      <3> QED  BY <2>1, <3>1, <3>2, ProcessEvents DEF Stays
    <2>2. CASE Elsewhere /\ ~Manage
      <3>1. queue' = queue \/ \E e : queue' = Enqueued(queue, e)
        BY <2>2 DEF Elsewhere, Touch, EnterDigits, LinkChange, vars, view, LeaveLvgl, LeaveGui
      <3>2. ASSUME NEW e PROVE Len(Enqueued(queue, e)) <= QueueLength
        BY <1>0, EnqueuedFacts DEF StructInv, QueueInv
      <3> QED  BY <1>0, <3>1, <3>2
    <2>3. CASE Manage
      <3> DEFINE first == Enqueued(queue, PowerState(powerBits'))
      <3>1. IsSeq(first) /\ Len(first) <= QueueLength
        BY <1>0, EnqueuedFacts DEF StructInv, QueueInv
      <3>2. queue' \in {queue, first, Enqueued(queue, ModelUpdate), Enqueued(first, ModelUpdate)}
        BY <2>3 DEF Manage
      <3> HIDE DEF first
      <3> QED  BY <1>0, <3>1, <3>2, EnqueuedFacts DEF StructInv, QueueInv
    <2> QED  BY <2>1, <2>2, <2>3, NextSplit
  <1>2. main' \in {"lvgl", "gui", "manage"} /\ linked' \in 0 .. 1 /\ connected' \in 0 .. 1
        /\ powerBits' \in PowerInputs \cup {0} /\ restart' \in 0 .. 1
    BY DEF Next, MainLoop, LeaveLvgl, Process, LeaveGui, Manage, Touch, EnterDigits, LinkChange,
       vars, status, network
  <1>3. flags' \in PowerInputs \cup {0}
    <2>1. CASE Elsewhere
      BY <2>1, ElsewhereKeeps
    <2>2. CASE Process
      <3>1. 1 \in 1 .. Len(queue)
        BY <2>2, TailFacts DEF Process, StructInv, QueueInv
      <3>2. EventOK(Event)
        BY <3>1 DEF Event, EventInv
      <3>3. flags' = flags \/ (Event.code = "POWER_STATE" /\ flags' = Event.bits)
        BY <2>2 DEF Process, ProcessMain, ProcessMenu, ProcessChannels, ProcessChannelSettings,
           AddOrRemove, ProcessDeviceSettings, ProcessCavi, ProcessSettings, ProcessTest,
           ProcessChannelState, OnlyView
      <3> QED  BY <3>2, <3>3 DEF EventOK
    <2> QED  BY <2>1, <2>2, NextSplit
  <1>4. test' \in 0 .. 1 /\ afterTest' \in 0 .. 1
    <2>1. CASE Elsewhere
      BY <2>1 DEF Elsewhere, Touch, EnterDigits, LinkChange, vars, LeaveLvgl, LeaveGui, Manage, testing
    <2>2. CASE Process /\ Page # "test"
      BY <2>2 DEF Process, ProcessMain, ProcessMenu, ProcessChannels, ProcessChannelSettings,
         AddOrRemove, ProcessDeviceSettings, ProcessCavi, ProcessSettings, ProcessChannelState,
         OnlyView, NoCommand, testing
    <2>3. CASE Process /\ Page = "test"
      BY <2>3 DEF Process, ProcessTest, SetTest, NoCommand, testing
    <2> QED  BY <2>1, <2>2, <2>3, NextSplit
  <1>5. unlocked' \in 0 .. 1
    <2>1. CASE Elsewhere
      BY <2>1 DEF Elsewhere, Touch, EnterDigits, LinkChange, vars, view, LeaveLvgl, LeaveGui, Manage
    <2>2. CASE Process
      BY <2>2, ProcessMoves DEF Stays, Deeper, Returns, JustOpened, StructInv
    <2> QED  BY <2>1, <2>2, NextSplit
  <1>6. silent' \subseteq Channel
    <2>1. CASE Elsewhere /\ ~Manage
      BY <2>1 DEF Elsewhere, Touch, EnterDigits, LinkChange, vars, view, LeaveLvgl, LeaveGui
    <2>2. CASE Manage
      BY <2>2 DEF Manage, Reset, ConfigInv
    <2>3. CASE Process
      BY <2>3, ProcessMoves DEF Stays, Deeper, Returns, JustOpened, StructInv
    <2> QED  BY <2>1, <2>2, <2>3, NextSplit
  <1> QED  BY <1>1, <1>2, <1>3, <1>4, <1>5, <1>6

LEMMA DrawnTypes ==
  ASSUME ConfigInv, RestInv, NEW frame
  PROVE  /\ Drawn(frame).leds \cup Drawn(frame).green \subseteq Channel
         /\ Drawn(frame).cables \subseteq Cable /\ Drawn(frame).power \in PowerInputs \cup {0}
  <1> USE DEF Blank, ConfigInv, RestInv
  <1>1. CASE frame.page = "main"
    BY <1>1 DEF Drawn, UpdateMain, DrawMain
  <1>2. CASE frame.page = "channel_settings"
    BY <1>2 DEF Drawn, UpdateDeviceList
  <1>3. CASE frame.page = "channel_state"
    BY <1>3 DEF Drawn, UpdateState, DrawState
  <1>4. CASE frame.page = "test"
    BY <1>4 DEF Drawn, UpdateTest
  <1>5. CASE frame.page \notin {"main", "channel_settings", "channel_state", "test"}
    BY <1>5 DEF Drawn
  <1> QED  BY <1>1, <1>2, <1>3, <1>4, <1>5

LEMMA ShownStep ==
  ASSUME StructInv, ScreenInv, TypesInv, [Next]_vars
  PROVE  ShownInv'
  <1>1. CASE Elsewhere
    BY <1>1, ElsewhereKeeps DEF TypesInv, ShownInv
  <1>2. CASE Process /\ ~Stays
    <2>1. screen' = Drawn(Top')
      BY <1>2, MovesKeep DEF Deeper, Returns, JustOpened
    <2> QED  BY <2>1, DrawnTypes DEF TypesInv, ShownInv
  <1>3. CASE Process /\ Stays
    <2>1. flags' \in PowerInputs \cup {0} /\ powerBits \in PowerInputs \cup {0}
      BY RestStep DEF RestInv, TypesInv
    <2>2. CASE Page = "main"
      BY <1>3, <2>1, <2>2, MainStays DEF UpdateMain, ScreenInv, ShownInv, TypesInv
    <2>3. CASE Page = "channel_state"
      BY <1>3, <2>3, StateStays DEF UpdateState, ScreenInv, ShownInv, TypesInv
    <2>4. CASE Page = "test"
      BY <1>3, <2>1, <2>4, TestStays DEF UpdateTest, ScreenInv, ShownInv, TypesInv
    <2>5. CASE Page \notin {"main", "channel_state", "test"}
      <3>1. screen' = screen \/ \E t, c : screen' = UpdateDeviceList(screen, t, c)
        BY <1>3, <2>5, OtherStays
      <3> QED  BY <3>1 DEF UpdateDeviceList, ScreenInv, ShownInv, TypesInv
    <2> QED  BY <2>2, <2>3, <2>4, <2>5
  <1> QED  BY <1>1, <1>2, <1>3, NextSplit

LEMMA TypesInit == Init => TypesInv
  <1> SUFFICES ASSUME Init PROVE TypesInv
    OBVIOUS
  <1>1. EventInv
    BY DEF Init, EventInv, EventOK, OpenEvent
  <1>2. FrameInv
    BY DEF Init, FrameInv
  <1>3. ConfigInv
    <2>1. \A k \in Kind : Limit[k] \in Nat
      BY ViewAssumption DEF ViewAssumption, Limit, Kind
    <2>2. devices \in [Channel -> [Kind -> Nat]] /\ \A c \in Channel, k \in Kind : devices[c][k] <= Limit[k]
      BY ViewAssumption DEF ViewAssumption, Init
    <2> QED  BY <2>2 DEF Init, ConfigInv
  <1>4. RestInv
    BY ViewAssumption DEF ViewAssumption, Init, RestInv
  <1>5. ShownInv
    <2>1. screen = Drawn(stack[1])
      BY DEF Init
    <2> QED  BY <1>3, <1>4, <2>1, DrawnTypes DEF ShownInv
  <1> QED  BY <1>1, <1>2, <1>3, <1>4, <1>5 DEF TypesInv

LEMMA TypesHold == Spec => []TypesInv
  <1>1. StructInv /\ ScreenInv /\ TypesInv /\ [Next]_vars => TypesInv'
    BY EventStep, FrameStep, ConfigStep, RestStep, ShownStep DEF TypesInv
  <1> QED  BY <1>1, TypesInit, StructHolds, ScreenHolds, PTL DEF Spec

\* The variables keep their types; in particular no list of a channel outgrows its limit,
\* however many touches of its buttons are waiting (channel.c:63-131).
THEOREM TypeCorrect == Spec => []TypeOK
  <1>1. StructInv /\ TypesInv => TypeOK
    <2> SUFFICES ASSUME StructInv, TypesInv PROVE TypeOK
      OBVIOUS
    <2>1. stack # <<>> /\ \A i \in 1 .. Len(stack) : stack[i].page \in Pages
      BY PagesOfStack DEF StructInv, StackInv
    <2>2. \A c \in Channel, k \in Kind : devices[c][k] \in 0 .. Limit[k]
      <3>1. \A k \in Kind : Limit[k] \in Nat
        BY ViewAssumption DEF ViewAssumption, Limit, Kind
      <3> QED  BY <3>1 DEF TypesInv, ConfigInv
    <2> QED  BY <2>1, <2>2 DEF TypesInv, ConfigInv, RestInv, ShownInv, TypeOK
  <1> QED  BY <1>1, StructHolds, TypesHold, PTL

LEMMA WidgetsStep ==
  StructInv /\ ScreenInv /\ TypesInv /\ TypesInv' /\ WidgetsCover /\ [Next]_vars => WidgetsCover'
  <1> SUFFICES ASSUME StructInv, ScreenInv, TypesInv, TypesInv', WidgetsCover, [Next]_vars
               PROVE  WidgetsCover'
    OBVIOUS
  <1>1. CASE Elsewhere
    BY <1>1, ElsewhereKeeps DEF WidgetsCover, TheChannel, Configured
  <1>2. CASE Process /\ ~Stays
    <2>1. screen' = Drawn(Top') /\ UNCHANGED <<devices, cavi>> /\ StackInv'
      BY <1>2, MovesKeep DEF Deeper, Returns, JustOpened
    <2>2. CASE Page' = "main"
      <3>1. screen'.leds = {c \in Channel : Configured(c)} /\ screen'.cables = cavi
        BY <2>1, <2>2, DrawnFacts DEF Page
      <3> QED  BY <2>1, <2>2, <3>1 DEF WidgetsCover, Configured
    <2>3. CASE Page' = "channel_state"
      <3>1. screen'.panels = devices[TheChannel']
        BY <2>1, <2>3, DrawnFacts DEF Page, TheChannel
      <3>2. Len(stack') \in 1 .. Len(stack')
        BY <2>1 DEF StackInv, IsSeq
      <3>3. TheChannel' \in Channel
        BY <2>3, <3>2 DEF TypesInv, FrameInv, Page, TheChannel, Top
      <3>4. \A k \in Kind : devices'[TheChannel'][k] \in Nat
        BY <2>1, <3>3 DEF TypesInv, ConfigInv
      <3> QED  BY <2>1, <2>3, <3>1, <3>4 DEF WidgetsCover
    <2> QED  BY <2>2, <2>3 DEF WidgetsCover
  <1>3. CASE Process /\ Stays
    <2>1. Page' = Page /\ TheChannel' = TheChannel
      BY <1>3 DEF Stays, Page, Top, TheChannel
    <2>2. CASE Page = "main"
      <3>1. UNCHANGED <<devices, cavi>> /\ screen'.leds = screen.leds /\ screen'.cables = screen.cables
        BY <1>3, <2>2, MainStays DEF UpdateMain, ScreenInv
      <3> QED  BY <2>1, <2>2, <3>1 DEF WidgetsCover, Configured
    <2>3. CASE Page = "channel_state"
      <3>1. devices' = devices /\ screen'.panels = screen.panels
        BY <1>3, <2>3, StateStays DEF UpdateState, ScreenInv
      <3> QED  BY <2>1, <2>3, <3>1 DEF WidgetsCover
    <2> QED  BY <2>1, <2>2, <2>3 DEF WidgetsCover
  <1> QED  BY <1>1, <1>2, <1>3, NextSplit

\* The main page and the page of a channel have a widget for whatever is configured: the
\* assertions of page_main.c:109 and 137 hold.
THEOREM WidgetsCorrect == Spec => []WidgetsCover
  <1>1. Init => WidgetsCover
    <2> SUFFICES ASSUME Init PROVE WidgetsCover
      OBVIOUS
    <2>1. stack[1].page = "main" /\ screen = Drawn(stack[1]) /\ Page = "main"
      BY DEF Init, Page, Top
    <2>2. screen.leds = {c \in Channel : Configured(c)} /\ screen.cables = cavi
      BY <2>1, DrawnFacts
    <2> QED  BY <2>1, <2>2 DEF WidgetsCover
  <1> QED  BY <1>1, StructHolds, ScreenHolds, TypesHold, WidgetsStep, PTL DEF Spec
=============================================================================
