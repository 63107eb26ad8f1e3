---------------------------- MODULE SpiBusProofs ----------------------------
(***************************************************************************)
(* Mutual exclusion on the bus of module SpiBus, the wholeness of a flush, *)
(* and the average of the touch panel, for any screen, any size of a       *)
(* transfer and any number of points in the average.                       *)
(***************************************************************************)
EXTENDS SpiBus, SequenceTheorems, WellFoundedInduction, TLAPS

MainHolds == {"initing", "powering", "reconfiguring", "flushing", "sending", "xing", "ying"}
BoardHolds == {"command", "sample"}

\* The labels between a take and its give are those of the holder, and the expander is
\* selected only inside an access.
Exclusion ==
  /\ holder = "main" <=> main \in MainHolds
  /\ holder = "board" <=> board \in BoardHolds
  /\ selected = 1 => board \in BoardHolds \cup {"power"}

\* The part of the flush that has been sent.
Flushed ==
  /\ total \in Nat /\ index \in Nat /\ index <= total
  /\ main \notin {"flush", "flushing", "sending"} => index = total

\* The inductive invariant.
IInv == Exclusion /\ OnlyPowerSpoilt /\ Flushed

LEMMA InitIInv == Init => IInv
<1> SUFFICES ASSUME Init PROVE Exclusion /\ OnlyPowerSpoilt /\ Flushed
  BY DEF IInv
<1>1. holder = NULL /\ main = "boot" /\ board = "off" /\ selected = 0
  BY DEF Init
<1>2. Exclusion
  BY <1>1, SpiBusAssumption DEF Exclusion, MainHolds, BoardHolds, SpiBusAssumption
<1>3. OnlyPowerSpoilt /\ Flushed
  BY DEF Init, OnlyPowerSpoilt, Flushed
<1> QED BY <1>2, <1>3

-----------------------------------------------------------------------------
\* While the main task holds the mutex only the power write may hear its transfers.
LEMMA Heard ==
  ASSUME Exclusion, OnlyPowerSpoilt, holder = "main", Transfer PROVE OnlyPowerSpoilt'
<1>1. board \notin BoardHolds
  BY DEF Exclusion
<1>2. selected = 1 => board = "power"
  BY <1>1 DEF Exclusion
<1> QED BY <1>2 DEF Transfer, OnlyPowerSpoilt

\* A step of the main task that keeps the mutex as it is.
LEMMA MainStays ==
  ASSUME Exclusion, UNCHANGED <<holder, boardVars>>,
         main \in MainHolds <=> main' \in MainHolds
  PROVE  Exclusion'
BY DEF Exclusion, boardVars

LEMMA MainTakes ==
  ASSUME Exclusion, Take("main"), UNCHANGED boardVars, main' \in MainHolds
  PROVE  Exclusion'
BY SpiBusAssumption DEF Exclusion, Take, boardVars, SpiBusAssumption

LEMMA MainGives ==
  ASSUME Exclusion, holder = "main", holder' = NULL, UNCHANGED boardVars, main' \notin MainHolds
  PROVE  Exclusion'
BY SpiBusAssumption DEF Exclusion, boardVars, SpiBusAssumption

-----------------------------------------------------------------------------
LEMMA BoardInitKeeps == ASSUME IInv, BoardInit PROVE IInv'
<1>1. main = "boot" /\ main' = "init" /\ board = "off" /\ board' = "receive"
  BY DEF BoardInit
<1>2. UNCHANGED <<holder, selected, total, index, spoilt>>
  BY DEF BoardInit
<1>3. Exclusion'
  BY <1>1, <1>2 DEF IInv, Exclusion, MainHolds, BoardHolds
<1> QED BY <1>1, <1>2, <1>3 DEF IInv, OnlyPowerSpoilt, Flushed

LEMMA TakeDisplayKeeps == ASSUME IInv, TakeDisplay PROVE IInv'
<1>1. main \in {"init", "flush", "reconfigure"} /\ Take("main")
  BY DEF TakeDisplay
<1>2. main' = [init |-> "initing", flush |-> "flushing", reconfigure |-> "reconfiguring"][main]
  BY DEF TakeDisplay
<1>3. UNCHANGED <<total, index, boardVars, spoilt>>
  BY DEF TakeDisplay
<1>4. main' \in {"initing", "flushing", "reconfiguring"} /\ (main' # "flushing" => main # "flush")
  <2>1. CASE main = "init"
    BY <1>2, <2>1
  <2>2. CASE main = "flush"
    BY <1>2, <2>2
  <2>3. CASE main = "reconfigure"
    BY <1>2, <2>3
  <2> QED BY <1>1, <2>1, <2>2, <2>3
<1>5. Exclusion'
  BY <1>1, <1>3, <1>4, MainTakes DEF IInv, MainHolds
<1> QED BY <1>1, <1>3, <1>4, <1>5 DEF IInv, OnlyPowerSpoilt, Flushed

LEMMA ConfigureKeeps == ASSUME IInv, Configure PROVE IInv'
<1>1. main \in {"initing", "reconfiguring"} /\ Transfer /\ UNCHANGED <<total, index, boardVars>>
  BY DEF Configure
<1>2. holder = "main"
  BY <1>1 DEF IInv, Exclusion, MainHolds
<1>3. \/ main' \in {"powering", "initing", "reconfiguring"} /\ holder' = holder
      \/ main' = "loop" /\ holder' = NULL
  BY <1>1 DEF Configure, Give
<1>4. Exclusion'
  BY <1>1, <1>2, <1>3, MainStays, MainGives DEF IInv, MainHolds
<1> QED BY <1>1, <1>2, <1>3, <1>4, Heard DEF IInv, Flushed

LEMMA PowerUpKeeps == ASSUME IInv, PowerUp PROVE IInv'
<1>1. main = "powering" /\ Transfer /\ UNCHANGED <<total, index, boardVars>>
  BY DEF PowerUp
<1>2. holder = "main"
  BY <1>1 DEF IInv, Exclusion, MainHolds
<1>3. \/ main' = "powering" /\ holder' = holder
      \/ main' = "loop" /\ holder' = NULL
  BY <1>1 DEF PowerUp, Give
<1>4. Exclusion'
  BY <1>1, <1>2, <1>3, MainStays, MainGives DEF IInv, MainHolds
<1> QED BY <1>1, <1>2, <1>3, <1>4, Heard DEF IInv, Flushed

\* An area has a natural number of bytes.
LEMMA AreaBytes == \A a \in Area : (a.x2 - a.x1 + 1) * 2 * (a.y2 - a.y1 + 1) \in Nat
<1> SUFFICES ASSUME NEW a \in Area PROVE (a.x2 - a.x1 + 1) * 2 * (a.y2 - a.y1 + 1) \in Nat
  OBVIOUS
<1>1. a.x2 - a.x1 + 1 \in Nat /\ a.y2 - a.y1 + 1 \in Nat
  BY SpiBusAssumption DEF Area, SpiBusAssumption
<1>2. \A m, n \in Nat : m * 2 * n \in Nat
  OBVIOUS
<1> QED BY <1>1, <1>2

LEMMA StartFlushKeeps == ASSUME IInv, StartFlush PROVE IInv'
<1>1. main = "loop" /\ main' = "flush" /\ index' = 0 /\ UNCHANGED <<holder, boardVars, spoilt>>
  BY DEF StartFlush
<1>2. total' \in Nat
  BY AreaBytes DEF StartFlush
<1>3. Exclusion'
  BY <1>1, MainStays DEF IInv, MainHolds
<1> QED BY <1>1, <1>2, <1>3 DEF IInv, OnlyPowerSpoilt, Flushed

LEMMA SetWindowKeeps == ASSUME IInv, SetWindow PROVE IInv'
<1>1. main = "flushing" /\ main' = "sending" /\ Transfer
  BY DEF SetWindow
<1>2. UNCHANGED <<holder, total, index, boardVars>>
  BY DEF SetWindow
<1>3. holder = "main" /\ Exclusion'
  BY <1>1, <1>2, MainStays DEF IInv, Exclusion, MainHolds
<1> QED BY <1>1, <1>2, <1>3, Heard DEF IInv, Flushed

\* The last chunk is what is left.
LEMMA SendChunkKeeps == ASSUME IInv, SendChunk PROVE IInv'
<1>1. main = "sending" /\ index < total /\ Transfer /\ UNCHANGED <<holder, main, total, boardVars>>
  BY DEF SendChunk
<1>2. index' = index + (IF total - index > MaxTransfer THEN MaxTransfer ELSE total - index)
  BY DEF SendChunk
<1>3. index' \in Nat /\ index' <= total
  BY <1>1, <1>2, SpiBusAssumption DEF IInv, Flushed, SpiBusAssumption
<1>4. holder = "main" /\ Exclusion'
  BY <1>1, MainStays DEF IInv, Exclusion, MainHolds
<1> QED BY <1>1, <1>3, <1>4, Heard DEF IInv, Flushed

LEMMA EndFlushKeeps == ASSUME IInv, EndFlush PROVE IInv'
<1>1. main = "sending" /\ main' = "loop" /\ index >= total
  BY DEF EndFlush
<1>2. UNCHANGED <<total, index, boardVars, spoilt>> /\ holder = "main" /\ holder' = NULL
  BY DEF EndFlush, Give
<1>3. Exclusion'
  BY <1>1, <1>2, MainGives DEF IInv, MainHolds
<1> QED BY <1>1, <1>2, <1>3 DEF IInv, OnlyPowerSpoilt, Flushed

LEMMA StartReconfigureKeeps == ASSUME IInv, StartReconfigure PROVE IInv'
<1>1. main = "loop" /\ main' = "reconfigure" /\ UNCHANGED <<holder, total, index, boardVars, spoilt>>
  BY DEF StartReconfigure
<1>2. Exclusion'
  BY <1>1, MainStays DEF IInv, MainHolds
<1> QED BY <1>1, <1>2 DEF IInv, OnlyPowerSpoilt, Flushed

-----------------------------------------------------------------------------
LEMMA StartReadKeeps == ASSUME IInv, StartRead PROVE IInv'
<1>1. main = "loop" /\ main' \in {"loop", "x"} /\ UNCHANGED <<holder, total, index, boardVars, spoilt>>
  BY DEF StartRead
<1>2. Exclusion'
  BY <1>1, MainStays DEF IInv, MainHolds
<1> QED BY <1>1, <1>2 DEF IInv, OnlyPowerSpoilt, Flushed

LEMMA TakePanelKeeps == ASSUME IInv, TakePanel PROVE IInv'
<1>1. main \in {"x", "y"} /\ Take("main") /\ UNCHANGED <<total, index, boardVars, spoilt>>
  BY DEF TakePanel
<1>2. main' \in {"xing", "ying"}
  <2>1. CASE main = "x"
    BY <2>1 DEF TakePanel
  <2>2. CASE main = "y"
    BY <2>2 DEF TakePanel
  <2> QED BY <1>1, <2>1, <2>2
<1>3. Exclusion'
  BY <1>1, <1>2, MainTakes DEF IInv, MainHolds
<1> QED BY <1>1, <1>2, <1>3 DEF IInv, OnlyPowerSpoilt, Flushed

\* Either coordinate is read with the mutex held, which is then given back.
LEMMA ReadKeeps == ASSUME IInv, ReadX \/ ReadY PROVE IInv'
<1>1. /\ main \in {"xing", "ying"} /\ main' \in {"y", "loop"}
      /\ Transfer /\ holder' = NULL /\ UNCHANGED <<total, index, boardVars>>
  BY DEF ReadX, ReadY
<1>2. holder = "main"
  BY <1>1 DEF IInv, Exclusion, MainHolds
<1>3. Exclusion'
  BY <1>1, <1>2, MainGives DEF IInv, MainHolds
<1> QED BY <1>1, <1>2, <1>3, Heard DEF IInv, Flushed

-----------------------------------------------------------------------------
\* The board task never touches the display.
LEMMA BoardFrame == ASSUME IInv, BoardOnly, Exclusion' PROVE IInv'
BY DEF IInv, BoardOnly, mainVars, OnlyPowerSpoilt, Flushed

LEMMA TakeExpanderKeeps == ASSUME IInv, TakeExpander PROVE IInv'
<1>1. BoardOnly /\ selected' = selected /\ Take("board")
  BY DEF TakeExpander
<1>2. board \in {"take_command", "take_sample"} /\ board' \in BoardHolds
  BY DEF TakeExpander, BoardHolds
<1>3. main' = main
  BY <1>1 DEF BoardOnly, mainVars
<1>4. Exclusion'
  BY <1>1, <1>2, <1>3, SpiBusAssumption DEF IInv, Exclusion, Take, SpiBusAssumption
<1> QED BY <1>1, <1>4, BoardFrame

\* A step of the board task outside the accesses.
LEMMA OutsideKeeps == ASSUME IInv, Receive \/ Compare PROVE IInv'
<1>1. BoardOnly /\ UNCHANGED <<holder, selected>>
  BY DEF Receive, Compare
<1>2. board \in {"receive", "compare"} /\ board' \in {"take_command", "take_sample", "power", "receive"}
  BY DEF Receive, Compare
<1>3. main' = main
  BY <1>1 DEF BoardOnly, mainVars
<1>4. Exclusion'
  BY <1>1, <1>2, <1>3 DEF IInv, Exclusion, BoardHolds
<1> QED BY <1>1, <1>4, BoardFrame

LEMMA SelectKeeps == ASSUME IInv, Select PROVE IInv'
<1>1. BoardOnly /\ UNCHANGED <<holder, board>>
  BY DEF Select
<1>2. board \in BoardHolds \cup {"power"}
  BY DEF Select, BoardHolds
<1>3. main' = main
  BY <1>1 DEF BoardOnly, mainVars
<1>4. Exclusion'
  BY <1>1, <1>2, <1>3 DEF IInv, Exclusion
<1> QED BY <1>1, <1>4, BoardFrame

LEMMA LeaveKeeps ==
  ASSUME IInv, BoardOnly, NEW next, Leave(next), board \in BoardHolds \cup {"power"},
         next \notin BoardHolds
  PROVE  IInv'
<1>1. selected' = 0 /\ board' = next /\ holder' = IF holder = "board" THEN NULL ELSE holder
  BY DEF Leave
<1>2. main' = main
  BY DEF BoardOnly, mainVars
<1>3. Exclusion'
  BY <1>1, <1>2, SpiBusAssumption DEF IInv, Exclusion, SpiBusAssumption
<1> QED BY <1>3, BoardFrame

LEMMA AccessKeeps == ASSUME IInv, WriteRelay \/ UpdateState \/ WritePower PROVE IInv'
BY LeaveKeeps DEF WriteRelay, UpdateState, WritePower, BoardHolds

-----------------------------------------------------------------------------
LEMMA NextIInv == ASSUME IInv, [Next]_vars PROVE IInv'
<1>1. CASE BoardInit
  BY <1>1, BoardInitKeeps
<1>2. CASE Display
  BY <1>2, TakeDisplayKeeps, ConfigureKeeps, PowerUpKeeps, StartFlushKeeps, SetWindowKeeps,
     SendChunkKeeps, EndFlushKeeps, StartReconfigureKeeps DEF Display
<1>3. CASE Panel
  BY <1>3, StartReadKeeps, TakePanelKeeps, ReadKeeps DEF Panel
<1>4. CASE Board
  BY <1>4, OutsideKeeps, TakeExpanderKeeps, SelectKeeps, AccessKeeps DEF Board
<1>5. ASSUME UNCHANGED <<holder, mainVars, boardVars, spoilt>> PROVE IInv'
  BY <1>5 DEF IInv, Exclusion, OnlyPowerSpoilt, Flushed, mainVars, boardVars
<1>6. CASE Environment
  BY <1>5, <1>6 DEF Environment
<1>7. CASE UNCHANGED vars
  BY <1>5, <1>7 DEF vars
<1> QED BY <1>1, <1>2, <1>3, <1>4, <1>6, <1>7 DEF Next

LEMMA Inductive == Spec => []IInv
BY InitIInv, NextIInv, PTL DEF Spec

\* No command of a relay and no sample of the power supply is ever spoilt by a
\* transfer of the display or of the panel (management_board.c:145-157 and 170-172).
THEOREM OnlyPower == Spec => []OnlyPowerSpoilt
<1>1. IInv => OnlyPowerSpoilt
  BY DEF IInv
<1> QED BY <1>1, Inductive, PTL

\* A flush that has ended has sent all of its area, for any size of the screen, of the
\* area and of a transfer (SSD2119.c:129-139).
THEOREM FlushesWhole == Spec => []FlushWhole
<1>1. IInv => FlushWhole
  BY DEF IInv, Flushed, FlushWhole
<1> QED BY <1>1, Inductive, PTL

-----------------------------------------------------------------------------
(* The variables keep to their values. *)

Point == [x : Int, y : Int]

\* What the buffers of the panel hold are points of the touch, and a point is reported
\* from one of them at least.
Touches ==
  /\ touched \subseteq Point
  /\ points \in Seq(touched)
  /\ found = 1 => points # <<>>

\* The board task compares and reports what it has sampled, not the initial zero.
Sampled == board \in {"compare", "power"} => input \in Inputs

\* The bytes of an area of the screen are those of the screen at most.
LEMMA AreaFits ==
  \A a \in Area : (a.x2 - a.x1 + 1) * 2 * (a.y2 - a.y1 + 1) \in 0 .. 2 * HorRes * VerRes
<1> SUFFICES ASSUME NEW a \in Area
             PROVE  (a.x2 - a.x1 + 1) * 2 * (a.y2 - a.y1 + 1) \in 0 .. 2 * HorRes * VerRes
  OBVIOUS
<1> DEFINE w == a.x2 - a.x1 + 1
           h == a.y2 - a.y1 + 1
<1>1. w \in 0 .. HorRes /\ h \in 0 .. VerRes
  BY SpiBusAssumption DEF Area, SpiBusAssumption
<1>2. HorRes \in Nat /\ VerRes \in Nat
  BY SpiBusAssumption DEF SpiBusAssumption
<1> HIDE DEF w, h
<1>3. w * h <= HorRes * h /\ HorRes * h <= HorRes * VerRes
  BY <1>1, <1>2
<1>4. w * h \in Nat /\ w * 2 * h = 2 * (w * h) /\ 2 * HorRes * VerRes = 2 * (HorRes * VerRes)
  BY <1>1, <1>2
<1>5. HorRes * VerRes \in Nat /\ HorRes * h \in Nat
  BY <1>1, <1>2
<1>6. w * 2 * h \in 0 .. 2 * HorRes * VerRes
  BY <1>3, <1>4, <1>5
<1> QED BY <1>6 DEF w, h

\* tsc2046_corr answers with whole numbers.
LEMMA CorrectedPoint == \A x, y \in Nat : Corrected(x, y) \in Point
<1> SUFFICES ASSUME NEW x \in Nat, NEW y \in Nat PROVE Corrected(x, y) \in Point
  OBVIOUS
<1>1. ASSUME NEW raw \in Nat, NEW min \in Nat, NEW max \in Nat, min < max, NEW res \in Nat
      PROVE  Scaled(raw, min, max, res) \in Int
  <2> DEFINE c == (IF raw > min THEN raw - min ELSE 0) * res
             d == max - min
  <2>1. c \in Int /\ d \in Int /\ d > 0
    BY <1>1
  <2>2. Scaled(raw, min, max, res) = c \div d
    BY DEF Scaled
  <2> HIDE DEF c, d
  <2> QED BY <2>1, <2>2
<1>2. Scaled(y, XMin, XMax, HorRes) \in Int /\ Scaled(x, YMin, YMax, VerRes) \in Int
  BY <1>1, SpiBusAssumption DEF SpiBusAssumption
<1> QED BY <1>2, SpiBusAssumption DEF Corrected, Point, SpiBusAssumption

\* tsc2046_avg keeps XYAvg points at most, all of them of the touch.
LEMMA NewestOfTouch ==
  ASSUME TypeOK, Touches, NEW p
  PROVE  /\ Newest(p) \in Seq(touched \cup {p})
         /\ Len(Newest(p)) \in 1 .. XYAvg
         /\ Newest(p) # <<>>
<1> DEFINE T == touched \cup {p}
           q == <<p>> \o points
           k == IF Len(points) < XYAvg THEN Len(points) + 1 ELSE XYAvg
<1>1. points \in Seq(T) /\ <<p>> \in Seq(T) /\ Len(<<p>>) = 1
  BY SeqMonotonic DEF Touches
<1>2. q \in Seq(T) /\ Len(q) = Len(points) + 1
  BY <1>1, ConcatProperties
<1>3. Len(points) \in Nat /\ Len(points) <= XYAvg /\ XYAvg \in Nat \ {0}
  BY <1>1, SpiBusAssumption, LenProperties DEF TypeOK, SpiBusAssumption
<1>4. k \in 1 .. Len(q) /\ k \in 1 .. XYAvg
  BY <1>2, <1>3
<1>5. \A i \in 1 .. k : q[i] \in T
  BY <1>2, <1>4, ElementOfSeq
<1> HIDE DEF q, k, T
<1>6. SubSeq(q, 1, k) \in Seq(T) /\ Len(SubSeq(q, 1, k)) = k
  BY <1>4, <1>5, SubSeqProperties
<1>7. SubSeq(q, 1, k) # <<>>
  BY <1>4, <1>6, EmptySeq
<1> QED BY <1>4, <1>6, <1>7 DEF q, k, T, Newest

\* A reading of the panel.
LEMMA ReadingKeeps ==
  ASSUME TypeOK, Touches, Released \/ \E x, y \in Nat : Touched(Corrected(x, y))
  PROVE  Touches' /\ found' \in 0 .. 1 /\ Len(points') <= XYAvg
<1>1. CASE Released
  <2>1. found' = 0 /\ points' = <<>> /\ touched' = {}
    BY <1>1 DEF Released
  <2>2. points' \in Seq(touched') /\ Len(points') = 0
    BY <2>1, EmptySeq
  <2> QED BY <2>1, <2>2, SpiBusAssumption DEF Touches, SpiBusAssumption
<1>2. CASE \E x, y \in Nat : Touched(Corrected(x, y))
  <2>1. PICK x \in Nat, y \in Nat : Touched(Corrected(x, y))
    BY <1>2
  <2> DEFINE p == Corrected(x, y)
  <2>2. found' = 1 /\ points' = Newest(p) /\ touched' = touched \cup {p}
    BY <2>1 DEF Touched
  <2>3. p \in Point
    BY CorrectedPoint
  <2> HIDE DEF p
  <2>4. points' \in Seq(touched') /\ Len(points') \in 1 .. XYAvg /\ points' # <<>>
    BY <2>2, NewestOfTouch
  <2> QED BY <2>2, <2>3, <2>4, SpiBusAssumption DEF Touches, SpiBusAssumption
<1> QED BY <1>1, <1>2

\* A step that leaves the panel alone.
LEMMA TouchesFrame ==
  ASSUME Touches, UNCHANGED <<points, found, touched>> PROVE Touches'
BY DEF Touches

-----------------------------------------------------------------------------
LEMMA InitTypes == Init => TypeOK /\ Touches
<1> SUFFICES ASSUME Init PROVE TypeOK /\ Touches
  OBVIOUS
<1>1. Touches
  BY EmptySeq DEF Init, Touches
<1>2. Len(points) = 0
  BY EmptySeq DEF Init
<1>3. 2 * HorRes * VerRes \in Nat /\ XYAvg \in Nat
  BY SpiBusAssumption DEF SpiBusAssumption
<1> QED BY <1>1, <1>2, <1>3 DEF Init, TypeOK, Pen

LEMMA DisplayTypes == ASSUME IInv, TypeOK, Touches, BoardInit \/ Display PROVE TypeOK' /\ Touches'
<1>1. UNCHANGED <<pen, rawX, points, found, touched, lines, input, lastPower, selected>>
  BY DEF BoardInit, Display, TakeDisplay, Configure, PowerUp, StartFlush, SetWindow, SendChunk,
         EndFlush, StartReconfigure, touchVars, boardVars
<1>2. board' \in {board, "receive"}
  BY DEF BoardInit, Display, TakeDisplay, Configure, PowerUp, StartFlush, SetWindow, SendChunk,
         EndFlush, StartReconfigure, boardVars
<1>3. holder' \in {"main", "board", NULL}
  BY DEF BoardInit, Display, TakeDisplay, Configure, PowerUp, StartFlush, SetWindow, SendChunk,
         EndFlush, StartReconfigure, Take, Give, TypeOK
<1>4. main' \in {"init", "initing", "powering", "loop", "flush", "flushing", "sending",
                 "reconfigure", "reconfiguring"}
  <2>1. CASE TakeDisplay
    BY <2>1 DEF TakeDisplay
  <2>2. CASE ~TakeDisplay
    BY <2>2 DEF BoardInit, Display, Configure, PowerUp, StartFlush, SetWindow, SendChunk,
                EndFlush, StartReconfigure
  <2> QED BY <2>1, <2>2
<1>5. total' \in 0 .. 2 * HorRes * VerRes
  <2>1. CASE StartFlush
    BY <2>1, AreaFits DEF StartFlush
  <2>2. CASE ~StartFlush
    BY <2>2 DEF BoardInit, Display, TakeDisplay, Configure, PowerUp, SetWindow, SendChunk,
                EndFlush, StartReconfigure, TypeOK
  <2> QED BY <2>1, <2>2
<1>6. index' \in 0 .. total'
  <2>1. IInv'
    BY BoardInitKeeps, TakeDisplayKeeps, ConfigureKeeps, PowerUpKeeps, StartFlushKeeps,
       SetWindowKeeps, SendChunkKeeps, EndFlushKeeps, StartReconfigureKeeps DEF Display
  <2> QED BY <2>1 DEF IInv, Flushed
<1> QED BY <1>1, <1>2, <1>3, <1>4, <1>5, <1>6, TouchesFrame DEF TypeOK

LEMMA PanelTypes == ASSUME IInv, TypeOK, Touches, Panel PROVE TypeOK' /\ Touches'
<1>1. UNCHANGED <<total, index, pen, board, selected, input, lastPower, lines>>
  BY DEF Panel, StartRead, TakePanel, ReadX, ReadY, boardVars
<1>2. holder' \in {"main", NULL, holder}
  BY DEF Panel, StartRead, TakePanel, ReadX, ReadY, Take
<1>3. main' \in {"loop", "x", "xing", "y", "ying"}
  <2>1. CASE TakePanel /\ main = "x"
    BY <2>1 DEF TakePanel
  <2>2. CASE TakePanel /\ main = "y"
    BY <2>2 DEF TakePanel
  <2>3. CASE StartRead \/ ReadX \/ ReadY
    BY <2>3 DEF StartRead, ReadX, ReadY
  <2> QED BY <2>1, <2>2, <2>3 DEF Panel, TakePanel
<1>4. rawX' \in RawX \cup {IdleX}
  BY DEF Panel, StartRead, TakePanel, ReadX, ReadY, touchVars, TypeOK, Pen
<1>5. Touches' /\ found' \in 0 .. 1 /\ Len(points') <= XYAvg
  <2>1. CASE UNCHANGED <<points, found, touched>>
    BY <2>1, TouchesFrame DEF TypeOK
  <2>2. CASE StartRead /\ Released
    BY <2>2, ReadingKeeps
  <2>3. CASE ReadY
    <3>1. rawX \in Nat /\ (IF pen = NULL THEN IdleY ELSE pen.y) \in Nat
      BY SpiBusAssumption DEF TypeOK, Pen, SpiBusAssumption
    <3>2. Released \/ \E x, y \in Nat : Touched(Corrected(x, y))
      BY <2>3, <3>1 DEF ReadY
    <3> QED BY <3>2, ReadingKeeps
  <2> QED BY <2>1, <2>2, <2>3 DEF Panel, StartRead, TakePanel, ReadX, touchVars
<1> QED BY <1>1, <1>2, <1>3, <1>4, <1>5 DEF TypeOK

LEMMA BoardTypes ==
  ASSUME TypeOK, Touches, Sampled, Board PROVE TypeOK' /\ Touches' /\ Sampled'
<1>1. UNCHANGED <<main, total, index, pen, rawX, points, found, touched, lines>>
  BY DEF Board, Receive, TakeExpander, Select, WriteRelay, UpdateState, Compare, WritePower,
         BoardOnly, mainVars, touchVars
<1>2. holder' \in {"board", NULL, holder} /\ selected' \in {0, 1, selected}
  BY DEF Board, Receive, TakeExpander, Select, WriteRelay, UpdateState, Compare, WritePower,
         Take, Leave
<1>3. board' \in {"receive", "take_command", "take_sample", "command", "sample",
                  "compare", "power", board}
  BY DEF Board, Receive, TakeExpander, Select, WriteRelay, UpdateState, Compare, WritePower, Leave
<1>4. input' \in {input, lines} /\ lastPower' \in {lastPower} \cup Inputs
  BY DEF Board, Receive, TakeExpander, Select, WriteRelay, UpdateState, Compare, WritePower, Sampled
<1>5. Sampled'
  BY DEF Board, Receive, TakeExpander, Select, WriteRelay, UpdateState, Compare, WritePower, Leave,
         Sampled, TypeOK
<1> QED BY <1>1, <1>2, <1>3, <1>4, <1>5, TouchesFrame DEF TypeOK

LEMMA NextTypes == ASSUME IInv, TypeOK, Touches, Sampled, [Next]_vars
                   PROVE  TypeOK' /\ Touches' /\ Sampled'
<1>1. CASE BoardInit \/ Display
  <2>1. board' \in {board, "receive"} /\ input' = input
    BY <1>1 DEF BoardInit, Display, TakeDisplay, Configure, PowerUp, StartFlush, SetWindow,
                SendChunk, EndFlush, StartReconfigure, boardVars
  <2> QED BY <1>1, <2>1, DisplayTypes DEF Sampled
<1>2. CASE Panel
  <2>1. board' = board /\ input' = input
    BY <1>2 DEF Panel, StartRead, TakePanel, ReadX, ReadY, boardVars
  <2> QED BY <1>2, <2>1, PanelTypes DEF Sampled
<1>3. CASE Board
  BY <1>3, BoardTypes
<1>4. CASE Environment \/ UNCHANGED vars
  <2>1. pen' \in Pen /\ lines' \in Inputs
    BY <1>4 DEF Environment, vars, TypeOK
  <2>2. UNCHANGED <<holder, main, total, index, rawX, points, found, touched,
                    board, selected, input, lastPower>>
    BY <1>4 DEF Environment, vars, mainVars, touchVars, boardVars
  <2> QED BY <2>1, <2>2, TouchesFrame DEF TypeOK, Sampled
<1> QED BY <1>1, <1>2, <1>3, <1>4 DEF Next

LEMMA InductiveTypes == Spec => [](TypeOK /\ Touches)
<1>1. Init => TypeOK /\ Touches /\ Sampled
  BY InitTypes DEF Init, Sampled
<1>2. IInv /\ TypeOK /\ Touches /\ Sampled /\ [Next]_vars => TypeOK' /\ Touches' /\ Sampled'
  BY NextTypes
<1> QED BY <1>1, <1>2, Inductive, PTL DEF Spec

\* The variables keep to their values, for any screen: a flush has no more bytes than the
\* screen has, the average no more points than XPT2046_AVG.
THEOREM TypeCorrect == Spec => []TypeOK
BY InductiveTypes, PTL

-----------------------------------------------------------------------------
(* The sum and the average of tsc2046_avg, by induction. *)

\* The least number principle of WellFoundedInduction, as induction over a set.
LEMMA Induction ==
  ASSUME NEW S, 0 \in S, \A n \in Nat : n \in S => n + 1 \in S
  PROVE  Nat \subseteq S
<1> SUFFICES ASSUME Nat \ S # {} PROVE FALSE
  OBVIOUS
<1> DEFINE R == OpToRel(<, Nat)
<1>1. PICK x \in Nat \ S : \A y \in Nat \ S : ~(<<y, x>> \in R)
  <2>1. IsWellFoundedOn(R, Nat)
    BY NatLessThanWellFounded
  <2> HIDE DEF R
  <2> QED BY <2>1, WFMin
<1> HIDE DEF R
<1>2. x # 0 /\ x - 1 \in Nat /\ x = (x - 1) + 1
  BY <1>1
<1>3. <<x - 1, x>> \in R
  <2>1. <<x - 1, x>> \in Nat \X Nat /\ x - 1 < x
    BY <1>1, <1>2
  <2> QED BY <2>1 DEF R, OpToRel
<1>4. x - 1 \in S
  BY <1>1, <1>2, <1>3
<1> QED BY <1>1, <1>2, <1>4

\* The partial sums that Sum adds up.
Sums(f, n) == {s \in [0 .. n -> Int] : s = [i \in 0 .. n |-> IF i = 0 THEN 0 ELSE s[i - 1] + f[i]]}

LEMMA SumsExist ==
  ASSUME NEW n \in Nat, NEW f \in [1 .. n -> Int] PROVE Sums(f, n) # {}
<1> DEFINE S == {m \in Nat : m <= n => Sums(f, m) # {}}
<1>1. 0 \in S
  <2>1. [i \in 0 .. 0 |-> 0] \in Sums(f, 0)
    BY DEF Sums
  <2> QED BY <2>1
<1>2. ASSUME NEW m \in Nat, m \in S, m + 1 <= n PROVE Sums(f, m + 1) # {}
  <2>1. PICK s \in Sums(f, m) : TRUE
    BY <1>2
  <2> DEFINE t == [i \in 0 .. m + 1 |-> IF i = m + 1 THEN s[m] + f[m + 1] ELSE s[i]]
  <2>2. s \in [0 .. m -> Int] /\ f[m + 1] \in Int
    BY <1>2, <2>1 DEF Sums
  <2>3. \A i \in 0 .. m : s[i] = IF i = 0 THEN 0 ELSE s[i - 1] + f[i]
    BY <2>1 DEF Sums
  <2>4. t \in [0 .. m + 1 -> Int]
    BY <2>2
  <2>5. ASSUME NEW i \in 0 .. m + 1 PROVE t[i] = IF i = 0 THEN 0 ELSE t[i - 1] + f[i]
    <3>1. CASE i = m + 1
      BY <3>1
    <3>2. CASE i \in 0 .. m
      BY <2>3, <3>2
    <3> QED BY <3>1, <3>2
  <2>6. t = [i \in 0 .. m + 1 |-> IF i = 0 THEN 0 ELSE t[i - 1] + f[i]]
    BY <2>5
  <2>7. t \in Sums(f, m + 1)
    BY <2>4, <2>6 DEF Sums
  <2> QED BY <2>7
<1>3. Nat \subseteq S
  <2> HIDE DEF S
  <2>1. \A m \in Nat : m \in S => m + 1 \in S
    BY <1>2 DEF S
  <2> QED BY <1>1, <2>1, Induction
<1> QED BY <1>3

LEMMA SumIsLast ==
  ASSUME NEW n \in Nat, NEW f \in [1 .. n -> Int]
  PROVE  \E s \in [0 .. n -> Int] :
           s[0] = 0 /\ (\A i \in 1 .. n : s[i] = s[i - 1] + f[i]) /\ Sum(f, n) = s[n]
<1> DEFINE s[i \in 0 .. n] == IF i = 0 THEN 0 ELSE s[i - 1] + f[i]
<1>1. s = [i \in 0 .. n |-> IF i = 0 THEN 0 ELSE s[i - 1] + f[i]]
  <2>1. \E t : t = [i \in 0 .. n |-> IF i = 0 THEN 0 ELSE t[i - 1] + f[i]]
    BY SumsExist DEF Sums
  <2> QED BY <2>1
<1>2. Sum(f, n) = s[n]
  BY DEF Sum
<1> HIDE DEF s
<1>3. s[0] = 0 /\ \A i \in 1 .. n : s[i] = s[i - 1] + f[i]
  BY <1>1
<1> DEFINE S == {m \in Nat : m <= n => s[m] \in Int}
<1>4. Nat \subseteq S
  <2>1. 0 \in S
    BY <1>3
  <2>2. \A m \in Nat : m \in S => m + 1 \in S
    BY <1>3
  <2> HIDE DEF S
  <2> QED BY <2>1, <2>2, Induction
<1>5. \A i \in 0 .. n : s[i] \in Int
  BY <1>4
<1>6. s \in [0 .. n -> Int]
  <2>1. s = [i \in 0 .. n |-> s[i]]
    BY <1>1
  <2> QED BY <1>5, <2>1
<1> QED BY <1>2, <1>3, <1>6

\* One of the numbers is the least and one the greatest.
LEMMA Extremes ==
  ASSUME NEW n \in Nat \ {0}, NEW f \in [1 .. n -> Int]
  PROVE  \E j, k \in 1 .. n : \A i \in 1 .. n : f[j] <= f[i] /\ f[i] <= f[k]
<1> DEFINE S == {m \in Nat : m <= n => \E j, k \in 1 .. n : \A i \in 1 .. m : f[j] <= f[i] /\ f[i] <= f[k]}
<1>1. 0 \in S
  BY 1 \in 1 .. n
<1>2. ASSUME NEW m \in Nat, m \in S PROVE m + 1 \in S
  <2> DEFINE e == m + 1
  <2> SUFFICES ASSUME e <= n
               PROVE  \E j, k \in 1 .. n : \A i \in 1 .. e : f[j] <= f[i] /\ f[i] <= f[k]
    OBVIOUS
  <2>1. PICK j, k \in 1 .. n : \A i \in 1 .. m : f[j] <= f[i] /\ f[i] <= f[k]
    BY <1>2
  <2> DEFINE j2 == IF m = 0 \/ f[e] < f[j] THEN e ELSE j
             k2 == IF m = 0 \/ f[e] > f[k] THEN e ELSE k
  <2>2. j2 \in 1 .. n /\ k2 \in 1 .. n /\ e \in 1 .. n
    OBVIOUS
  <2>3. f[e] \in Int /\ f[j] \in Int /\ f[k] \in Int
    BY <2>2
  <2>4. ASSUME NEW i \in 1 .. e PROVE f[j2] <= f[i] /\ f[i] <= f[k2]
    <3>1. CASE i = e
      BY <2>3, <3>1
    <3>2. CASE i \in 1 .. m
      <4>1. m # 0 /\ f[i] \in Int /\ f[j] <= f[i] /\ f[i] <= f[k]
        BY <2>1, <2>2, <3>2
      <4> QED BY <2>3, <4>1
    <3> QED BY <3>1, <3>2
  <2> HIDE DEF j2, k2, e
  <2> QED BY <2>2, <2>4
<1>3. Nat \subseteq S
  <2> HIDE DEF S
  <2> QED BY <1>1, <1>2, Induction
<1>4. n \in S
  <2> HIDE DEF S
  <2> QED BY <1>3
<1> QED BY <1>4

\* A sum of n numbers between lo and hi lies between n times lo and n times hi.
LEMMA SumBetween ==
  ASSUME NEW n \in Nat, NEW f \in [1 .. n -> Int], NEW lo \in Int, NEW hi \in Int,
         \A i \in 1 .. n : lo <= f[i] /\ f[i] <= hi
  PROVE  Sum(f, n) \in Int /\ lo * n <= Sum(f, n) /\ Sum(f, n) <= hi * n
<1>1. PICK s \in [0 .. n -> Int] :
        s[0] = 0 /\ (\A i \in 1 .. n : s[i] = s[i - 1] + f[i]) /\ Sum(f, n) = s[n]
  BY SumIsLast
<1> DEFINE S == {m \in Nat : m <= n => lo * m <= s[m] /\ s[m] <= hi * m}
<1>2. 0 \in S
  BY <1>1
<1>3. ASSUME NEW m \in Nat, m \in S PROVE m + 1 \in S
  <2> SUFFICES ASSUME m + 1 <= n
               PROVE  lo * (m + 1) <= s[m + 1] /\ s[m + 1] <= hi * (m + 1)
    OBVIOUS
  <2>1. lo * m <= s[m] /\ s[m] <= hi * m
    BY <1>3
  <2>2. s[m + 1] = s[m] + f[m + 1] /\ lo <= f[m + 1] /\ f[m + 1] <= hi
    BY <1>1
  <2>3. lo * (m + 1) = lo * m + lo /\ hi * (m + 1) = hi * m + hi
    OBVIOUS
  <2>4. s[m] \in Int /\ f[m + 1] \in Int /\ lo * m \in Int /\ hi * m \in Int
    BY <1>1
  <2> QED BY <2>1, <2>2, <2>3, <2>4
<1>4. Nat \subseteq S
  <2> HIDE DEF S
  <2> QED BY <1>2, <1>3, Induction
<1>5. n \in S
  BY <1>4
<1> QED BY <1>1, <1>5

\* The division of C keeps between bounds what lies between their multiples.
LEMMA QuotientBetween ==
  ASSUME NEW n \in Nat \ {0}, NEW s \in Int, NEW lo \in Int, NEW hi \in Int,
         lo * n <= s, s <= hi * n
  PROVE  lo <= Quotient(s, n) /\ Quotient(s, n) <= hi
<1>1. ASSUME NEW a \in Nat, NEW m \in Int, a <= m * n PROVE a \div n <= m
  <2>1. a \div n \in Int /\ n * (a \div n) <= a
    OBVIOUS
  <2>2. n * (a \div n) <= n * m
    BY <1>1, <2>1
  <2> QED BY <2>1, <2>2
<1>2. ASSUME NEW a \in Nat, NEW m \in Int, m * n <= a PROVE m <= a \div n
  <2>1. a \div n \in Int /\ a < n * (a \div n) + n
    OBVIOUS
  <2>2. ASSUME a \div n + 1 <= m PROVE FALSE
    <3>1. n * (a \div n + 1) <= n * m
      BY <2>1, <2>2
    <3> QED BY <1>2, <2>1, <3>1
  <2> QED BY <2>1, <2>2
<1>3. CASE s >= 0
  BY <1>1, <1>2, <1>3 DEF Quotient
<1>4. CASE s < 0
  <2>1. -s \in Nat /\ Quotient(s, n) = -((-s) \div n) /\ (-s) \div n \in Int
    BY <1>4 DEF Quotient
  <2>2. -s <= (-lo) * n /\ (-hi) * n <= -s
    OBVIOUS
  <2>3. (-s) \div n <= -lo /\ -hi <= (-s) \div n
    BY <1>1, <1>2, <2>1, <2>2
  <2> QED BY <2>1, <2>3
<1> QED BY <1>3, <1>4

\* The average of numbers lies between two of them.
LEMMA AverageBetween ==
  ASSUME NEW n \in Nat \ {0}, NEW f \in [1 .. n -> Int]
  PROVE  \E j, k \in 1 .. n : f[j] <= Quotient(Sum(f, n), n) /\ Quotient(Sum(f, n), n) <= f[k]
<1>1. PICK j \in 1 .. n, k \in 1 .. n : \A i \in 1 .. n : f[j] <= f[i] /\ f[i] <= f[k]
  BY Extremes
<1>2. f[j] \in Int /\ f[k] \in Int
  OBVIOUS
<1>3. Sum(f, n) \in Int /\ f[j] * n <= Sum(f, n) /\ Sum(f, n) <= f[k] * n
  BY <1>1, <1>2, SumBetween
<1> QED BY <1>2, <1>3, QuotientBetween

LEMMA ReportedOfTouch == Touches => AverageOfTouch
<1> SUFFICES ASSUME Touches, found = 1
             PROVE  /\ \E p, q \in touched : p.x <= Average(points).x /\ Average(points).x <= q.x
                    /\ \E p, q \in touched : p.y <= Average(points).y /\ Average(points).y <= q.y
  BY DEF AverageOfTouch
<1> DEFINE n == Len(points)
           x == [i \in 1 .. n |-> points[i].x]
           y == [i \in 1 .. n |-> points[i].y]
<1>1. n \in Nat \ {0} /\ \A i \in 1 .. n : points[i] \in touched
  BY EmptySeq, ElementOfSeq DEF Touches
<1>2. x \in [1 .. n -> Int] /\ y \in [1 .. n -> Int]
  BY <1>1 DEF Touches, Point
<1>3. Average(points).x = Quotient(Sum(x, n), n) /\ Average(points).y = Quotient(Sum(y, n), n)
  BY DEF Average
<1> HIDE DEF n
<1>4. \E p, q \in touched : p.x <= Average(points).x /\ Average(points).x <= q.x
  <2>1. PICK j \in 1 .. n, k \in 1 .. n :
          x[j] <= Quotient(Sum(x, n), n) /\ Quotient(Sum(x, n), n) <= x[k]
    <3> HIDE DEF x
    <3> QED BY <1>1, <1>2, AverageBetween
  <2>2. x[j] = points[j].x /\ x[k] = points[k].x
    OBVIOUS
  <2> HIDE DEF x
  <2> QED BY <1>1, <1>3, <2>1, <2>2
<1>5. \E p, q \in touched : p.y <= Average(points).y /\ Average(points).y <= q.y
  <2>1. PICK j \in 1 .. n, k \in 1 .. n :
          y[j] <= Quotient(Sum(y, n), n) /\ Quotient(Sum(y, n), n) <= y[k]
    <3> HIDE DEF y
    <3> QED BY <1>1, <1>2, AverageBetween
  <2>2. y[j] = points[j].y /\ y[k] = points[k].y
    OBVIOUS
  <2> HIDE DEF y
  <2> QED BY <1>1, <1>3, <2>1, <2>2
<1> QED BY <1>4, <1>5

\* The point the panel reports lies among those read since the panel was last found
\* released, for any number of points in the average (tsc2046.c:73-98 and 179-196).
THEOREM AveragesTouch == Spec => []AverageOfTouch
BY InductiveTypes, ReportedOfTouch, PTL
=============================================================================
