------------------------------- MODULE SpiBus -------------------------------
(***************************************************************************)
(* The SPI bus that the display (SSD2119.c), the touch panel (tsc2046.c)   *)
(* and the port expander of the management board share.  The main task     *)
(* draws and reads the panel, the board task uses the expander, and a      *)
(* mutex (system_spi_take and system_spi_give) is to keep them apart.      *)
(*                                                                         *)
(* The driver of the bus lets one transfer through at a time and selects   *)
(* the chip of the display and of the panel itself; the expander is        *)
(* selected by hand (cs_control), for as long as a whole access takes, and *)
(* hears every byte that goes over the bus meanwhile.                      *)
(***************************************************************************)
EXTENDS Integers, Sequences

CONSTANTS
  HorRes, VerRes,  \* size of the screen (320 x 240)
  MaxTransfer,     \* MAX_TRANSFER_SIZE (4000)
  XYAvg,           \* XPT2046_AVG (4)
  RawX, RawY,      \* coordinates the pen may have, as the panel reads them
  XMin, XMax,      \* XPT2046_X_MIN, XPT2046_X_MAX, of the swapped coordinates
  YMin, YMax,
  IdleX, IdleY,    \* what the panel reads when nobody touches it (4095, 0)
  Inputs,          \* values of the two lines of the power supply
  NULL

ASSUME SpiBusAssumption ==
  /\ HorRes \in Nat \ {0} /\ VerRes \in Nat \ {0}
  /\ MaxTransfer \in Nat \ {0} /\ XYAvg \in Nat \ {0}
  /\ RawX \subseteq Nat /\ RawY \subseteq Nat /\ IdleX \in Nat /\ IdleY \in Nat
  /\ XMin \in Nat /\ YMin \in Nat
  /\ XMax \in Nat /\ XMin < XMax /\ YMax \in Nat /\ YMin < YMax
  /\ Inputs \subseteq 0 .. 3 /\ Inputs # {}
  /\ NULL \notin {"main", "board"}

Area == {a \in [x1 : 0 .. HorRes - 1, x2 : 0 .. HorRes - 1,
                y1 : 0 .. VerRes - 1, y2 : 0 .. VerRes - 1] : a.x1 <= a.x2 /\ a.y1 <= a.y2}
Pen == [x : RawX, y : RawY] \cup {NULL}

VARIABLES
  holder,    \* the task that holds the mutex
  main,      \* where the main task is
  total,     \* totbytes of the flush
  index,     \* bytes of it that have been sent
  pen,       \* where the pen touches the panel
  rawX,      \* the first coordinate tsc2046_touch_read has got
  points,    \* avg_buf_x and avg_buf_y up to avg_last, the newest point first
  found,     \* touch_found
  board,     \* where the board task is
  selected,  \* 1 when the chip of the expander is selected
  lines,     \* the lines of the power supply
  input,     \* state.input
  lastPower  \* local power_supply_anomaly of the board task; 256 stands for -1

\* History variables: no action reads them.
VARIABLES
  spoilt,    \* kinds of accesses that heard a byte meant for another chip
  touched    \* points read since the panel was last found released

mainVars == <<main, total, index>>
touchVars == <<rawX, points, found, touched>>
boardVars == <<board, selected, input, lastPower>>
vars == <<holder, mainVars, pen, touchVars, boardVars, lines, spoilt>>

Init ==
  /\ holder = NULL
  /\ main = "boot" /\ total = 0 /\ index = 0
  /\ pen = NULL /\ rawX = IdleX /\ points = <<>> /\ found = 0
  /\ board = "off" /\ selected = 0 /\ lines \in Inputs /\ input = 0 /\ lastPower = 256
  /\ spoilt = {} /\ touched = {}

-----------------------------------------------------------------------------
\* system_spi_take and system_spi_give.
Take(task) == holder = NULL /\ holder' = task
Give(task) == holder = task /\ holder' = NULL

\* A transfer to the display or to the panel: a selected expander hears it.
Transfer == spoilt' = IF selected = 1 THEN spoilt \cup {board} ELSE spoilt

\* management_board_init: the expander is configured before its task exists.
BoardInit ==
  /\ main = "boot" /\ board = "off"
  /\ main' = "init" /\ board' = "receive"
  /\ UNCHANGED <<holder, total, index, pen, touchVars, selected, input, lastPower, lines, spoilt>>

-----------------------------------------------------------------------------
(* The display.  A label that names an operation stands before its take,   *)
(* the same label with -ing after it.                                      *)

TakeDisplay ==
  /\ main \in {"init", "flush", "reconfigure"} /\ Take("main")
  /\ main' = [init |-> "initing", flush |-> "flushing", reconfigure |-> "reconfiguring"][main]
  /\ UNCHANGED <<total, index, pen, touchVars, boardVars, lines, spoilt>>

\* configure: commands with their data, for ssd2119_init and ssd2119_reconfigure.
Configure ==
  /\ main \in {"initing", "reconfiguring"} /\ Transfer
  /\ \/ main = "initing" /\ main' = "powering" /\ UNCHANGED holder
     \/ main = "reconfiguring" /\ main' = "loop" /\ Give("main")
     \/ UNCHANGED <<holder, main>>
  /\ UNCHANGED <<total, index, pen, touchVars, boardVars, lines>>

\* The rest of ssd2119_init, which keeps the mutex over its delays.
PowerUp ==
  /\ main = "powering" /\ Transfer
  /\ \/ main' = "loop" /\ Give("main")
     \/ UNCHANGED <<holder, main>>
  /\ UNCHANGED <<total, index, pen, touchVars, boardVars, lines>>

\* ssd2119_flush of an area of the screen, before its take.
StartFlush ==
  /\ main = "loop"
  /\ \E a \in Area : total' = (a.x2 - a.x1 + 1) * 2 * (a.y2 - a.y1 + 1)
  /\ index' = 0
  /\ main' = "flush"
  /\ UNCHANGED <<holder, pen, touchVars, boardVars, lines, spoilt>>

\* ssd2119_set_window and the command that opens the memory.
SetWindow ==
  /\ main = "flushing" /\ Transfer
  /\ main' = "sending"
  /\ UNCHANGED <<holder, total, index, pen, touchVars, boardVars, lines>>

\* Mutant: every chunk has the largest size.
SendWholeChunk ==
  /\ main = "sending" /\ index < total
  /\ Transfer
  /\ index' = index + MaxTransfer
  /\ UNCHANGED <<holder, main, total, pen, touchVars, boardVars, lines>>

SendChunk ==
  /\ main = "sending" /\ index < total
  /\ Transfer
  /\ index' = index + (IF total - index > MaxTransfer THEN MaxTransfer ELSE total - index)
  /\ UNCHANGED <<holder, main, total, pen, touchVars, boardVars, lines>>

\* Mutant: the flush returns without giving the mutex back.
EndFlushHolding ==
  /\ main = "sending" /\ index >= total
  /\ main' = "loop"
  /\ UNCHANGED <<holder, total, index, pen, touchVars, boardVars, lines, spoilt>>

EndFlush ==
  /\ main = "sending" /\ index >= total
  /\ Give("main")
  /\ main' = "loop"
  /\ UNCHANGED <<total, index, pen, touchVars, boardVars, lines, spoilt>>

\* controller_manage_gui, when nobody has touched the panel for ten seconds.
StartReconfigure ==
  /\ main = "loop" /\ main' = "reconfigure"
  /\ UNCHANGED <<holder, total, index, pen, touchVars, boardVars, lines, spoilt>>

Display == TakeDisplay \/ Configure \/ PowerUp \/ StartFlush \/ SetWindow \/ SendChunk \/ EndFlush
           \/ StartReconfigure

-----------------------------------------------------------------------------
(* The panel.                                                              *)

\* The quotient of C, which drops the fraction of a negative number too.
Quotient(a, b) == IF a >= 0 THEN a \div b ELSE -((-a) \div b)

\* One coordinate of tsc2046_corr: what lies under min counts as min.
Scaled(raw, min, max, res) == ((IF raw > min THEN raw - min ELSE 0) * res) \div (max - min)

\* tsc2046_corr: the panel is mounted with its axes swapped and the first turned.
Corrected(x, y) ==
  [x |-> HorRes - Scaled(y, XMin, XMax, HorRes), y |-> Scaled(x, YMin, YMax, VerRes)]

\* Mutant: avg_last is not held at XPT2046_AVG.
NewestAll(p) == <<p>> \o points

\* tsc2046_avg: the newest points, and what they amount to: the point reported, which
\* last_x and last_y keep after the release.
Newest(p) == SubSeq(<<p>> \o points, 1, IF Len(points) < XYAvg THEN Len(points) + 1 ELSE XYAvg)
Sum(f, n) == LET s[i \in 0 .. n] == IF i = 0 THEN 0 ELSE s[i - 1] + f[i] IN s[n]
Average(ps) ==
  [x |-> Quotient(Sum([i \in 1 .. Len(ps) |-> ps[i].x], Len(ps)), Len(ps)),
   y |-> Quotient(Sum([i \in 1 .. Len(ps) |-> ps[i].y], Len(ps)), Len(ps))]

\* Mutant: the average goes on after a release.
ReleasedKeepsAverage ==
  found' = 0 /\ touched' = {} /\ UNCHANGED points

Released ==
  found' = 0 /\ points' = <<>> /\ touched' = {}

Touched(p) ==
  /\ found' = 1
  /\ points' = Newest(p)
  /\ touched' = touched \cup {p}

\* tsc2046_touch_read asks the interrupt line before it takes the bus.
StartRead ==
  /\ main = "loop"
  /\ IF pen = NULL
     THEN Released /\ UNCHANGED main
     ELSE main' = "x" /\ UNCHANGED <<found, points, touched>>
  /\ UNCHANGED <<holder, total, index, pen, rawX, boardVars, lines, spoilt>>

\* Mutant: tsc_data goes over the bus without a take.
TakePanelFree ==
  /\ main \in {"x", "y"} /\ main' = [x |-> "xing", y |-> "ying"][main]
  /\ UNCHANGED <<holder, total, index, pen, touchVars, boardVars, lines, spoilt>>

\* tsc_data takes the bus for one coordinate at a time.
TakePanel ==
  /\ main \in {"x", "y"} /\ Take("main")
  /\ main' = [x |-> "xing", y |-> "ying"][main]
  /\ UNCHANGED <<total, index, pen, touchVars, boardVars, lines, spoilt>>

ReadX ==
  /\ main = "xing" /\ Transfer /\ holder' = NULL
  /\ rawX' = IF pen = NULL THEN IdleX ELSE pen.x
  /\ main' = "y"
  /\ UNCHANGED <<total, index, pen, found, points, touched, boardVars, lines>>

\* Two coordinates of a panel at rest mean that nobody touches it.
ReadY ==
  /\ main = "ying" /\ Transfer /\ holder' = NULL
  /\ LET rawY == IF pen = NULL THEN IdleY ELSE pen.y IN
     IF rawX = IdleX /\ rawY = IdleY THEN Released ELSE Touched(Corrected(rawX, rawY))
  /\ main' = "loop" /\ rawX' = IdleX
  /\ UNCHANGED <<total, index, pen, boardVars, lines>>

Panel == StartRead \/ TakePanel \/ ReadX \/ ReadY

-----------------------------------------------------------------------------
(* The board task.  In "command" and "sample" it holds the mutex, in       *)
(* "power" it does not.                                                    *)

BoardOnly == UNCHANGED <<mainVars, pen, touchVars, lines, spoilt>>

\* xQueueReceive ends with a command or after half a second.
Receive ==
  /\ board = "receive"
  /\ board' \in {"take_command", "take_sample"}
  /\ BoardOnly /\ UNCHANGED <<holder, selected, input, lastPower>>

TakeExpander ==
  /\ board \in {"take_command", "take_sample"} /\ Take("board")
  /\ board' = IF board = "take_command" THEN "command" ELSE "sample"
  /\ BoardOnly /\ UNCHANGED <<selected, input, lastPower>>

\* cs_control(0) waits two ticks with the chip as it was, and two with it selected.
Select ==
  /\ board \in {"command", "sample", "power"} /\ selected = 0
  /\ selected' = 1
  /\ BoardOnly /\ UNCHANGED <<holder, board, input, lastPower>>

\* The end of an access; the task gives the mutex back when it holds it.
Leave(next) ==
  /\ selected = 1 /\ selected' = 0
  /\ board' = next
  /\ holder' = IF holder = "board" THEN NULL ELSE holder

\* mcp23x17_set_gpio_level with the level of a relay.
WriteRelay ==
  /\ board = "command" /\ Leave("take_sample")
  /\ BoardOnly /\ UNCHANGED <<input, lastPower>>

\* update_state; its two reads are one here.
UpdateState ==
  /\ board = "sample" /\ Leave("compare")
  /\ input' = lines
  /\ BoardOnly /\ UNCHANGED lastPower

Compare ==
  /\ board = "compare"
  /\ board' = IF input # lastPower THEN "power" ELSE "receive"
  /\ BoardOnly /\ UNCHANGED <<holder, selected, input, lastPower>>

WritePower ==
  /\ board = "power" /\ Leave("receive")
  /\ lastPower' = input
  /\ BoardOnly /\ UNCHANGED input

Board == Receive \/ TakeExpander \/ Select \/ WriteRelay \/ UpdateState \/ Compare \/ WritePower

-----------------------------------------------------------------------------
Environment ==
  /\ \/ pen' \in Pen /\ UNCHANGED lines
     \/ lines' \in Inputs /\ UNCHANGED pen
  /\ UNCHANGED <<holder, mainVars, touchVars, boardVars, spoilt>>

Next == BoardInit \/ Display \/ Panel \/ Board \/ Environment

Spec == Init /\ [][Next]_vars

\* Both tasks run; the sequences of commands are finite; the mutex wakes the task
\* that waits for it, and the main loop sleeps between two passes.
FairSpec ==
  /\ Spec
  /\ WF_vars(BoardInit \/ Display \/ Panel) /\ WF_vars(Board)
  /\ SF_vars(Configure /\ main' # main) /\ SF_vars(PowerUp /\ main' # main)
  /\ SF_vars(TakeDisplay) /\ SF_vars(TakePanel) /\ SF_vars(TakeExpander)

-----------------------------------------------------------------------------
(* Properties.                                                             *)

\* The values the variables range over; the average keeps XYAvg points at most.
TypeOK ==
  /\ holder \in {"main", "board", NULL}
  /\ main \in {"boot", "init", "initing", "powering", "loop", "flush", "flushing", "sending",
               "reconfigure", "reconfiguring", "x", "xing", "y", "ying"}
  /\ total \in 0 .. 2 * HorRes * VerRes /\ index \in 0 .. total
  /\ pen \in Pen /\ rawX \in RawX \cup {IdleX}
  /\ found \in 0 .. 1 /\ Len(points) <= XYAvg
  /\ board \in {"off", "receive", "take_command", "take_sample", "command", "sample",
                "compare", "power"}
  /\ selected \in 0 .. 1 /\ lines \in Inputs
  /\ input \in Inputs \cup {0} /\ lastPower \in Inputs \cup {256}

\* An access of the expander may hear the transfers of the display or of the panel
\* in the write that skips the mutex and in no other: the commands of the relays
\* and the samples of the power supply never do (system.c:37-45,
\* management_board.c:145-157, 170-172 and 179, tsc2046.c:111-114, SSD2119.c).
OnlyPowerSpoilt == spoilt \subseteq {"power"}

\* The flush sends the pixels of its area and not a byte more, whatever the size of
\* the last chunk (SSD2119.c:129-139).
FlushWhole == main = "loop" => index = total

\* A point that the panel reports lies among the points read since the panel was
\* last found released: nothing of an earlier touch is left in the average
\* (tsc2046.c:73-98 and 179-196).
AverageOfTouch ==
  found = 1 =>
    LET reported == Average(points) IN
    /\ \E p, q \in touched : p.x <= reported.x /\ reported.x <= q.x
    /\ \E p, q \in touched : p.y <= reported.y /\ reported.y <= q.y

\* Neither task keeps the bus from the other for ever: the main loop comes round, and
\* so does the board task (system.c:37-45).
BothGoOn == []<>(main = "loop") /\ []<>(board = "receive")
=============================================================================
