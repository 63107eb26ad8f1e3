--------------------------- MODULE NetworkProofs ---------------------------
(***************************************************************************)
(* Safety of module Network for any number of clients, device tasks and    *)
(* sockets.                                                                *)
(***************************************************************************)
EXTENDS Network, TLAPS

\* A client is served exactly in the service loop.
ServiceLoop == server \in {"read", "write"} <=> conn # NULL

\* Before socket() there is no listening socket.
NotYetOpen == server = "socket" => sockfd = 0

\* The device tasks hold no more than they have held at once.
PeakSeen == polling <= peak

\* The clients that wait or are served have a connection.
Connected == \A c \in Client : c \in backlog \/ c = conn => peer[c] # "away"

\* Of a split request its second half is still to come.
HalfToCome == \A c \in Client : waits[c] = "split" => rx[c] <= 1

\* The inductive invariant.
IInv ==
  /\ TypeOK /\ Connected /\ HalfToCome /\ ServiceLoop /\ NotYetOpen /\ PeakSeen
  /\ ServerLives

LEMMA InitIInv == Init => IInv
BY NetworkAssumption DEF NetworkAssumption, Init, IInv, TypeOK, Connected, HalfToCome, ServiceLoop, NotYetOpen, PeakSeen,
   ServerLives, InUse

-----------------------------------------------------------------------------
\* The part of the invariant that the clients cannot disturb.
Tasks ==
  /\ server \in {"socket", "bind", "listen", "accept", "read", "write", "dead"}
  /\ sockfd \in 0 .. 1 /\ conn \in Client \cup {NULL} /\ lost \in Nat /\ refused \in 0 .. 1
  /\ polling \in 0 .. Devices /\ peak \in 0 .. Devices
  /\ apiq \in Seq(Addr) /\ api \in Addr \cup {NULL} /\ http \in 0 .. 1
  /\ outputLen \in 0 .. MaxOutput
  /\ InUse <= MaxSockets
  /\ ServiceLoop /\ NotYetOpen /\ PeakSeen /\ ServerLives

\* The part that the clients share with the server.
Talk ==
  /\ backlog \subseteq Client /\ conn \notin backlog
  /\ peer \in [Client -> {"away", "open", "closed", "reset", "vanished"}]
  /\ waits \in [Client -> {"no", "whole", "split", "in vain"}]
  /\ rx \in [Client -> 0 .. 2]
  /\ Connected /\ HalfToCome

LEMMA Parts == IInv <=> Tasks /\ Talk
BY DEF IInv, TypeOK, Tasks, Talk

LEMMA TasksFrame ==
  ASSUME Tasks, UNCHANGED <<serverVars, deviceVars, apiVars>> PROVE Tasks'
BY DEF Tasks, ServiceLoop, NotYetOpen, PeakSeen, ServerLives, InUse,
   serverVars, deviceVars, apiVars

LEMMA TalkFrame ==
  ASSUME Talk, UNCHANGED <<clientVars, conn>> PROVE Talk'
BY DEF Talk, Connected, HalfToCome, clientVars

\* What a client does touches neither the tasks nor the sockets.
LEMMA ClientsKeep == ASSUME Tasks, Talk, Clients PROVE Tasks' /\ Talk'
<1> PICK c \in Client : Connect(c) \/ Request(c) \/ SecondHalf(c) \/ Leave(c)
  BY DEF Clients
<1>1. UNCHANGED <<serverVars, deviceVars, apiVars>>
  BY DEF Connect, Request, SecondHalf, Leave
<1>2. conn' = conn
  BY <1>1 DEF serverVars
<1>3. CASE Connect(c)
  <2>1. c # conn
    BY <1>3 DEF Connect, Talk, Connected
  <2> QED BY <1>1, <1>2, <1>3, <2>1, TasksFrame DEF Connect, Talk, Connected, HalfToCome
<1>4. CASE Request(c)
  <2>1. PICK kind \in {"whole", "split"} :
          /\ waits' = [waits EXCEPT ![c] = kind]
          /\ rx' = [rx EXCEPT ![c] = IF kind = "whole" THEN 2 ELSE 1]
    BY <1>4 DEF Request
  <2>2. backlog' = backlog /\ peer' = peer
    BY <1>4 DEF Request
  <2>3. waits' \in [Client -> {"no", "whole", "split", "in vain"}]
    BY <2>1 DEF Talk
  <2> DEFINE n == IF kind = "whole" THEN 2 ELSE 1
  <2>7. n \in 0 .. 2 /\ (kind = "split" => n <= 1) /\ rx' = [rx EXCEPT ![c] = n]
    BY <2>1
  <2> HIDE DEF n
  <2>4. rx' \in [Client -> 0 .. 2]
    BY <2>7 DEF Talk
  <2>5. HalfToCome'
    BY <2>1, <2>7 DEF Talk, HalfToCome
  <2>6. Connected'
    BY <1>2, <2>2 DEF Talk, Connected
  <2> QED BY <1>1, <1>2, <2>2, <2>3, <2>4, <2>5, <2>6, TasksFrame DEF Talk
<1>5. CASE SecondHalf(c)
  <2>1. waits' = [waits EXCEPT ![c] = "in vain"] /\ rx' = [rx EXCEPT ![c] = rx[c] + 1]
    BY <1>5 DEF SecondHalf
  <2>2. backlog' = backlog /\ peer' = peer
    BY <1>5 DEF SecondHalf
  <2>3. waits[c] = "split"
    BY <1>5 DEF SecondHalf
  <2>4. rx[c] <= 1 /\ rx[c] \in 0 .. 2
    BY <2>3 DEF Talk, HalfToCome
  <2>5. waits' \in [Client -> {"no", "whole", "split", "in vain"}]
    BY <2>1 DEF Talk
  <2>6. rx' \in [Client -> 0 .. 2]
    <3>1. rx[c] + 1 \in 0 .. 2
      BY <2>4
    <3> QED BY <2>1, <3>1 DEF Talk
  <2>7. HalfToCome'
    BY <2>1 DEF Talk, HalfToCome
  <2>8. Connected'
    BY <1>2, <2>2 DEF Talk, Connected
  <2> QED BY <1>1, <1>2, <2>2, <2>5, <2>6, <2>7, <2>8, TasksFrame DEF Talk
<1>6. CASE Leave(c)
  <2>1. PICK how \in {"closed", "reset", "vanished"} : peer' = [peer EXCEPT ![c] = how]
    BY <1>6 DEF Leave
  <2> QED BY <1>1, <1>2, <1>6, <2>1, TasksFrame DEF Leave, Talk, Connected, HalfToCome
<1> QED BY <1>3, <1>4, <1>5, <1>6

LEMMA PollsKeep == ASSUME Tasks, Talk, Polls PROVE Tasks' /\ Talk'
<1>1. UNCHANGED <<clientVars, serverVars, apiVars>>
  BY DEF Polls
<1>2. polling' \in 0 .. Devices /\ InUse' <= MaxSockets
  BY NetworkAssumption
  DEF Polls, NoSocket, InUse, Tasks, NetworkAssumption, serverVars, apiVars
<1>3. peak' \in 0 .. Devices /\ polling' <= peak' /\ peak <= peak'
  BY <1>2, NetworkAssumption DEF Polls, Tasks, NetworkAssumption
<1>4. ServerLives'
  <2>1. lost \in Nat /\ peak \in Nat /\ peak' \in Nat /\ MaxSockets \in Nat
    BY <1>3, NetworkAssumption DEF Tasks, NetworkAssumption
  <2>2. UNCHANGED <<server, lost, refused>>
    BY <1>1 DEF serverVars
  <2>3. lost + peak + 2 >= MaxSockets => lost + peak' + 2 >= MaxSockets
    <3>1. \A l, old, new, pool \in Nat :
            old <= new /\ l + old + 2 >= pool => l + new + 2 >= pool
      OBVIOUS
    <3> QED BY <1>3, <2>1, <3>1
  <2> QED BY <2>2, <2>3 DEF Tasks, ServerLives
<1>5. Tasks'
  BY <1>1, <1>2, <1>3, <1>4 DEF Tasks, ServiceLoop, NotYetOpen, PeakSeen, serverVars, apiVars
<1>6. conn' = conn /\ UNCHANGED clientVars
  BY <1>1 DEF serverVars
<1> QED BY <1>5, <1>6, TalkFrame

-----------------------------------------------------------------------------
\* What the server does leaves the API task and the device tasks alone.
LEMMA ServerTasks ==
  ASSUME Tasks, ServerOnly,
         server' \in {"socket", "bind", "listen", "accept", "read", "write", "dead"},
         sockfd' \in 0 .. 1, conn' \in Client \cup {NULL}, lost' \in Nat, refused' \in 0 .. 1,
         InUse' <= MaxSockets, ServiceLoop', NotYetOpen', ServerLives'
  PROVE  Tasks'
BY DEF Tasks, ServerOnly, PeakSeen, deviceVars, apiVars

LEMMA CreateKeeps == ASSUME Tasks, Talk, Create PROVE Tasks' /\ Talk'
<1>1. ServerOnly /\ UNCHANGED <<clientVars, conn, lost, refused>>
  BY DEF Create
<1>2. sockfd = 0 /\ conn = NULL
  BY DEF Create, Tasks, NotYetOpen, ServiceLoop
<1>3. CASE NoSocket
  <2>1. server' = "dead" /\ sockfd' = sockfd
    BY <1>3 DEF Create
  <2>2. lost' + peak' + 2 >= MaxSockets
    BY <1>1, <1>2, <1>3, NetworkAssumption
    DEF NoSocket, InUse, Tasks, PeakSeen, ServerOnly, deviceVars, NetworkAssumption
  <2>3. InUse' <= MaxSockets
    BY <1>1, <2>1 DEF Tasks, InUse, ServerOnly, deviceVars, apiVars
  <2> QED BY <1>1, <1>2, <2>1, <2>2, <2>3, ServerTasks, TalkFrame
      DEF Tasks, ServiceLoop, NotYetOpen, ServerLives
<1>4. CASE ~ NoSocket
  <2>1. server' = "bind" /\ sockfd' = 1
    BY <1>4 DEF Create
  <2>2. InUse' <= MaxSockets
    BY <1>1, <1>2, <1>4, <2>1, NetworkAssumption
    DEF Tasks, InUse, NoSocket, ServerOnly, deviceVars, apiVars, NetworkAssumption
  <2> QED BY <1>1, <1>2, <2>1, <2>2, ServerTasks, TalkFrame
      DEF Tasks, ServiceLoop, NotYetOpen, ServerLives
<1> QED BY <1>3, <1>4

LEMMA BindKeeps == ASSUME Tasks, Talk, Bind PROVE Tasks' /\ Talk'
<1>1. ServerOnly /\ UNCHANGED <<clientVars, sockfd, conn, lost>>
  BY DEF Bind
<1>2. /\ server' \in {"listen", "dead"}
      /\ refused' \in {refused, 1}
      /\ server' = "dead" => refused' = 1
  BY DEF Bind
<1>3. conn = NULL
  BY DEF Bind, Tasks, ServiceLoop
<1>4. InUse' <= MaxSockets
  BY <1>1 DEF Tasks, InUse, ServerOnly, deviceVars, apiVars
<1> QED BY <1>1, <1>2, <1>3, <1>4, ServerTasks, TalkFrame
    DEF Tasks, ServiceLoop, NotYetOpen, ServerLives

\* The end of the server resets the clients that wait.
LEMMA DieTalk == ASSUME Talk, Die, conn' = conn PROVE Talk'
<1>1. /\ backlog' = {}
      /\ peer' = [c \in Client |-> IF c \in backlog THEN "away" ELSE peer[c]]
      /\ waits' = [c \in Client |-> IF c \in backlog THEN "no" ELSE waits[c]]
      /\ rx' = [c \in Client |-> IF c \in backlog THEN 0 ELSE rx[c]]
  BY DEF Die
<1>2. Connected'
  <2> SUFFICES ASSUME NEW c \in Client, c = conn PROVE peer'[c] # "away"
    BY <1>1 DEF Connected
  <2>1. c \notin backlog /\ peer[c] # "away"
    BY DEF Talk, Connected
  <2> QED BY <1>1, <2>1
<1>3. HalfToCome'
  BY <1>1 DEF Talk, HalfToCome
<1>4. peer' \in [Client -> {"away", "open", "closed", "reset", "vanished"}]
  BY <1>1 DEF Talk
<1>5. waits' \in [Client -> {"no", "whole", "split", "in vain"}]
  BY <1>1 DEF Talk
<1>6. rx' \in [Client -> 0 .. 2]
  <2>1. ASSUME NEW c \in Client PROVE (IF c \in backlog THEN 0 ELSE rx[c]) \in 0 .. 2
    <3>1. rx[c] \in 0 .. 2
      BY DEF Talk
    <3> QED BY <3>1
  <2> QED BY <1>1, <2>1
<1> QED BY <1>1, <1>2, <1>3, <1>4, <1>5, <1>6 DEF Talk

LEMMA ListenKeeps == ASSUME Tasks, Talk, Listen PROVE Tasks' /\ Talk'
<1>1. ServerOnly /\ UNCHANGED <<conn, lost>>
  BY DEF Listen
<1>2. conn = NULL
  BY DEF Listen, Tasks, ServiceLoop
<1>3. CASE server' = "accept" /\ UNCHANGED <<clientVars, sockfd, refused>>
  <2>1. InUse' <= MaxSockets
    BY <1>1, <1>3 DEF Tasks, InUse, ServerOnly, deviceVars, apiVars
  <2> QED BY <1>1, <1>2, <1>3, <2>1, ServerTasks, TalkFrame
      DEF Tasks, ServiceLoop, NotYetOpen, ServerLives
<1>4. CASE Die /\ refused' = 1
  <2>1. server' = "dead" /\ sockfd' = 0
    BY <1>4 DEF Die
  <2>2. InUse' <= MaxSockets
    BY <1>1, <2>1, NetworkAssumption DEF Tasks, InUse, ServerOnly, deviceVars, apiVars, NetworkAssumption
  <2>3. Tasks'
    BY <1>1, <1>2, <1>4, <2>1, <2>2, ServerTasks DEF Tasks, ServiceLoop, NotYetOpen, ServerLives
  <2> QED BY <1>1, <1>4, <2>3, DieTalk
<1> QED BY <1>3, <1>4 DEF Listen

\* accept fails for want of a socket, or is refused.
LEMMA AcceptKeeps == ASSUME Tasks, Talk, Accept PROVE Tasks' /\ Talk'
<1>1. ServerOnly /\ lost' = lost
  BY DEF Accept
<1>2. conn = NULL
  BY DEF Accept, Tasks, ServiceLoop
<1>3. CASE Die /\ refused' = (IF NoSocket THEN refused ELSE 1) /\ UNCHANGED conn
  <2>1. server' = "dead" /\ sockfd' = 0
    BY <1>3 DEF Die
  <2>2. refused' \in 0 .. 1
    BY <1>3 DEF Tasks
  <2>3. refused' = 1 \/ lost' + peak' + 2 >= MaxSockets
    <3>1. CASE NoSocket
      BY <1>1, <1>2, <3>1, NetworkAssumption
      DEF NoSocket, InUse, Tasks, PeakSeen, ServerOnly, deviceVars, NetworkAssumption
    <3>2. CASE ~NoSocket
      BY <1>3, <3>2
    <3> QED BY <3>1, <3>2
  <2>4. InUse' <= MaxSockets
    BY <1>1, <1>3, <2>1, NetworkAssumption
    DEF Tasks, InUse, ServerOnly, deviceVars, apiVars, NetworkAssumption
  <2>5. Tasks'
    BY <1>1, <1>2, <1>3, <2>1, <2>2, <2>3, <2>4, ServerTasks
    DEF Tasks, ServiceLoop, NotYetOpen, ServerLives
  <2> QED BY <1>3, <2>5, DieTalk
<1>4. ASSUME NEW c \in backlog, ~NoSocket, conn' = c, backlog' = backlog \ {c}, server' = "read",
             UNCHANGED <<peer, waits, rx, sockfd, refused>>
      PROVE  Tasks' /\ Talk'
  <2>1. c \in Client /\ peer[c] # "away"
    BY DEF Talk, Connected
  <2>2. c # NULL
    BY <2>1, NetworkAssumption DEF NetworkAssumption
  <2>3. InUse' <= MaxSockets
    BY <1>1, <1>2, <1>4, <2>2, NetworkAssumption
    DEF Tasks, InUse, NoSocket, ServerOnly, deviceVars, apiVars, NetworkAssumption
  <2>4. Tasks'
    BY <1>1, <1>4, <2>1, <2>2, <2>3, ServerTasks DEF Tasks, ServiceLoop, NotYetOpen, ServerLives
  <2>5. Talk'
    BY <1>4, <2>1 DEF Talk, Connected, HalfToCome
  <2> QED BY <2>4, <2>5
<1> QED BY <1>3, <1>4 DEF Accept

\* What has been read is no longer there.
LEMMA ReadAway ==
  ASSUME Talk, NEW c \in Client, rx' = [rx EXCEPT ![c] = 0], waits' = waits
  PROVE  rx' \in [Client -> 0 .. 2] /\ HalfToCome'
<1>1. rx \in [Client -> 0 .. 2]
  BY DEF Talk
<1>2. rx' \in [Client -> 0 .. 2]
  BY <1>1
<1>3. ASSUME NEW d \in Client, waits[d] = "split" PROVE rx'[d] <= 1
  <2>1. CASE d = c
    BY <1>1, <2>1
  <2>2. CASE d # c
    BY <1>1, <1>3, <2>2 DEF Talk, HalfToCome
  <2> QED BY <2>1, <2>2
<1> QED BY <1>2, <1>3 DEF HalfToCome

\* A connection that is forgotten goes on holding its socket.
LEMMA ForgetKeeps ==
  ASSUME Tasks, Talk, conn # NULL, Forget, ServerOnly, UNCHANGED <<backlog, sockfd, refused>>,
         waits' = waits
  PROVE  Tasks' /\ Talk'
<1>1. server' = "listen" /\ conn' = NULL /\ lost' = lost + 1
  BY DEF Forget
<1>2. peer' = [peer EXCEPT ![conn] = "away"] /\ rx' = [rx EXCEPT ![conn] = 0]
  BY DEF Forget
<1>3. conn \in Client
  BY DEF Tasks
<1>4. InUse' <= MaxSockets
  BY <1>1 DEF Tasks, InUse, ServerOnly, deviceVars, apiVars
<1>5. Tasks'
  BY <1>1, <1>4, ServerTasks DEF Tasks, ServiceLoop, NotYetOpen, ServerLives
<1>6. peer' \in [Client -> {"away", "open", "closed", "reset", "vanished"}]
  BY <1>2 DEF Talk
<1>7. rx' \in [Client -> 0 .. 2] /\ HalfToCome'
  BY <1>2, <1>3, ReadAway
<1>8. Connected'
  BY <1>1, <1>2, <1>3, NetworkAssumption DEF Talk, Connected, NetworkAssumption
<1> QED BY <1>1, <1>5, <1>6, <1>7, <1>8, NetworkAssumption DEF Talk, NetworkAssumption

LEMMA ReadKeeps == ASSUME Tasks, Talk, Read PROVE Tasks' /\ Talk'
<1>1. ServerOnly /\ UNCHANGED <<backlog, peer, waits, sockfd, conn, lost, refused>>
  BY DEF Read
<1>2. conn \in Client /\ conn # NULL
  BY DEF Read, Tasks, ServiceLoop
<1>3. server' \in {"read", "write"} /\ rx' = [rx EXCEPT ![conn] = 0]
  BY DEF Read
<1>4. InUse' <= MaxSockets
  BY <1>1 DEF Tasks, InUse, ServerOnly, deviceVars, apiVars
<1>5. Tasks'
  BY <1>1, <1>2, <1>3, <1>4, ServerTasks DEF Tasks, ServiceLoop, NotYetOpen, ServerLives
<1>6. rx' \in [Client -> 0 .. 2] /\ HalfToCome'
  BY <1>1, <1>2, <1>3, ReadAway
<1> QED BY <1>1, <1>5, <1>6 DEF Talk, Connected

LEMMA ReadFailsKeeps == ASSUME Tasks, Talk, ReadFails PROVE Tasks' /\ Talk'
BY ForgetKeeps DEF ReadFails, Tasks, ServiceLoop

LEMMA WriteKeeps == ASSUME Tasks, Talk, Write PROVE Tasks' /\ Talk'
<1>1. ServerOnly /\ UNCHANGED <<backlog, sockfd, refused>>
  BY DEF Write
<1>2. conn \in Client /\ conn # NULL
  BY DEF Write, Tasks, ServiceLoop
<1>3. CASE peer[conn] = "reset"
  BY <1>1, <1>2, <1>3, ForgetKeeps DEF Write
<1>4. CASE peer[conn] # "reset"
  <2>1. server' = "read" /\ UNCHANGED <<rx, conn, lost>>
    BY <1>4 DEF Write
  <2>2. waits' = [waits EXCEPT ![conn] = "no"]
    BY <1>4 DEF Write
  <2>3. PICK how \in {peer[conn], "reset"} : peer' = [peer EXCEPT ![conn] = how]
    BY <1>4 DEF Write
  <2>4. InUse' <= MaxSockets
    BY <1>1, <2>1 DEF Tasks, InUse, ServerOnly, deviceVars, apiVars
  <2>5. Tasks'
    BY <1>1, <1>2, <2>1, <2>4, ServerTasks DEF Tasks, ServiceLoop, NotYetOpen, ServerLives
  <2>6. how \in {"open", "closed", "reset", "vanished"}
    BY <1>2 DEF Talk, Connected
  <2>7. peer' \in [Client -> {"away", "open", "closed", "reset", "vanished"}]
    BY <2>3, <2>6 DEF Talk
  <2>8. Connected'
    BY <1>1, <2>1, <2>3, <2>6 DEF Talk, Connected
  <2>9. HalfToCome'
    BY <2>1, <2>2 DEF Talk, HalfToCome
  <2>10. waits' \in [Client -> {"no", "whole", "split", "in vain"}]
    BY <2>2 DEF Talk
  <2> QED BY <1>1, <2>1, <2>5, <2>7, <2>8, <2>9, <2>10 DEF Talk
<1> QED BY <1>3, <1>4

-----------------------------------------------------------------------------
LEMMA ApiTasks ==
  ASSUME Tasks, ApiOnly, apiq' \in Seq(Addr), api' \in Addr \cup {NULL}, http' \in 0 .. 1,
         outputLen' \in 0 .. MaxOutput, InUse' <= MaxSockets
  PROVE  Tasks'
BY DEF Tasks, ApiOnly, ServiceLoop, NotYetOpen, PeakSeen, ServerLives, serverVars, deviceVars

LEMMA QueueKeeps ==
  ASSUME Tasks, ApiOnly, UNCHANGED <<http, outputLen>>,
         apiq' \in Seq(Addr), api' \in Addr \cup {NULL}
  PROVE  Tasks'
<1>1. InUse' <= MaxSockets
  BY DEF Tasks, InUse, ApiOnly, serverVars, deviceVars
<1> QED BY <1>1, ApiTasks DEF Tasks

LEMMA PerformKeeps == ASSUME Tasks, Perform PROVE Tasks'
<1>1. ApiOnly /\ UNCHANGED <<apiq, outputLen>>
  BY DEF Perform
<1>2. CASE NoSocket
  BY <1>1, <1>2, QueueKeeps DEF Perform, Tasks
<1>3. CASE ~ NoSocket
  <2>1. http = 0 /\ http' = 1 /\ api' = api
    BY <1>3 DEF Perform
  <2>2. InUse' <= MaxSockets
    BY <1>1, <1>3, <2>1, NetworkAssumption
    DEF Tasks, InUse, NoSocket, ApiOnly, serverVars, deviceVars, NetworkAssumption
  <2> QED BY <1>1, <2>1, <2>2, ApiTasks DEF Tasks
<1> QED BY <1>2, <1>3

LEMMA OnDataKeeps == ASSUME Tasks, OnData PROVE Tasks'
<1>1. ApiOnly /\ UNCHANGED <<apiq, api, http>>
  BY DEF OnData
<1>2. InUse' <= MaxSockets
  BY <1>1 DEF Tasks, InUse, ApiOnly, serverVars, deviceVars
<1>3. outputLen' \in 0 .. MaxOutput
  BY NetworkAssumption DEF OnData, Tasks, NetworkAssumption
<1> QED BY <1>1, <1>2, <1>3, ApiTasks DEF Tasks

\* The end of a request gives its socket back.
LEMMA CleanupKeeps ==
  ASSUME Tasks, ApiOnly, UNCHANGED apiq, Cleanup, outputLen' \in 0 .. MaxOutput
  PROVE  Tasks'
<1>1. http = 1 /\ http' = 0 /\ api' = NULL
  BY DEF Cleanup
<1>2. InUse' <= MaxSockets
  BY <1>1, NetworkAssumption DEF Tasks, InUse, ApiOnly, serverVars, deviceVars, NetworkAssumption
<1> QED BY <1>1, <1>2, ApiTasks DEF Tasks

LEMMA OnFinishKeeps == ASSUME Tasks, OnFinish PROVE Tasks'
<1>1. outputLen' \in 0 .. MaxOutput
  BY NetworkAssumption DEF OnFinish, NetworkAssumption
<1> QED BY <1>1, CleanupKeeps DEF OnFinish

LEMMA BreakOffKeeps == ASSUME Tasks, BreakOff PROVE Tasks'
BY CleanupKeeps DEF BreakOff, Tasks

LEMMA ReceiveKeeps == ASSUME Tasks, ApiReceive PROVE Tasks'
<1>1. ApiOnly /\ UNCHANGED <<http, outputLen>> /\ apiq # <<>>
  BY DEF ApiReceive
<1>2. api' = Head(apiq) /\ apiq' = Tail(apiq)
  BY DEF ApiReceive
<1>3. Head(apiq) \in Addr /\ Tail(apiq) \in Seq(Addr)
  BY <1>1 DEF Tasks
<1> QED BY <1>1, <1>2, <1>3, QueueKeeps

LEMMA EnableKeeps == ASSUME Tasks, NEW a \in Addr, EnableAsync(a) PROVE Tasks'
<1>1. ApiOnly /\ UNCHANGED <<api, http, outputLen>>
  BY DEF EnableAsync
<1>2. apiq' \in {apiq, Append(apiq, a)}
  BY DEF EnableAsync
<1>3. apiq' \in Seq(Addr)
  BY <1>2 DEF Tasks
<1> QED BY <1>1, <1>3, QueueKeeps DEF Tasks

-----------------------------------------------------------------------------
LEMMA NextIInv == ASSUME IInv, [Next]_vars PROVE IInv'
<1> SUFFICES Tasks' /\ Talk'
  BY DEF IInv, TypeOK, Tasks, Talk
<1>0. Tasks /\ Talk
  BY Parts
<1>1. CASE Clients
  BY <1>0, <1>1, ClientsKeep
<1>2. CASE Polls
  BY <1>0, <1>2, PollsKeep
<1>3. CASE Server
  BY <1>0, <1>3, CreateKeeps, BindKeeps, ListenKeeps, AcceptKeeps, ReadKeeps, ReadFailsKeeps,
     WriteKeeps DEF Server
<1>4. ASSUME ApiOnly, Tasks' PROVE Tasks' /\ Talk'
  BY <1>0, <1>4, TalkFrame DEF ApiOnly, serverVars
<1>5. CASE \E a \in Addr : EnableAsync(a)
  BY <1>0, <1>4, <1>5, EnableKeeps DEF EnableAsync
<1>6. CASE ApiTask
  <2>1. Tasks'
    BY <1>0, <1>6, ReceiveKeeps, PerformKeeps, OnFinishKeeps, BreakOffKeeps DEF ApiTask
  <2>2. ApiOnly
    BY <1>6 DEF ApiTask, ApiReceive, Perform, OnFinish, BreakOff
  <2> QED BY <1>4, <2>1, <2>2
<1>7. CASE OnData
  BY <1>0, <1>4, <1>7, OnDataKeeps DEF OnData
<1>8. CASE UNCHANGED vars
  BY <1>0, <1>8, TasksFrame, TalkFrame DEF vars, serverVars
<1> QED BY <1>1, <1>2, <1>3, <1>5, <1>6, <1>7, <1>8 DEF Next

LEMMA Inductive == Spec => []IInv
BY InitIInv, NextIInv, PTL DEF Spec

\* However many clients, device tasks and requests there are, the variables keep to
\* their values, and the sockets in use to the pool.
THEOREM TypeCorrect == Spec => []TypeOK
<1>1. IInv => TypeOK
  BY DEF IInv
<1> QED BY <1>1, Inductive, PTL

\* No error of a client it serves ends the server, for any number of device tasks and
\* sockets: bind, listen or accept was refused, or the connections it has forgotten,
\* with what the device tasks have held at once, used up the pool
\* (modbus_server.c:98-138 and 146-171).
THEOREM ServerSurvives == Spec => []ServerLives
<1>1. IInv => ServerLives
  BY DEF IInv
<1> QED BY <1>1, Inductive, PTL
=============================================================================
