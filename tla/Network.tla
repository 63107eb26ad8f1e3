------------------------------ MODULE Network ------------------------------
(***************************************************************************)
(* The tasks that share the sockets of the TCP/IP stack: the Modbus server *)
(* (src/main/controller/modbus_server.c), which serves one client at a     *)
(* time, the API task (src/main/network/api_manager.c), which performs the *)
(* requests the main loop queues, and the device tasks, here only as the   *)
(* number of sockets they hold (module Connections has the rest).          *)
(*                                                                         *)
(* A Modbus request is two halves on the wire, so that the server may read *)
(* less than all of it; what is in a register is the matter of module      *)
(* DeviceStatus.                                                           *)
(***************************************************************************)
EXTENDS Naturals, Sequences, FiniteSets

CONSTANTS
  Client,          \* Modbus clients
  Backlog,         \* connections that may wait for accept (1)
  Devices,         \* device tasks, of one socket each
  MaxSockets,      \* CONFIG_LWIP_MAX_SOCKETS (16)
  Addr,            \* devices the user may enable again
  ApiQueueLength,  \* capacity of the queue of the API task (8)
  MaxOutput,       \* bound of the pieces of answers counted at a time
  NULL

ASSUME NetworkAssumption ==
  /\ Backlog \in Nat \ {0} /\ Devices \in Nat
  /\ MaxSockets \in Nat \ {0}
  /\ ApiQueueLength \in Nat \ {0} /\ MaxOutput \in Nat
  /\ NULL \notin Client /\ NULL \notin Addr

VARIABLES
  server,   \* where modbus_server_task is
  sockfd,   \* 1 when the listening socket is open
  conn,     \* the client connfd belongs to
  backlog,  \* clients whose connection waits for accept
  peer,     \* what a client has done with its connection
  waits,    \* the answer a client waits for
  rx,       \* halves of a request received for a client and not read
  lost,     \* values of connfd that were never closed
  polling,  \* sockets of the device tasks
  apiq,     \* requests queued for the API task
  api,      \* the request it performs
  http,     \* 1 when its socket is open
  outputLen \* static output_len of _http_event_handler

\* History variables: no action reads them.
VARIABLES
  refused,  \* bind or listen has failed, or accept although there was a socket
  peak      \* most sockets the device tasks have held at once

clientVars == <<backlog, peer, waits, rx>>
serverVars == <<server, sockfd, conn, lost, refused>>
deviceVars == <<polling, peak>>
apiVars == <<apiq, api, http, outputLen>>
vars == <<clientVars, serverVars, deviceVars, apiVars>>

InUse == sockfd + (IF conn = NULL THEN 0 ELSE 1) + lost + polling + http
NoSocket == InUse >= MaxSockets

Init ==
  /\ server = "socket" /\ sockfd = 0 /\ conn = NULL /\ lost = 0 /\ refused = 0
  /\ backlog = {}
  /\ peer = [c \in Client |-> "away"]
  /\ waits = [c \in Client |-> "no"]
  /\ rx = [c \in Client |-> 0]
  /\ polling = 0 /\ peak = 0
  /\ apiq = <<>> /\ api = NULL /\ http = 0
  /\ outputLen = 0

-----------------------------------------------------------------------------
(* The clients and the wire.                                               *)

\* The stack answers for the server as soon as it listens.
Connect(c) ==
  /\ sockfd = 1 /\ server \notin {"bind", "dead"}
  /\ peer[c] = "away" /\ Cardinality(backlog) < Backlog
  /\ peer' = [peer EXCEPT ![c] = "open"]
  /\ backlog' = backlog \cup {c}
  /\ UNCHANGED <<waits, rx, serverVars, deviceVars, apiVars>>

\* A request arrives whole, or its first half does.
Request(c) ==
  /\ peer[c] = "open" /\ waits[c] = "no"
  /\ \E kind \in {"whole", "split"} :
       /\ waits' = [waits EXCEPT ![c] = kind]
       /\ rx' = [rx EXCEPT ![c] = IF kind = "whole" THEN 2 ELSE 1]
  /\ UNCHANGED <<backlog, peer, serverVars, deviceVars, apiVars>>

\* The second half of a split request; nothing follows it.
SecondHalf(c) ==
  /\ peer[c] = "open" /\ waits[c] = "split"
  /\ waits' = [waits EXCEPT ![c] = "in vain"]
  /\ rx' = [rx EXCEPT ![c] = @ + 1]
  /\ UNCHANGED <<backlog, peer, serverVars, deviceVars, apiVars>>

\* The client closes, is reset, or is switched off without a word.
Leave(c) ==
  /\ peer[c] = "open"
  /\ \E how \in {"closed", "reset", "vanished"} : peer' = [peer EXCEPT ![c] = how]
  /\ waits' = [waits EXCEPT ![c] = "no"]
  /\ UNCHANGED <<backlog, rx, serverVars, deviceVars, apiVars>>

Clients == \E c \in Client : Connect(c) \/ Request(c) \/ SecondHalf(c) \/ Leave(c)

\* A device task opens or closes its socket.
Polls ==
  /\ \/ ~NoSocket /\ polling < Devices /\ polling' = polling + 1
     \/ polling > 0 /\ polling' = polling - 1
  /\ peak' = IF polling' > peak THEN polling' ELSE peak
  /\ UNCHANGED <<clientVars, serverVars, apiVars>>

-----------------------------------------------------------------------------
(* modbus_server_task.                                                     *)

ServerOnly == UNCHANGED <<deviceVars, apiVars>>

\* socket(); without one the task deletes itself.
Create ==
  /\ server = "socket"
  /\ IF NoSocket THEN server' = "dead" /\ UNCHANGED sockfd ELSE server' = "bind" /\ sockfd' = 1
  /\ ServerOnly /\ UNCHANGED <<clientVars, conn, lost, refused>>

\* The task deletes itself and leaves sockfd open when bind fails.
Bind ==
  /\ server = "bind"
  /\ \/ server' = "listen" /\ UNCHANGED refused
     \/ server' = "dead" /\ refused' = 1
  /\ ServerOnly /\ UNCHANGED <<clientVars, sockfd, conn, lost>>

\* The task leaves its loop, closes sockfd and deletes itself: the clients that
\* wait for accept are reset.
Die ==
  /\ server' = "dead" /\ sockfd' = 0
  /\ backlog' = {}
  /\ peer' = [c \in Client |-> IF c \in backlog THEN "away" ELSE peer[c]]
  /\ waits' = [c \in Client |-> IF c \in backlog THEN "no" ELSE waits[c]]
  /\ rx' = [c \in Client |-> IF c \in backlog THEN 0 ELSE rx[c]]

Listen ==
  /\ server = "listen"
  /\ \/ server' = "accept" /\ UNCHANGED <<clientVars, sockfd, refused>>
     \/ Die /\ refused' = 1
  /\ ServerOnly /\ UNCHANGED <<conn, lost>>

\* Mutant: sockfd stays open when the task ends.
AcceptKeepsListener ==
  /\ server = "accept"
  /\ \E c \in backlog :
       \/ /\ NoSocket \/ peer[c] = "reset"
          /\ server' = "dead" /\ refused' = IF NoSocket THEN refused ELSE 1
          /\ UNCHANGED <<clientVars, sockfd, conn>>
       \/ /\ ~NoSocket
          /\ conn' = c /\ backlog' = backlog \ {c} /\ server' = "read"
          /\ UNCHANGED <<peer, waits, rx, sockfd, refused>>
  /\ ServerOnly /\ UNCHANGED lost

\* accept needs a socket of its own for the connection, and may fail for a client
\* that was reset while it waited; either ends the task.
Accept ==
  /\ server = "accept"
  /\ \E c \in backlog :
       \/ /\ NoSocket \/ peer[c] = "reset"
          /\ Die /\ refused' = IF NoSocket THEN refused ELSE 1
          /\ UNCHANGED conn
       \/ /\ ~NoSocket
          /\ conn' = c /\ backlog' = backlog \ {c} /\ server' = "read"
          /\ UNCHANGED <<peer, waits, rx, sockfd, refused>>
  /\ ServerOnly /\ UNCHANGED lost

\* Mutant: an error of one client leaves both loops.
ForgetAndEnd ==
  /\ server' = "dead"
  /\ conn' = NULL /\ lost' = lost + 1
  /\ peer' = [peer EXCEPT ![conn] = "away"]
  /\ rx' = [rx EXCEPT ![conn] = 0]

\* The service loop is left and connfd forgotten.
Forget ==
  /\ server' = "listen"
  /\ conn' = NULL /\ lost' = lost + 1
  /\ peer' = [peer EXCEPT ![conn] = "away"]
  /\ rx' = [rx EXCEPT ![conn] = 0]

\* read takes all there is: a request is answered if all of it is there, half a
\* request is logged and dropped.
Read ==
  /\ server = "read" /\ rx[conn] > 0
  /\ server' = IF rx[conn] = 2 THEN "write" ELSE "read"
  /\ rx' = [rx EXCEPT ![conn] = 0]
  /\ ServerOnly /\ UNCHANGED <<backlog, peer, waits, sockfd, conn, lost, refused>>

\* read returns -1.  On a connection the client has closed it returns 0, which is
\* parsed like a request: the loop turns and nothing changes.
ReadFails ==
  /\ server = "read" /\ rx[conn] = 0 /\ peer[conn] = "reset"
  /\ Forget
  /\ ServerOnly /\ UNCHANGED <<backlog, waits, sockfd, refused>>

\* Mutant: an answer is prepared and not written.
WriteNothing ==
  /\ server = "write"
  /\ IF peer[conn] = "reset" THEN Forget /\ UNCHANGED waits
     ELSE server' = "read" /\ UNCHANGED <<peer, waits, rx, conn, lost>>
  /\ ServerOnly /\ UNCHANGED <<backlog, sockfd, refused>>

\* The answer, a value or an exception; it makes the stack of a client that has
\* closed reset the connection.
Write ==
  /\ server = "write"
  /\ IF peer[conn] = "reset"
     THEN Forget /\ UNCHANGED waits
     ELSE /\ server' = "read"
          /\ waits' = [waits EXCEPT ![conn] = "no"]
          /\ peer' = [peer EXCEPT ![conn] = IF @ = "closed" THEN "reset" ELSE @]
          /\ UNCHANGED <<rx, conn, lost>>
  /\ ServerOnly /\ UNCHANGED <<backlog, sockfd, refused>>

Server == Create \/ Bind \/ Listen \/ Accept \/ Read \/ ReadFails \/ Write

-----------------------------------------------------------------------------
(* api_manager.c.                                                          *)

ApiOnly == UNCHANGED <<clientVars, serverVars, deviceVars>>

\* api_manager_enable_async: xQueueSend(queue, &msg, 0)
EnableAsync(a) ==
  /\ apiq' = IF Len(apiq) < ApiQueueLength THEN Append(apiq, a) ELSE apiq
  /\ ApiOnly /\ UNCHANGED <<api, http, outputLen>>

ApiReceive ==
  /\ api = NULL /\ apiq # <<>>
  /\ api' = Head(apiq) /\ apiq' = Tail(apiq)
  /\ ApiOnly /\ UNCHANGED <<http, outputLen>>

\* Mutant: the request waits until there is a socket.
PerformWaits ==
  /\ api # NULL /\ http = 0
  /\ ~NoSocket
  /\ http' = 1 /\ UNCHANGED api
  /\ ApiOnly /\ UNCHANGED <<apiq, outputLen>>

\* esp_http_client_perform: without a socket it fails, and the request is over.
Perform ==
  /\ api # NULL /\ http = 0
  /\ IF NoSocket THEN api' = NULL /\ UNCHANGED http ELSE http' = 1 /\ UNCHANGED api
  /\ ApiOnly /\ UNCHANGED <<apiq, outputLen>>

\* HTTP_EVENT_ON_DATA: a piece of the answer is copied if it fits and counted anyway.
OnData ==
  /\ http = 1 /\ outputLen < MaxOutput
  /\ outputLen' = outputLen + 1
  /\ ApiOnly /\ UNCHANGED <<apiq, api, http>>

\* esp_http_client_cleanup
Cleanup == http = 1 /\ http' = 0 /\ api' = NULL

\* HTTP_EVENT_ON_FINISH, then the end of the request.
OnFinish == Cleanup /\ outputLen' = 0 /\ ApiOnly /\ UNCHANGED apiq

\* The connection fails or four seconds pass: HTTP_EVENT_ERROR, HTTP_EVENT_DISCONNECTED.
BreakOff == Cleanup /\ ApiOnly /\ UNCHANGED <<apiq, outputLen>>

ApiTask == ApiReceive \/ Perform \/ OnFinish \/ BreakOff

-----------------------------------------------------------------------------
Next == Clients \/ Polls \/ Server \/ (\E a \in Addr : EnableAsync(a)) \/ ApiTask \/ OnData

Spec == Init /\ [][Next]_vars

\* The two tasks run when they can; accept takes a client that waits.
FairSpec == Spec /\ WF_vars(Server) /\ WF_vars(ApiTask)

-----------------------------------------------------------------------------
(* Properties.                                                             *)

\* The values the variables range over, and the size of the pool of sockets.
TypeOK ==
  /\ server \in {"socket", "bind", "listen", "accept", "read", "write", "dead"}
  /\ sockfd \in 0 .. 1 /\ conn \in Client \cup {NULL} /\ lost \in Nat /\ refused \in 0 .. 1
  /\ backlog \subseteq Client /\ conn \notin backlog
  /\ peer \in [Client -> {"away", "open", "closed", "reset", "vanished"}]
  /\ waits \in [Client -> {"no", "whole", "split", "in vain"}]
  /\ rx \in [Client -> 0 .. 2]
  /\ polling \in 0 .. Devices /\ peak \in 0 .. Devices
  /\ apiq \in Seq(Addr) /\ api \in Addr \cup {NULL} /\ http \in 0 .. 1
  /\ outputLen \in 0 .. MaxOutput
  /\ InUse <= MaxSockets

\* No error of a client it serves ends the server: it does so only when bind, listen
\* or accept is refused, the last for a client that was reset while it waited, or when
\* the connections it forgot, with what the device tasks have held at once, the API
\* task and its listener, come up to the pool (modbus_server.c:98-138 and 146-171,
\* api_manager.c:73).
ServerLives ==
  server = "dead" => refused = 1 \/ lost + peak + 2 >= MaxSockets

\* Nobody waits in the backlog for ever unless another client's chat never ends: the
\* server comes back to accept after an error, and resets the waiting clients when
\* it gives up (modbus_server.c:121-171).
NextClient == \A c \in Client : <>[](c \in backlog) => <>[](conn # NULL)

\* A request that arrives whole while its client is served is answered, unless the
\* client leaves (modbus_server.c:141-167).
Answered == \A c \in Client : (conn = c /\ waits[c] = "whole") ~> (waits[c] # "whole")

\* A queued request is performed in its turn, however many requests follow and
\* however few sockets are left (api_manager.c:83-98).
Performed == \A a \in Addr : (\E i \in 1 .. Len(apiq) : apiq[i] = a) ~> (api = a)

\* "After chatting close the socket": when its client has closed the connection the
\* chat ends (modbus_server.c:141-171).
AfterChat == \A c \in Client : (conn = c /\ peer[c] = "closed") ~> (conn # c)
=============================================================================
