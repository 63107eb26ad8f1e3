\* Two clients, and a pool of five sockets: one for the listener, one for the API task,
\* and three for which the connections compete with two devices.
CONSTANTS
  Client = {c1, c2}
  Backlog = 1
  Devices = 2
  MaxSockets = 5
  Addr = {a1, a2}
  ApiQueueLength = 1
  MaxOutput = 1
  NULL = NULL

SPECIFICATION FairSpec

INVARIANT
  ServerLives

PROPERTIES
  NextClient
  Answered
  Performed
