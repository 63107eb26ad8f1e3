\* Does the chat with a client that has closed its connection end?
CONSTANTS
  Client = {c1, c2}
  Backlog = 1
  Devices = 2
  MaxSockets = 5
  Addr = {a1, a2}
  ApiQueueLength = 1
  MaxOutput = 1
  NULL = NULL

SPECIFICATION FairSpec

PROPERTIES
  AfterChat
