\* One slot; the run looks for a socket nobody closes.
CONSTANTS
  NumConnections = 1
  SlotsPerChannel = 1
  Configs <- AllConfigured
  Task = {t1, t2}
  QueueLength = 1
  MaxSockets = 2
  NULL = NULL

SPECIFICATION Spec

INVARIANTS
  NoSocketLeak
