\* One slot whose device comes and goes, two task blocks: a task on its way out may
\* overlap a new one, or leave no block for it.
CONSTANTS
  NumConnections = 1
  SlotsPerChannel = 1
  Configs <- AnyLayout
  Task = {t1, t2}
  QueueLength = 1
  MaxSockets = 1
  NULL = NULL

SPECIFICATION FairSpec

INVARIANTS
  Apart
  TableInv
  OnlyConfigured
  GateNotLost
  NoMissedWakeup
  OneLateUpdate

PROPERTIES
  Supervised
  LiveTaskRuns
  Settles
  AllStop
