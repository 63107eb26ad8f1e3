\* One channel with room for two masters, two tasks past a gate, a queue that a second
\* update finds full, and the disturbances Scenarios tells: the link, the lists, the
\* devices, the test page and the memory for tasks.
CONSTANTS
  Channel = {0}
  MaxMasters = 2
  MaxMinions = 0
  a1 = a1
  a2 = a2
  Addr = {a1, a2}
  Typed = {a2}
  Task = {t1, t2}
  Scenario <- Scenarios
  AtBoot <- AllWell
  Stack <- WorstStack
  Fault <- RadioOnly
  QueueLength = 1
  NULL = NULL

SPECIFICATION FairSpec

INVARIANTS
  TypeOK
  RegistersAgree
  ServesListed
  OwnAnswers

PROPERTIES
  OutputsTell
