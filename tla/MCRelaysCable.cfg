\* Is the first relay the relay of the cables?
CONSTANTS
  RelayQueueLength = 3
  Inputs <- MainsOnly
  Failing <- NoneFails
  CableSets <- OneCable
  Buttons <- TwoButtons

SPECIFICATION Spec

INVARIANTS
  CableRelayFollows
