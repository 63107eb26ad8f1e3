\* A queue that a single round of commands can fill, tests by the user, and a mains
\* that fails and comes back.
CONSTANTS
  RelayQueueLength = 1
  Inputs <- MainsOnly
  Failing <- AntennaFails
  CableSets <- NoCable
  Buttons <- OneButton

SPECIFICATION FairSpec

INVARIANTS
  RelaysFollow
  TestObeyed

PROPERTIES
  PinsSettle
  PowerShown
