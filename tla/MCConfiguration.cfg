\* Two channels of one master whose address the user may type: interrupted saves,
\* a key whose writes may fail, a task that may not be created, and a link that comes
\* and goes.
CONSTANTS
  Channels = 2
  MaxMasters = 1
  MaxMinions = 0
  Octets = 2
  DefaultOctet = 1
  Typed <- OneTyped
  OptionValues <- OneValue
  Flaky <- OneFlaky
  Starved <- OneStarved

SPECIFICATION Spec

INVARIANTS
  AtMostOneTorn
  StoredWhenSaved
  RunningIsConfigured

PROPERTIES
  Stored
