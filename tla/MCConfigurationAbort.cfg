\* One channel that may hold more minions than channel_get_minion_ip accepts.
CONSTANTS
  Channels = 1
  MaxMasters = 1
  MaxMinions = 2
  Octets = 3
  DefaultOctet = 0
  Typed <- NoneTyped
  OptionValues <- OneValue
  Flaky = {}
  Starved = {}

SPECIFICATION Spec

INVARIANTS
  NoAbort
