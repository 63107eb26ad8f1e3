\* A link that goes down.
CONSTANTS
  Channels = 1
  MaxMasters = 1
  MaxMinions = 0
  Cables = 0
  Pins = {0}
  PowerInputs = {0}
  QueueLength = 2

SPECIFICATION LiveSpec

PROPERTY DisplayFollows
