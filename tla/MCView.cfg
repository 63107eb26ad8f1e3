\* One channel of one device of each kind, one cable; an event of the power supply,
\* one of the model and a touch, or up to three touches, wait at once.
CONSTANTS
  Channels = 1
  MaxMasters = 1
  MaxMinions = 1
  Cables = 1
  Pins <- TwoPins
  PowerInputs <- Mains
  QueueLength = 3

SPECIFICATION Spec

INVARIANTS
  SavedOutsideEditors
  TouchesOfPage
  TestOnItsPage
  WidgetsCover
  GreenIsHealthy
  PowerOnTestPage

PROPERTY
  MenuIsLocked
