\* A screen of 2 by 2 pixels of two bytes, sent in one or two transfers of four, and
\* a panel with two points on it whose averages are of two points.
CONSTANTS
  HorRes = 2
  VerRes = 2
  MaxTransfer = 4
  XYAvg = 2
  RawX = {1, 7}
  RawY = {2}
  XMin = 3
  XMax = 8
  YMin = 1
  YMax = 6
  IdleX = 7
  IdleY = 0
  Inputs = {0, 1}
  NULL = NULL

SPECIFICATION FairSpec

INVARIANTS
  TypeOK
  OnlyPowerSpoilt
  FlushWhole
  AverageOfTouch

PROPERTIES
  BothGoOn
