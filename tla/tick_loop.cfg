\* Ticks of two units of time; the server catches up with at most two of them.
SPECIFICATION TickFairSpec
CONSTANTS
  TickTime = 2
  CatchUp = 2
  Threshold = 2
  NapUnit = 1
  MaxTime = 13
INVARIANTS
  TickTypeOK
  NeverEarly
  NapsAreShort
  BurstBounded
  NeverFarAhead
PROPERTIES StopLeaves
\* The clock of the model stops at MaxTime.
CHECK_DEADLOCK FALSE
