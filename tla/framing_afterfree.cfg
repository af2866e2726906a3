\* The client hangs up; the worker asks the freed connection whether it is ready.
SPECIFICATION Spec
CONSTANTS
  PrimarySize = 4
  MaxHeader = 2
  NumPackets = 4
  Start <- SmallStart
  HdrLen <- SmallHdr
  Window = 1
  Stray <- Strays
INVARIANT ReadyFailsOnceFreed
\* The client may stop sending, and the model stops at a fault.
CHECK_DEADLOCK FALSE
