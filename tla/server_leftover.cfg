\* A client is being accepted while the server stops.
SPECIFICATION Spec
CONSTANTS
  c1 = c1
  c2 = c2
  Clients = {c1}
  MaxEvents = 1
  KernelMayFail = FALSE
INVARIANT StopLeavesNoClient
\* The process ends, and the model stops at a fault.
CHECK_DEADLOCK FALSE
