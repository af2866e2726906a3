\* Two clients, console and signal stops; accept, eventfd and the epoll calls may fail; the
\* threads are scheduled fairly.
SPECIFICATION FairSpec
CONSTANTS
  c1 = c1
  c2 = c2
  Clients = {c1, c2}
  MaxEvents = 2
  KernelMayFail = TRUE
INVARIANTS
  ServerTypeOK
  VectorExact
  FaultsNeedCause
  JoinsEnd
  QuietStopSafe
PROPERTIES
  ImplementsLife
  StopFinishes
\* The process ends, and the model stops at a fault.
CHECK_DEADLOCK FALSE
