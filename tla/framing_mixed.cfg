\* A client that may run ahead by one packet, with packets of every size.
SPECIFICATION FairSpec
CONSTANTS
  PrimarySize = 4
  MaxHeader = 2
  NumPackets = 4
  Start <- MixedStart
  HdrLen <- MixedHdr
  Window = 2
  Stray <- Strays
INVARIANTS
  TypeOK
  ExactUnlessHazard
  FaultsNeedPattern
  RecvAsksForBytes
  PrimaryContiguous
PROPERTIES
  ReadsEndWithPacket
  HazardsNeedClient
  ImplementsStream
  EveryPacketHandled
\* The client may stop sending, and the model stops at a fault.
CHECK_DEADLOCK FALSE
