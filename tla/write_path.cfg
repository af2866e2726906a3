\* Every sender, and mixes that outgrow buf; length prefixes of one byte and of two.
SPECIFICATION SendersSpec
CONSTANTS
  Headroom = 2
  Capacity = 4
  Extra = 8
  Radix = 4
  OwnSizes = {1, 2}
  StringSizes = {1, 4}
  MaxPacket = 14
  MaxPackets = 2
  LongSize = 2
  UuidSize = 4
  ShortText = 1
  LongText = 4
  NameSizes = {0, 1, 5}
  MaxMixed = 5
INVARIANTS
  WriteTypeOK
  WireExact
  ArrayLeftAtEnd
  EntriesLive
  FirstPacketLeavesArray
PROPERTIES SendersReturn
\* The model stops after MaxPackets packets, and at a fault.
CHECK_DEADLOCK FALSE
