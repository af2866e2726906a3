\* Groups of 3 bits, a last byte of 2; packets of every handler that reads.
SPECIFICATION Spec
CONSTANTS
  Radix = 8
  Groups = 2
  LastRadix = 4
  Numbers <- AllNumbers
  ClientBytes <- SomePrefixes
  VarintSizes = {1, 2}
  StringSizes = {0, 1, 3}
  MaxAhead = 2
  MaxShort = 1
INVARIANTS
  ReadTypeOK
  VarintFits
  RoundTrip
  LengthExact
  ValuesExact
  ReadsInStep
  FaultHasCause
\* The packet is read; a negative number is written for ever.
CHECK_DEADLOCK FALSE
