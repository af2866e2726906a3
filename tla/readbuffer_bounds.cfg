\* Packets of every handler that reads, and the same a byte short.
SPECIFICATION Spec
CONSTANTS
  Radix = 8
  Groups = 2
  LastRadix = 4
  Numbers = {}
  ClientBytes = {}
  VarintSizes = {1, 2}
  StringSizes = {0, 1, 3}
  MaxAhead = 2
  MaxShort = 1
INVARIANT OutsideIsThrown
\* The packet is read.
CHECK_DEADLOCK FALSE
