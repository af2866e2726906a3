\* Packets of every handler that reads, wherever they are split.
SPECIFICATION Spec
CONSTANTS
  Radix = 8
  Groups = 2
  LastRadix = 4
  Numbers = {}
  ClientBytes = {}
  VarintSizes = {1, 2}
  StringSizes = {0, 1, 3}
  MaxAhead = 2
  MaxShort = 1
INVARIANT NumbersInOrder
\* The packet is read.
CHECK_DEADLOCK FALSE
