\* Status, login and transfer clients that send up to three packets unasked, over
\* a TCP stream that is cut anywhere.
SPECIFICATION ConnSpec
CONSTANTS
  Intents = {"STATUS", "LOGIN", "TRANSFER"}
  MaxPackets = 3
  PrimarySize = 4
  PacketSize = 2
INVARIANTS
  SessionTypeOK
  HandlersKept
  StatesKept
  PatientClientSafe
PROPERTIES LoginAdvances
\* The client has sent all it wants to.
CHECK_DEADLOCK FALSE
