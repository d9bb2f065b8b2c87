\* Frames may be lost; three cards come and go.
SPECIFICATION Spec
CONSTANTS
  a = a
  b = b
  c = c
  Card = {a, b, c}
  NrKeys = 2
  KeyOf <- KeysOneUnknown
  Content <- MCContent
  Command = {"AUTH", "READ", "WRITE", "DUMP"}
  Air = {TRUE, FALSE}
  MaxRequests = 2
  MaxEmits = 1
  NoCard = NoCard
INVARIANTS SuccessMeansSuffixWritten
CHECK_DEADLOCK FALSE
