\* Every frame arrives; three cards come and go.
SPECIFICATION FairSpec
CONSTANTS
  a = a
  b = b
  c = c
  Card = {a, b, c}
  NrKeys = 2
  KeyOf <- KeysOneUnknown
  Content <- MCContent
  Command = {"AUTH", "READ", "WRITE", "DUMP"}
  Air = {TRUE}
  MaxRequests = 2
  MaxEmits = 1
  NoCard = NoCard
INVARIANTS OnlyUidListens SuccessMeansAllWritten FactoryKeyWorks
PROPERTIES PresentCardServed
CHECK_DEADLOCK FALSE
