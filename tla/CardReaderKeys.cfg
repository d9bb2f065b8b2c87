\* A card whose key is the second of the chain.
SPECIFICATION Spec
CONSTANTS
  a = a
  b = b
  c = c
  Card = {a}
  NrKeys = 3
  KeyOf <- KeySecond
  Content <- TextOnly
  Command = {"READ"}
  Air = {TRUE}
  MaxRequests = 1
  MaxEmits = 1
  NoCard = NoCard
INVARIANT KnownKeyWorks
CHECK_DEADLOCK FALSE
