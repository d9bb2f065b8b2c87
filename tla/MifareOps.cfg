SPECIFICATION Spec
CONSTANTS
  Cards <- MCCards
  Magic <- MCMagic
  Values <- MCValues
  Deltas = {2}
  Accesses <- MCAccess
  Uids <- MCUids
  MaxCalls = 3
  None = None
INVARIANTS TransferDone ValuesAgree AccessShown UidReplaced
CHECK_DEADLOCK FALSE
