SPECIFICATION FairSpec
CONSTANTS
  a = a
  b = b
  c = c
  d = d
  e = e
  f = f
  Card = {a, b, c, d, e, f}
  Uid <- MCUid
  Versions = {TRUE, FALSE}
INVARIANTS SelectsOne BaseFailsOnlyIfDisturbed
PROPERTY Returns
CHECK_DEADLOCK FALSE
