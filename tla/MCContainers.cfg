SPECIFICATION Spec
CONSTANTS
  a1 = a1
  a2 = a2
  b1 = b1
  b2 = b2
  u1 = u1
  u2 = u2
  Units = {u1, u2}
  Slots = {s1, s2, s3}
  Tokens = {a1, a2, b1, b2}
  ValueOf <- Letters
  Utf8 <- ValidText
  Blocks = {k1, k2}
  MaxCapacity = 2
  N = 2
  Null = Null
  Free = Free
  Uninit = Uninit
  Absent = Absent
INVARIANTS
  OwnedOnce
  BuffersOwned
PROPERTIES
  KeepsOrder
CONSTRAINT UnitsApart
SYMMETRY Symmetric
CHECK_DEADLOCK FALSE
