SPECIFICATION Spec
CONSTANTS
  m1 = m1
  m2 = m2
  m3 = m3
  m4 = m4
  m5 = m5
  A = A
  H = H
  Modules = {m1, m2, m3, m4, m5}
  Memories = {A, H}
  NoMemory = NoMemory
  Embedder = Embedder
  MemoryOf <- MemoryOfModules
  Owner <- Owners
  TypeOf <- Types
  ImportType <- ImportTypes
  Unbounded = Unbounded
  WordLimit = 4
  CountLimit = 4
  Radix = 2
  Accesses <- AccessWidths
  Blocks = {b1, b2, b3}
  MaxHeld = 1
  Null = Null
  Free = Free
  Dropped = Dropped
  Gone = Gone
  None = None
INVARIANTS
  BlocksOwned
  ReferencesCounted
  ImportsStaySatisfied
PROPERTIES
  NoGrowthWhileHeld
  KeepsPromise
VIEW StateView
SYMMETRY BlockSymmetry
CHECK_DEADLOCK FALSE
