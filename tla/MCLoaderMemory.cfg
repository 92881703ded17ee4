SPECIFICATION Spec
CONSTANTS
  NoName = ""
  Types = {v, i}
  StartType = v
  Limits <- OneLimit
  max_modules = 2
  RefLimit = 2
  Engines <- MCEnginesWithMemories
  MaxFuncs = 1
  MaxExports = 1
  None = None
INVARIANTS
  ImportedMemoryIsKept
CHECK_DEADLOCK FALSE
