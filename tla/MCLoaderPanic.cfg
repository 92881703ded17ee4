SPECIFICATION Spec
CONSTANTS
  NoName = ""
  Types = {v}
  StartType = v
  Limits <- OneLimit
  max_modules = 2
  RefLimit = 2
  Engines <- MCEnginesShortOfMemory
  MaxFuncs = 1
  MaxExports = 1
  None = None
INVARIANTS
  NoPanic
CHECK_DEADLOCK FALSE
