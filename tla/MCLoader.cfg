SPECIFICATION Spec
CONSTANTS
  NoName = ""
  Types = {v, i}
  StartType = v
  Limits <- OneLimit
  max_modules = 2
  RefLimit = 2
  Engines <- MCEngines
  MaxFuncs = 1
  MaxExports = 1
  None = None
INVARIANTS
  CellsKeepTheirMeaning
  ImportsResolveToOwners
  ImportTypesAgree
  LoadedModulesAreClosed
CONSTRAINT FirstIsNamed
CHECK_DEADLOCK FALSE
