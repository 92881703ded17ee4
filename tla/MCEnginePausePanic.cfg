SPECIFICATION Spec
CONSTANTS
  Modules <- MCModules
  Funcs <- MCFuncs
  ModuleOf <- MCModuleOf
  ParamWords <- MCParamWords
  LocalWords <- MCLocalWords
  StackUsage <- MCStackUsage
  ResultWords <- MCResultWords
  Hosts <- MCHosts
  HostParams <- MCHostParams
  HostResult <- MCHostResult
  MemoryOf <- MCMemoryOf
  TableOf <- MCTableOf
  ZeroMemory = zero_memory
  ZeroTable = zero_table
  Values = {v}
  Zero = v
  Garbage = garbage
  StackLen = 10
  FrameLimit = 6
  CodeWords = 3
  MaxFuel = 3
  Sentinel = sentinel
  None = none
  ResumeFirst = FALSE
INVARIANT NoPanic
