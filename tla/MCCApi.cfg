SPECIFICATION Spec
CONSTANTS
  a1 = a1
  a2 = a2
  hostname = hostname
  app = app
  sym = sym
  Allocators = {a1, a2}
  Names = {hostname, app, sym}
  LongName = LongName
  Null = Null
  BadUtf8 = BadUtf8
  ModuleArgs <- ModuleArguments
  FunctionArgs <- FunctionArguments
  LoadArgs <- LoadArguments
  SignatureArgs <- SignatureArguments
  Images <- ModuleImages
  HostSizes = {1}
  StoreSizes = {1, 2, 3}
  ModuleLimit = 2
  MaxParams = 2
  MaxArgs = 1
  FuncLimit = 2
  PageSize = 2
  Arguments <- ArgumentLists
  CodeBudget = 2
  StackLen = 4
  MaxIndex = 2
  Heap = {"OK", "OutOfMemory"}
  Orderly = TRUE
  None = None
INVARIANTS
  AllocatorsCounted
  FoundIsUsable
  ResultIsOfLastCall
  NoPanic
PROPERTIES
  HostConsumedAsDocumented
  RefusedCallsChangeNothing
  CallbacksCannotDisturb
VIEW StateView
SYMMETRY AllocatorSymmetry
CHECK_DEADLOCK FALSE
