SPECIFICATION Spec
CONSTANTS
  Ops <- MCOps
  Bodies <- MCBodies
  ReturnType = "i32"
  MaxStackDepth = 3
  JumpRange = 8
  DepthRange = 4
  ImmRange = 1
  MaxBackpatch = 2
  MaxCases = 1
INVARIANTS PendingBranchesLinked BranchesReachTheirBlock ExecutionMatchesValidation
CHECK_DEADLOCK FALSE
