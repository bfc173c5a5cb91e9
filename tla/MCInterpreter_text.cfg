CONSTANTS
  MaxLen = 3
  Programs <- AllPrograms
  Configs <- AllConfigs
  BranchesAllowed = 2
  UintMod = 8
  CallNumbers = {1}
SPECIFICATION Spec
INVARIANTS
  TypeOK
  NeverRunsUnsound
  PcOnInstruction
  StrayOnlyAtEnd
  RejectedForGood
\* A call that left the text has no defined next step.
CHECK_DEADLOCK FALSE
