CONSTANTS
  MaxLen = 2
  Programs <- AllPrograms
  Configs <- AllConfigs
  BranchesAllowed = 2
  UintMod = 8
  CallNumbers = {1}
SPECIFICATION Spec
INVARIANT
  PcInText
CHECK_DEADLOCK FALSE
