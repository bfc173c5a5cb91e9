CONSTANTS
  MaxLen = 4
  Programs <- CompiledPrograms
  Configs <- AllConfigs
  BranchesAllowed = 2
  UintMod = 8
  CallNumbers = {1}
SPECIFICATION FairSpec
PROPERTIES
  KeepsPromise
  Terminates
