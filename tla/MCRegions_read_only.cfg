CONSTANTS
  v1 = v1
  v2 = v2
  VMs <- TwoVMs
  Apps <- AllApps
  StackOf <- Stacks
  Blocks <- TwoBlocks
  Contexts <- OneContext
  Extras <- OneExtra
  HeaderLen = 1
  Align = 2
  SizeMod = 3
  FetchLen = 1
  IntMax = 32
  MemTop = 25
  Addresses <- AccessAddrs
  AccessSizes = {2}
  PassedAddrs <- PlainAddrs
  PassedSizes = {1, 2}
  MaxExtras = 1
  Elfs <- AllElfs
  Pad = 2
SPECIFICATION Spec
INVARIANTS
  ReadOnlyRegions
