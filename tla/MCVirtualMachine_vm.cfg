CONSTANTS
  v1 = v1
  v2 = v2
  withData = withData
  Owners <- TwoMachines
  Containers <- DataContainers
  WithData <- DataContainers
  Keys = {1, 2}
  Values = {0, 7}
  NumValues = 2
  StackSizes = {8, 16}
  Errors <- SomeErrors
SYMMETRY Machines
SPECIFICATION Spec
INVARIANTS
  TypeOK
  NodesOwned
  StackMatches
  BlocksAccounted
  LastErrors
PROPERTIES
  IsKVStore
