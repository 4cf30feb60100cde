SPECIFICATION Spec
CONSTANTS
  Names = {n1, n2}
  GroupOf <- MCGroupOf
  PortOf <- OwnPorts
  EnvSet = FALSE
  Scenarios <- Overlapping
  MaxInst = 1
INVARIANT Persisted
