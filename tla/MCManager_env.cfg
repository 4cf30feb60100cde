SPECIFICATION Spec
CONSTANTS
  Names = {n1, n2}
  GroupOf <- MCGroupOf
  PortOf <- OwnPorts
  EnvSet = TRUE
  Scenarios <- NoFaults
  MaxInst = 1
INVARIANT PersistedInTurn
