SPECIFICATION Spec
CONSTANTS
  Names = {n1, n2}
  GroupOf <- MCGroupOf
  PortOf <- SamePort
  EnvSet = FALSE
  Scenarios <- InTurnOrOverlapping
  MaxInst = 1
INVARIANTS NoOrphan PortReleased PersistedInTurn
