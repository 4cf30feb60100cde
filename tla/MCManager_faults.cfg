SPECIFICATION FairSpec
CONSTANTS
  Names = {n1}
  GroupOf <- MCGroupOf
  PortOf <- OwnPorts
  EnvSet = FALSE
  Scenarios <- Everything
  MaxInst = 2
INVARIANTS CancelOnce NoZombie
PROPERTY Terminates
