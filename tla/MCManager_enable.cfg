SPECIFICATION Spec
CONSTANTS
  Names = {n1, n2}
  GroupOf <- MCGroupOf
  PortOf <- OwnPorts
  EnvSet = FALSE
  Scenarios <- BindsFail
  MaxInst = 1
PROPERTY StartedIsRunning
