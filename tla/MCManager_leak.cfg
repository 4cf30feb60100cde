SPECIFICATION Spec
CONSTANTS
  Names = {n1, n2}
  GroupOf <- MCGroupOf
  PortOf <- OwnPorts
  EnvSet = FALSE
  Scenarios <- ServesFail
  MaxInst = 2
INVARIANT ReusableAfterFailure
