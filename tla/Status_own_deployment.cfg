SPECIFICATION StatusSpec
CONSTANTS
  Containers = {c1, c2}
  MaxTime = 4
  MaxCycles = 2
  None = None
PROPERTY OwnDeploymentShown
CHECK_DEADLOCK FALSE
