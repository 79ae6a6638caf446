SPECIFICATION Spec
CONSTANTS
  MaxSockets = 2
  MaxTokens = 2
  MaxFaults = 1
  MaxPolls = 1
  MaxCommands = 2
  MaxWritten = 1
INVARIANT OneInterval
PROPERTY Returns
CHECK_DEADLOCK FALSE
