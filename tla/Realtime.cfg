SPECIFICATION Spec
CONSTANTS
  MaxSockets = 2
  MaxTokens = 2
  MaxFaults = 1
  MaxMsgs = 1
  MaxTurns = 1
PROPERTIES Drains KeptUntilWritten GoesQuiet
CHECK_DEADLOCK FALSE
