SPECIFICATION FairSpec
CONSTANTS
  Requests = {q1, q2}
  Sweeps = {w1}
  Breaks = {b1}
INVARIANT
  EngineFollows
PROPERTIES
  
  BreaksEnd
  BreakIsLeft
