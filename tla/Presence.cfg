SPECIFICATION Spec
CONSTANTS
  Sockets = {s1, s2}
  Hellos = {h1}
  SessionIds = {x1}
  Marks = {m1}
  None = None
  MaxWrites = 1
PROPERTIES
  
  ReturnIsSeen
  GoneIsNoticed
CHECK_DEADLOCK FALSE
