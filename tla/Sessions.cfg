SPECIFICATION Spec
CONSTANTS
  Devices = {d1}
  Refreshes = {f1, f2}
  Decisions = {c1}
  NoOne = NoOne
  MaxSessions = 3
  MaxRequests = 1
  MaxRotations = 1
SYMMETRY Symmetry
INVARIANTS
  TypeOK
  OneActive
  TokensWork
PROPERTIES
  RefreshOnce
  ApprovalFrees
