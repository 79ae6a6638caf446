SPECIFICATION Spec
CONSTANTS
  Delegates = {d1, d2}
  Choices = {for, against}
  Keys = {k1}
  NoKey = NoKey
  Opener = Opener
  Casts = {c1, c2}
  Closes = {x1}
  Reveals = {r1}
  Changes = {m1}
  NoOne = NoOne
  NoTally = NoTally
SYMMETRY Symmetry
CHECK_DEADLOCK FALSE
INVARIANTS
  TypeOK
  CountMatches
  AuditCoversLedger
  ReceiptsHonest
  TallyFaithful
PROPERTIES
  LedgerSpec
  GateSound
