SPECIFICATION FairSpec
CONSTANTS
  Appenders = {a1, a2, a3}
  Fields = {f1, f2}
  Page = 2
  MaxLog = 4
  NoOne = NoOne
INVARIANTS
  TypeOK
  ChainHolds
  VerifierNeverAccuses
  VerdictCoversStart
PROPERTY
  AppendSettles
