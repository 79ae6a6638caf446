SPECIFICATION Spec
CONSTANTS
  Delegates = {d1, d2}
  Choices = {for, against}
  Keys = {k1}
  NoKey = NoKey
  Opener = Opener
  Casts = {c1}
  Closes = {}
  Reveals = {r1}
  Changes = {m1}
  NoOne = NoOne
  NoTally = NoTally
CHECK_DEADLOCK FALSE
PROPERTY
  HiddenUntilAllVoted
