SPECIFICATION FairSpec
CONSTANTS
  Delegates = {d1, d2}
  Choices = {for}
  Keys = {k1}
  NoKey = NoKey
  Opener = Opener
  Casts = {c1, c2}
  Closes = {}
  Reveals = {r1, r2}
  Changes = {}
  NoOne = NoOne
  NoTally = NoTally
CHECK_DEADLOCK FALSE
INVARIANTS
  
  ResultsStayVisible
PROPERTIES
  HiddenUntilAllVoted
  Answered
