SPECIFICATION Spec
CONSTANTS
  Scenes = {"ballot"}
  Votes = {v1}
  Delegates = {d1, d2}
  Nobody = nobody
  MaxCasts = 2
  MaxDown = 2
  Submissions = {s1}
  Warnings = {w1}
  Jobs = {j1, j2}
  MaxInbox = 2
  Roll = {p1}
  Works = {q1, q2}
  MaxMail = 1
  Committees = {c1, c2}
  Countries = {k1}
  Calls = {a1, a2}
  NoCommittee = none
  Users = {u1, u2}
  Founders = {u1}
  Deletions = {x1, x2}
  RuleIds = {r1}
  Edits = {e1, e2}
  MaxWire = 2
  NoRules = none
INVARIANT RecordedIsTrue
CHECK_DEADLOCK FALSE
