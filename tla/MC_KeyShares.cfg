SPECIFICATION Spec
CONSTANTS
  Keys = {k1, k2}
  Splits = {a, b}
  Requests = {r1, r2}
  Tokens = {0, 1, 3}
  Slack = 1
  Gap = 1
  Nothing = nothing
  MaxTime = 4
  MaxWrites = 3
SYMMETRY Symmetry
INVARIANTS
  AnswerIsTrue
  TokenAcceptedOnce
PROPERTY
  KeyGivesWayOnlyIfNamed
