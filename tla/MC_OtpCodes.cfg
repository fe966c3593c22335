SPECIFICATION Spec
CONSTANTS
  Mailboxes = {ann}
  Forms = {plain, variant}
  Plain = plain
  Requests = {r1, r2, r3}
  Expiry = 2
  Window = 3
  Retention = 2
  MaxAttempts = 2
  MaxDraws = 3
  MaxCodes = 3
  MaxTime = 4
  NoBox = nobox
SYMMETRY RequestSymmetry
INVARIANTS
  DrawsWithinBudget
  DrawsOverlapBound
  SignInIsClaimed
PROPERTIES
  ImplementsOneTimeCode
