SPECIFICATION SetupSpec
CONSTANTS
  Persons = {ann, bob, cid, mia}
  ManifestOperators = {mia}
  Requests = {r1, r2}
  NoOne = noone
  NoCall = nocall
SYMMETRY Symmetry
INVARIANTS
  SetupTypeOK
  StrandedOnlyIfCutShort
PROPERTIES
  SurvivingTokenIsInert
  PromotionFillsAVacancy
