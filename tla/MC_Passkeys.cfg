SPECIFICATION Spec
CONSTANTS
  Persons = {ann, bob}
  Keys = {k1, k2}
  NoOne = noone
  MaxChallenges = 3
  MaxCount = 2
SYMMETRY Symmetry
INVARIANTS
  ChallengeSpentOnce
  CounterSpentOnce
