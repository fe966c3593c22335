SPECIFICATION BudgetSpec
SYMMETRY Symmetry
CONSTANTS
  MaxTracked = 3
  Window = 2
  Cap = 2
  Names = {ann, bob, cat, dan}
  Forms = {plain, upper}
  Plain = plain
  SignIns = {r1, r2}
  MaxTime = 3
INVARIANTS
  StoreIsIndexed
  GuessesWithinCap
  RefusalIsEarned
PROPERTIES
  LiveKeyLostForAReason
