CONSTANTS
  a = a
  b = b
  Letters <- TwoLetters
  Window = 2
  MaxDelta = 2
  MaxHeard = 3
  MaxRolls = 1
  MaxRequests = 2
SYMMETRY AnyLetters
SPECIFICATION Spec
CHECK_DEADLOCK FALSE
INVARIANTS TypeOK NothingWithheld OnlyRepeatsCut FinalIsTokens
