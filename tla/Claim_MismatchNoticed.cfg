SPECIFICATION Spec
CONSTANTS
  Plans <- MCPlans
  Worlds <- MCWorlds
  Settings <- MCSettings
  Names <- MCNames
  Texts <- MCTexts
  None = None
  Moment = Moment
  Malformed = {"bad"}
  KeptDates = {14}
INVARIANT MismatchNoticed
CHECK_DEADLOCK FALSE
