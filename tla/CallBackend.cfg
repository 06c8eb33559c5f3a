SPECIFICATION FairSpec
CONSTANTS
  Callers = {c1, c2}
INVARIANTS
  NothingComesLate
  StatusTellsOutcome
  ClosedIsDown
PROPERTIES
  CallsReturn
