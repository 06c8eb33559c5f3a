SPECIFICATION FairSpec
CONSTANTS
  Requests = {q1, q2}
  Files <- SampleFiles
  FlagSets <- SampleFlags
  Platforms = {"linux", "windows"}
INVARIANTS
  ReturnClosesBackends
  CleanExitCutsNobodyOff
  AcceptedConfigsWork
PROPERTIES
  BackendErrorReturned
  EndsWithItsBackends
CHECK_DEADLOCK FALSE
