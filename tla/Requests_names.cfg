SPECIFICATION Spec
CONSTANTS
  Blank = ""
  NoBearer = "no bearer"
  MaxInt = 63
  MaxInt32 = 15
  MaxUint16 = 7
  WheelNegative = 4
  Detent = 3
  ScreenWidth = 6
  Clients <- MCClients
  RequestsOf <- MCRequestsOf
  Configs <- MCConfigs
INVARIANTS
  AcceptedNamesReachTheDesktop
