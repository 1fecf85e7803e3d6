SPECIFICATION Spec
CONSTANTS
  Systems = {"linux", "darwin", "bsd", "win32"}
  StandardRates = {9600, 115200}
  CustomRates = {250000}
  Requests <- MCRequests
  Leftovers <- MCLeftovers
  DcbLeftovers <- MCDcbLeftovers
  MayFail = {"open", "tcsetattr", "IOSSIOSPEED", "SetCommState"}
INVARIANTS LineMatchesConfig DropsAnnounced CapabilitiesHonest
