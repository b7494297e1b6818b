CONSTANTS
  PhcErrors = {0}
  TaiOffsets = {37}
  Delays = {0, 1}
  Errors = FALSE
  PortStates = {"PASSIVE", "SLAVE", "GRAND_MASTER"}
  Offsets <- MCOffsets
  Accepting <- AllProfiles
SPECIFICATION FairSpec
INVARIANTS SynchronizedIsTrue
CHECK_DEADLOCK FALSE
