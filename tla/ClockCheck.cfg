CONSTANTS
  PhcErrors <- MCPhcErrors
  TaiOffsets = {36, 37}
  Delays = {0, 1, 50}
  Errors = TRUE
  PortStates = {"PASSIVE", "SLAVE", "GRAND_MASTER"}
  Offsets <- MCOffsets
  Accepting <- AllProfiles
SPECIFICATION FairSpec
INVARIANTS TypeOK PassedClocksAreClose ExactClocksPass PassedPortIsSane PassedOffsetIsSmall SoundPortPasses
PROPERTIES CheckEnds
CHECK_DEADLOCK FALSE
