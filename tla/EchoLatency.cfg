CONSTANTS
  r1 = r1
  Receivers = {r1}
  SenderMax = 3
  ReceiverMax = 3
  Stamped = {TRUE, FALSE}
  SpareWord = {TRUE, FALSE}
  Errors = TRUE
  MaxFaults <- OneOfEach
  Unset = Unset
SPECIFICATION FairSpec
INVARIANTS TypeOK OneLatencyPerFrame RepeatsAreDuplicates LatenciesInOrder
PROPERTIES BothStop
CHECK_DEADLOCK FALSE
