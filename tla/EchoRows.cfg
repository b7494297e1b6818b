CONSTANTS
  r1 = r1
  Receivers = {r1}
  SenderMax = 3
  ReceiverMax = 3
  Stamped = {TRUE}
  SpareWord = {TRUE}
  Errors = FALSE
  MaxFaults <- NoFaults
  Unset = Unset
SPECIFICATION Spec
INVARIANTS StoredAreLatencies
CHECK_DEADLOCK FALSE
