CONSTANTS
  TaiOffsets = {0, 36, 37}
  TimeConstants = {2}
  Garbage = {0, 37}
SPECIFICATION Spec
INVARIANTS DesiredOffsetIsSet
CHECK_DEADLOCK FALSE
