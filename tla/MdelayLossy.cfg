CONSTANTS
  m1 = m1  m2 = m2  s1 = s1  s2 = s2  a = a  b = b  c = c
  Zero = Zero
  Masters = {m1}
  Slaves = {s1}
  Procs = {m1, s1}
  Dests = {a, b}
  Hosts <- MCHosts
  SlaveAddresses = {a, b}
  N = 2
  SlaveN = 2
  MasterRows = 2
  Indeterminate = {TRUE, FALSE}
  RxStamps = {"hw", "sw", "none"}
  Faults = {"lose", "swap"}
  MaxFaults = 2
  SlaveFirst = FALSE
  StampOrders <- InOrder
  SendErrors = TRUE
SPECIFICATION Spec
INVARIANTS SamplesMatched
PROPERTIES ImplementsDelayMeasurement
CHECK_DEADLOCK FALSE
