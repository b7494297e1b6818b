CONSTANTS
  m1 = m1  m2 = m2  s1 = s1  s2 = s2  a = a  b = b  c = c
  Zero = Zero
  Masters = {m1}
  Slaves = {s1}
  Procs = {m1, s1}
  Dests = {a, b}
  Hosts <- MCHosts
  SlaveAddresses = {b}
  N = 3
  SlaveN = 3
  MasterRows = 4
  Indeterminate = {TRUE}
  RxStamps = {"hw"}
  Faults = {}
  MaxFaults = 0
  SlaveFirst = TRUE
  StampOrders <- InOrder
  SendErrors = FALSE
SPECIFICATION FairSpec
INVARIANTS TypeOK StoredDelaysAreReal
PROPERTIES StopsAfterThisMany
CHECK_DEADLOCK FALSE
