CONSTANTS
  m1 = m1  s1 = s1  a = a  b = b
  Zero = Zero  Nobody = Nobody  Anybody = Anybody
  Masters = {m1}
  Slaves = {s1}
  Procs = {m1, s1}
  Dests = {a, b}
  Hosts <- MCHosts
  SlaveAddresses = {b}
  N = 2
  SlaveN = 2
  MasterRows = 2
  Indeterminate = {TRUE, FALSE}
  RxStamps = {"hw"}
  Cuts = {548}
  Faults = {"cut", "crash"}
  MaxFaults = 1
  SlaveFirst = FALSE
  StampOrders <- InOrder
  SendErrors = FALSE
SPECIFICATION StreamFairSpec
INVARIANTS StreamTypeOK StoredUnlessReset RequestsStayAligned
PROPERTIES EndsWithPeer CompletesUnlessOneFails
CHECK_DEADLOCK FALSE
