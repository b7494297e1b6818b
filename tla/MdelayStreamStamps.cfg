CONSTANTS
  m1 = m1  s1 = s1  a = a  b = b
  Zero = Zero  Nobody = Nobody  Anybody = Anybody
  Masters = {m1}
  Slaves = {s1}
  Procs = {m1, s1}
  Dests = {a, b}
  Hosts <- MCHosts
  SlaveAddresses = {b}
  N = 2
  SlaveN = 2
  MasterRows = 2
  Indeterminate = {TRUE}
  RxStamps = {"hw"}
  Cuts = {}
  Faults = {}
  MaxFaults = 0
  SlaveFirst = TRUE
  StampOrders <- InOrder
  SendErrors = FALSE
SPECIFICATION StreamSpec
INVARIANTS StoredDelaysAreReal
CHECK_DEADLOCK FALSE
