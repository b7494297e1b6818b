CONSTANTS
  m1 = m1  m2 = m2  s1 = s1  s2 = s2  a = a  b = b  c = c
  Zero = Zero
  Masters = {m1, m2}
  Slaves = {s1}
  Procs = {m1, m2, s1}
  Dests = {a, b, c}
  Hosts <- TwoClients
  SlaveAddresses = {b}
  N = 2
  SlaveN = 3
  MasterRows = 2
  Indeterminate = {TRUE}
  RxStamps = {"hw"}
  Faults = {"lose", "dup", "swap", "crash"}
  MaxFaults = 1
  SlaveFirst = TRUE
  StampOrders <- InOrder
  SendErrors = FALSE
SPECIFICATION Spec
INVARIANTS InBounds Provenance OneClient
CONSTRAINT FaultsOnOneHost
SYMMETRY MasterSymmetry
CHECK_DEADLOCK FALSE
