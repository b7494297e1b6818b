CONSTANTS
  m = m
  s = s
  a = a
  Zero = Zero
  Procs = {m, s}
  Dests = {a}
  Jobs <- MCJobs
  StampOrders <- InOrder
  SendErrors = TRUE
  MaxSent = 4
SPECIFICATION FairSpec
INVARIANTS TypeOK FreshErrqueue FollowUpCarriesOwnStamp
PROPERTIES ImplementsPairedSend CallReturns
CHECK_DEADLOCK FALSE
