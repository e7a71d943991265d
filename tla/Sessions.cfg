SPECIFICATION FairSessions
CONSTANTS
  main = main
  detached = detached
  Windows = {main, detached}
  m1 = m1
  m2 = m2
  d1 = d1
  Flows = {m1, m2, d1}
  FlowWindow <- FlowWindows
  Nobody = Nobody
  FaultKinds = {"crash", "load", "create", "delete"}
  Overlap = FALSE
  MaxFaults = 2
INVARIANTS SessionInOneWindow NoLeakedClaim  
PROPERTIES MovedSessionOpens
CHECK_DEADLOCK FALSE
