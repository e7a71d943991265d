SPECIFICATION Spec
CONSTANTS
  main = main
  detached = detached
  Windows = {main, detached}
  m1 = m1
  m2 = m2
  d1 = d1
  Flows = {m1, m2, d1}
  FlowWindow <- FlowWindows
  Nobody = Nobody
  FaultKinds = {"crash", "load", "create", "delete"}
  Overlap = TRUE
  MaxFaults = 0
INVARIANTS SessionInOneWindow
CHECK_DEADLOCK FALSE
