CONSTANTS
  Callers = {c1}
  Procs = {p1, p2, p3}
  NoProc = NoProc
  Rungs = 2
  Lines = {"ctx", "mtp", "gpu"}
  Failures = {"port", "respawn", "start", "kill"}
  Overlap = FALSE
SPECIFICATION FairServer
INVARIANTS NoLeakedProcess FallbackSpent
PROPERTIES StopIsFinal RetriesDescend StartSettles DeadServerNoticed
