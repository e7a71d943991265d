SPECIFICATION FairAwake
CONSTANTS
  plan = plan
  code = code
  ask = ask
  note = note
  here = here
  local = local
  remote = remote
  RunIds = {r1, r2}
  Null = Null
  Jobs <- OneJob
  JobDir <- Dirs
  NoDir = NoDir
  JobLane <- Lanes
  LaneSlots <- Slots
  AsksUser <- Interviews
  LeanJobs <- NotCode
  Deleters = {"run", "runs.delete"}
  Settings = {}
  EarlyUser = FALSE
  MaxRestarts = 1
  InhibitFails = TRUE
INVARIANTS InhibitAgrees
PROPERTIES QueuedRunStarts RowsSettle SweepSparesLive FinishedStays DeletedNeverStarts
CHECK_DEADLOCK FALSE
