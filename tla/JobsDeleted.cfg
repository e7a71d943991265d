SPECIFICATION JobsSpec
CONSTANTS
  plan = plan
  code = code
  ask = ask
  note = note
  here = here
  local = local
  remote = remote
  RunIds = {r1, r2}
  Null = Null
  Jobs <- TwoJobs
  JobDir <- Dirs
  NoDir = NoDir
  JobLane <- Lanes
  LaneSlots <- Slots
  AsksUser <- Interviews
  LeanJobs <- NotCode
  Deleters = {"editor"}
  Settings = {}
  EarlyUser = FALSE
  MaxRestarts = 0
PROPERTIES DeletedLeavesQueue
CHECK_DEADLOCK FALSE
