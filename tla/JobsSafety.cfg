SPECIFICATION JobsSpec
CONSTANTS
  plan = plan
  code = code
  ask = ask
  note = note
  here = here
  local = local
  remote = remote
  RunIds = {r1, r2, r3}
  Null = Null
  Jobs <- FourJobs
  JobDir <- Dirs
  NoDir = NoDir
  JobLane <- Lanes
  LaneSlots <- Slots
  AsksUser <- Interviews
  LeanJobs <- NotCode
  Deleters = {}
  Settings = {"oneAtATime", "leanMode"}
  EarlyUser = FALSE
  MaxRestarts = 1
SYMMETRY RunSymmetry
INVARIANTS GoTogether LanesWithinSlots NoStuckQueue RunViewShowsWork
