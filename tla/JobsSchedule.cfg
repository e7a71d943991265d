SPECIFICATION FairSchedule
CONSTANTS
  plan = plan
  code = code
  ask = ask
  note = note
  here = here
  local = local
  remote = remote
  RunIds = {r1, r2}
  Null = Null
  Jobs <- OneJob
  JobDir <- Dirs
  NoDir = NoDir
  JobLane <- Lanes
  LaneSlots <- Slots
  AsksUser <- Interviews
  LeanJobs <- NotCode
  Deleters = {"all", "jobs.delete"}
  Settings = {"leanMode"}
  EarlyUser = FALSE
  MaxRestarts = 1
  Period <- EachTick
  CardJobs <- OneJob
  MaxClock = 2
  MaxUpsets = 1

PROPERTIES DueOnce NothingStaysDue
CHECK_DEADLOCK FALSE
