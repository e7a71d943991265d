SPECIFICATION FairTurns
CONSTANTS
  chat = chat
  card = card
  main = main
  shell = shell
  local = local
  Turns <- TwoTurns
  ReqIds <- MCReqIds
  NoId = NoId
  Lanes = {local}
  Windows = {main, shell}
  MaxParallelArgs = {1}
  NoLimit = NoLimit
  UsizeMax = 9
  LeaseTtl = 2
  EarlyCancelCap = 4
  TurnWindow <- OwnWindows
  TurnLane <- OneLane
  TurnPriority <- CardIsBackground
  MaxRequests <- TwoRequests
  MaxFaults = 1
INVARIANTS HeldIsBacked NoTicketLeftBehind StoppedNotQueued
PROPERTIES KeepsBackgroundOut TurnSettles OrphansReclaimed
CHECK_DEADLOCK FALSE
