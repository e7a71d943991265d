SPECIFICATION Spec
CONSTANTS
  ReqIds = {r1, r2, r3}
  NoId = NoId
  Lanes = {local, remote}
  Windows = {main}
  MaxParallelArgs = {1, 2}
  NoLimit = NoLimit
  UsizeMax = 9
  LeaseTtl = 1
  EarlyCancelCap = 1
SYMMETRY QueueSymmetry
INVARIANTS NoLostWakeup PumpIsTheWalk
PROPERTIES NoOvertaking ArrivalOrder ServesSlots
