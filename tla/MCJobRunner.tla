---------------------------- MODULE MCJobRunner ----------------------------
(* Small instances of JobRunner.  Two jobs share a folder, and one of them    *)
(* and a third interview the user; three share a lane of two slots.           *)
EXTENDS JobRunner, TLC

CONSTANTS plan, code, ask, note, here, local, remote

OneJob == {code}
TwoJobs == {plan, code}
FourJobs == {plan, code, ask, note}
Dirs == [j \in Jobs |-> IF j \in {ask, note} THEN NoDir ELSE here]
Lanes == [j \in Jobs |-> IF j = plan THEN remote ELSE local]
Slots == [l \in {local, remote} |-> IF l = local THEN 2 ELSE 1]
Interviews == Jobs \ {code, note}
NotCode == Jobs \ {code}
RunSymmetry == Permutations(RunIds)
=============================================================================
