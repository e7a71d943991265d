--------------------------- MODULE MCJobScheduler ---------------------------
(* The job of MCJobRunner that may have a schedule, due at every tick of the *)
(* clock.                                                                    *)
EXTENDS JobScheduler, MCJobRunner

EachTick == [j \in Jobs |-> 1]
=============================================================================
