---------------------------- MODULE MCJobsAwake ----------------------------
(* The instances of MCJobRunner, with the inhibitor.                         *)
EXTENDS JobsAwake, MCJobRunner
=============================================================================
