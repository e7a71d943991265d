----------------------------- MODULE JobsAwake -----------------------------
(***************************************************************************)
(* The job runner with the sleep inhibitor it drives: an $effect of the    *)
(* runner declares whether there is work, in a microtask of the task that  *)
(* changed it, and the scheduler starts after the start-up sweep and       *)
(* releaseStaleInhibit have both settled (routes/+layout.svelte).          *)
(***************************************************************************)
EXTENDS JobRunner, KeepAwake

allVars == <<jobVars, awake>>

\* Fault: the queue does not count as work.
BusyRunning == getActiveRuns # {}

Busy == getActiveRuns # {} \/ pending # {}

KeepAwakeEffect == setKeepAwake(Busy) /\ UNCHANGED jobVars

Microtask == (drain /\ UNCHANGED awake) \/ KeepAwakeEffect

AwakeNext ==
    \/ Microtask
    \/ Task /\ desired = Busy /\ UNCHANGED awake
    \/ Reconcile /\ ~draining /\ desired = Busy /\ UNCHANGED jobVars
    \/ Host /\ UNCHANGED awake
    \/ Power /\ UNCHANGED jobVars
    \/ Load /\ releaseStaleInhibit
    \/ Ready /\ stale = "settled" /\ UNCHANGED awake
    \/ ReloadPage /\ Reload
    \/ Quit /\ Exit

AwakeSpec == JobsInit /\ KeepAwakeInit /\ [][AwakeNext]_allVars

\* Tasks, microtasks and the host go on, and every pipeline comes to an end.
FairAwake ==
    /\ AwakeSpec
    /\ WF_allVars(Microtask)
    /\ WF_allVars(Host /\ UNCHANGED awake) /\ WF_allVars(Power /\ UNCHANGED jobVars)
    /\ WF_allVars(Reconcile /\ UNCHANGED jobVars)
    /\ WF_allVars(Load /\ releaseStaleInhibit)
    /\ WF_allVars(Ready /\ stale = "settled" /\ UNCHANGED awake)
    /\ \A r \in RunIds :
        /\ WF_allVars(Place(r) /\ UNCHANGED awake)
        /\ WF_allVars(finalizeRun(r) /\ UNCHANGED awake)
        /\ WF_allVars(onSettled(r) /\ UNCHANGED awake)

-----------------------------------------------------------------------------
(* Properties. *)

\* When no invoke is on its way and the $effect has run, the machine is held
\* awake exactly while a run is going or queued, unless the OS refused: neither
\* a quick finish and start, nor a page load, nor the release at its start
\* leaves keepAwake.ts and power.rs at odds with the runner.
InhibitAgrees ==
    invoke = "none" /\ stale = "settled" /\ ~warned /\ desired = Busy =>
        held = (getActiveRuns # {} \/ pending # {})

=============================================================================
