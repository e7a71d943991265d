----------------------------- MODULE KeepAwake -----------------------------
(***************************************************************************)
(* The sleep inhibitor of job runs: the renderer's reconcile loop          *)
(* (lib/agent/jobs/keepAwake.ts) and the thread that owns the inhibit      *)
(* (src-tauri/src/power.rs).  The loop awaits one invoke at a time; the    *)
(* thread serves a FIFO channel, so an invoke takes effect when it is sent *)
(* to it.  releaseStaleInhibit, called once per page load, is beside the   *)
(* loop.                                                                   *)
(***************************************************************************)
EXTENDS Naturals

CONSTANT InhibitFails    \* whether the OS may refuse an inhibit

ASSUME KeepAwakeAssumption == InhibitFails \in BOOLEAN

VARIABLES
    desired,   \* keepAwake.ts: what the runner last declared
    applied,   \* keepAwake.ts: what the last successful invoke set
    invoke,    \* reconcile's awaited invoke, or "none" (running is FALSE)
    warned,    \* keepAwake.ts: an invoke failed
    stale,     \* releaseStaleInhibit's own invoke
    held       \* power.rs: the worker's guard is Some

awake == <<desired, applied, invoke, warned, stale, held>>

\* An invoke is sent, then run by the host, then its promise settles.
Invoke == {"none", "acquire", "release", "acquired", "released", "failed"}
Stale == {"unsent", "sent", "released", "settled"}

KeepAwakeInit ==
    /\ desired = FALSE /\ applied = FALSE /\ invoke = "none" /\ warned = FALSE
    /\ stale = "unsent"
    /\ held = FALSE

\* One pass of reconcile's loop.
Pass(want, has) ==
    invoke' = IF want = has THEN "none" ELSE IF want THEN "acquire" ELSE "release"

setKeepAwake(next) ==
    /\ desired # next
    /\ desired' = next
    /\ IF invoke = "none" THEN Pass(next, applied) ELSE UNCHANGED invoke
    /\ UNCHANGED <<applied, warned, stale, held>>

\* Cmd::Acquire is a success when the inhibit is already held.
WorkerAcquire ==
    /\ invoke = "acquire"
    /\ \/ invoke' = "acquired" /\ held' = TRUE
       \/ InhibitFails /\ ~held /\ invoke' = "failed" /\ UNCHANGED held
    /\ UNCHANGED <<desired, applied, warned, stale>>

WorkerRelease ==
    /\ invoke = "release"
    /\ invoke' = "released"
    /\ held' = FALSE
    /\ UNCHANGED <<desired, applied, warned, stale>>

Settled ==
    /\ invoke \in {"acquired", "released"}
    /\ applied' = (invoke = "acquired")
    /\ Pass(desired, invoke = "acquired")
    /\ UNCHANGED <<desired, warned, stale, held>>

\* A failure ends the loop and leaves `applied` alone.
Failed ==
    /\ invoke = "failed"
    /\ invoke' = "none"
    /\ warned' = TRUE
    /\ UNCHANGED <<desired, applied, stale, held>>

\* Fault: the inhibit of the last page load is kept.
StaleKept ==
    /\ stale = "sent" /\ stale' = "released"
    /\ UNCHANGED <<desired, applied, invoke, warned, held>>

StaleReleased ==
    /\ stale = "sent" /\ stale' = "released"
    /\ held' = FALSE
    /\ UNCHANGED <<desired, applied, invoke, warned>>

StaleSettled ==
    /\ stale = "released" /\ stale' = "settled"
    /\ applied' = FALSE
    /\ UNCHANGED <<desired, invoke, warned, held>>

\* The host's threads; the renderer's continuations.
Power == WorkerAcquire \/ WorkerRelease \/ StaleReleased
Reconcile == Settled \/ Failed \/ StaleSettled

\* A page calls releaseStaleInhibit as it loads.
releaseStaleInhibit ==
    /\ stale = "unsent" /\ stale' = "sent"
    /\ UNCHANGED <<desired, applied, invoke, warned, held>>

\* What the renderer knows when a page is loaded; an invoke on its way when
\* the old page went is still run by the host.
Reload ==
    /\ held' = IF invoke = "acquire" THEN TRUE ELSE IF invoke = "release" THEN FALSE ELSE held
    /\ desired' = FALSE /\ applied' = FALSE /\ invoke' = "none" /\ warned' = FALSE
    /\ stale' = "unsent"

\* The process goes, and the inhibit with it.
Exit ==
    /\ desired' = FALSE /\ applied' = FALSE /\ invoke' = "none" /\ warned' = FALSE
    /\ stale' = "unsent" /\ held' = FALSE

KeepAwakeTypeOK ==
    /\ desired \in BOOLEAN /\ applied \in BOOLEAN /\ warned \in BOOLEAN /\ held \in BOOLEAN
    /\ invoke \in Invoke
    /\ stale \in Stale
=============================================================================
