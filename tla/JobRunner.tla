----------------------------- MODULE JobRunner -----------------------------
(***************************************************************************)
(* Job runs: the queue, admission and run view of the runner               *)
(* (lib/agent/jobs/runner.svelte.ts), the rows that mirror them            *)
(* (lib/stores/jobRuns.svelte.ts, src-tauri/src/db/runs.rs), the start-up  *)
(* sweep of the rows an earlier session left (routes/+layout.svelte), the  *)
(* ways a run or a job is deleted.  JobsAwake adds the sleep inhibitor.    *)
(*                                                                         *)
(* Renderer code runs to its next await: one action each, and a task       *)
(* starts when the microtasks of the one before have run.  Every database  *)
(* command is an invoke that runs on a pool of threads: the ones on their  *)
(* way are a set, and are executed in any order.                           *)
(*                                                                         *)
(* A pipeline is what happens between startRun and onSettled: it calls     *)
(* enqueue for a chained run, finalizeRun and then onSettled.  cancel()    *)
(* only aborts it, after which it ends as it may at any time.              *)
(***************************************************************************)
EXTENDS Integers, FiniteSets

CONSTANTS
    RunIds,        \* job_runs.id of the runs to come
    Null,          \* null, where a run or its job is expected
    Jobs,
    JobDir,        \* a job's working_dir
    NoDir,         \* the empty working_dir
    JobLane,       \* the lane of a job's model
    LaneSlots,     \* laneConcurrency of a lane
    AsksUser,      \* the jobs that interview the user (supportsSchedule is false)
    LeanJobs,      \* the jobs lean mode does not pause
    Deleters,      \* the ways of deleting that are used
    Settings,      \* the settings the user changes: "oneAtATime", "leanMode"
    EarlyUser,     \* whether the user may run a job during the start-up sweep
    MaxRestarts    \* bounds how often the app or its page is loaded again

ASSUME JobsAssumption ==
    /\ Null \notin RunIds
    /\ IsFiniteSet(RunIds)
    /\ AsksUser \subseteq Jobs /\ LeanJobs \subseteq Jobs
    /\ \A j \in Jobs : LaneSlots[JobLane[j]] \in Nat \ {0}
    /\ EarlyUser \in BOOLEAN
    /\ MaxRestarts \in Nat

VARIABLES
    phase,      \* how far a run has come, see Phase
    job,        \* the job of a run
    parent,     \* until a chained run starts, the run whose pipeline chained
                \* it; Null for one asked for by hand or by the scheduler
    pending,    \* the queued runs
    ahead,      \* the order of `pending`: <<q, r>> when q stands before r
    admitted,   \* the keys of the `admitted` map
    runs,       \* the RunStates held
    focused,    \* focusedId
    draining,   \* a drain() microtask is queued
    oneAtATime, \* settings.jobsOneAtATime
    leanMode,   \* settings.leanMode
    rows,       \* job_runs: the status of a run's row
    writes,     \* the database commands on their way
    gone,       \* the jobs deleted from the database
    checked,    \* the run a runs.delete found not running, or Null; one call
                \* at a time is a bound of the model
    startup,    \* how far the page has loaded
    restarts

runner == <<phase, job, parent, pending, ahead, admitted, runs, focused, draining>>
settings == <<oneAtATime, leanMode>>
database == <<rows, writes, gone>>
jobVars == <<runner, settings, database, checked, startup, restarts>>

\* saving: enqueue awaits createJobRun.  saved: the row is there, enqueue is
\* to go on.  placed: queued, or taken out of the queue since.  running: its
\* pipeline runs (RunState.status is running).  ended: finalizeRun was called;
\* the pipeline settles while the run is admitted.  failed: enqueue returned
\* null.  lost: it was of an earlier page load.
Phase == {"free", "saving", "saved", "placed", "running", "ended", "failed", "lost"}

\* finished stands for succeeded, failed and cancelled.
Row == {"none", "queued", "running", "finished", "interrupted", "deleted"}

HasRow(r) == rows[r] \notin {"none", "deleted"}

\* isRunRunning and getActiveRunForJob(j)?.status = running.
isRunRunning(r) == r \in runs /\ phase[r] = "running"
JobRuns(j) == \E r \in runs : phase[r] = "running" /\ job[r] = j

getActiveRuns == {r \in runs : phase[r] = "running"}
getCurrentRun == IF focused \in runs THEN focused ELSE Null

-----------------------------------------------------------------------------
(* Admission. *)

\* Two runs that may be going at the same time, whatever their lanes.
Beside(j, k) ==
    /\ j # k
    /\ ~(j \in AsksUser /\ k \in AsksUser)
    /\ JobDir[j] = NoDir \/ JobDir[j] # JobDir[k]

\* Fault: the folders are not compared.
CanStartInFolder(others, r, alone) ==
    \/ others = {}
    \/ /\ ~alone
       /\ \A o \in others :
            job[r] # job[o] /\ ~(job[r] \in AsksUser /\ job[o] \in AsksUser)
       /\ Cardinality({o \in others : JobLane[job[o]] = JobLane[job[r]]})
            < LaneSlots[JobLane[job[r]]]

\* Whether r may start beside the others.
CanStart(others, r, alone) ==
    \/ others = {}
    \/ /\ ~alone
       /\ \A o \in others : Beside(job[r], job[o])
       /\ Cardinality({o \in others : JobLane[job[o]] = JobLane[job[r]]})
            < LaneSlots[JobLane[job[r]]]

\* Fault: a run is weighed against those going before the loop.
DrainedAtOnce(S, alone) ==
    \A r \in pending : r \in S <=> CanStart(admitted, r, alone)

\* S is what drain's loop over `pending` starts: each run is weighed against
\* those going by then.
Drained(S, alone) ==
    \A r \in pending :
        r \in S <=> CanStart(admitted \cup {q \in S : <<q, r>> \in ahead}, r, alone)

\* Taking S out of the queue.
Unqueue(S) ==
    /\ pending' = pending \ S
    /\ ahead' = {p \in ahead : p[1] \notin S /\ p[2] \notin S}

Send(ws) == writes' = writes \cup ws

\* The run view after the runs of S started, the first of them `first`: it
\* moves there unless it shows a run still going, and the finished run it
\* showed goes unless that one is settling.
Show(S, first) ==
    IF getCurrentRun \in getActiveRuns
    THEN runs' = runs \cup S /\ UNCHANGED focused
    ELSE /\ runs' = ({r \in runs : r # getCurrentRun \/ r \in admitted}) \cup S
         /\ focused' = first

\* startRun of every run of S; markRunStarted is not awaited.
StartAll(S) ==
    /\ admitted' = admitted \cup S
    /\ phase' = [r \in RunIds |-> IF r \in S THEN "running" ELSE phase[r]]
    /\ parent' = [r \in RunIds |-> IF r \in S THEN Null ELSE parent[r]]
    /\ Send({<<"started", r>> : r \in S})
    /\ IF S = {} THEN UNCHANGED <<runs, focused>>
       ELSE \E first \in S : (\A q \in S : <<q, first>> \notin ahead) /\ Show(S, first)

\* drain: starts every queued run that may start, in queue order.
StartQueued(alone) ==
    \E S \in SUBSET pending : Drained(S, alone) /\ StartAll(S) /\ Unqueue(S)
-----------------------------------------------------------------------------
(* enqueue, up to its await of createJobRun, and after it. *)

Enqueue(r, j, from) ==
    /\ phase[r] = "free"
    /\ j \notin gone
    /\ leanMode => j \in LeanJobs
    /\ phase' = [phase EXCEPT ![r] = "saving"]
    /\ job' = [job EXCEPT ![r] = j]
    /\ parent' = [parent EXCEPT ![r] = from]
    /\ Send({<<"create", r>>})
    /\ UNCHANGED <<pending, ahead, admitted, runs, focused, draining, settings,
                   rows, gone, checked, startup, restarts>>

\* By hand, by the scheduler (started once the sweep is over, and never for a
\* job that interviews), or by the pipeline of a run.
EnqueueManual(r, j) ==
    /\ startup \in (IF EarlyUser THEN {"sweeping", "ready"} ELSE {"ready"})
    /\ Enqueue(r, j, Null)

EnqueueScheduled(r, j) ==
    /\ startup = "ready"
    /\ j \notin AsksUser
    /\ Enqueue(r, j, Null)

EnqueueChained(r, j, from) ==
    /\ phase[from] = "running"
    /\ Enqueue(r, j, from)

chained(r) == parent[r] # Null

\* Whom a queued run is put ahead of: a chained one goes before the first
\* that is not, any other to the back.
GoesAheadOf(r) ==
    IF chained(r)
    THEN {q \in pending : \E u \in pending : ~chained(u) /\ (q = u \/ <<u, q>> \in ahead)}
    ELSE {}

Place(r) ==
    /\ phase[r] = "saved"
    /\ IF CanStart(admitted, r, oneAtATime \/ leanMode)
       THEN /\ StartAll({r})
            /\ UNCHANGED <<pending, ahead>>
       ELSE /\ phase' = [phase EXCEPT ![r] = "placed"]
            /\ pending' = pending \cup {r}
            /\ ahead' = ahead \cup ((pending \ GoesAheadOf(r)) \X {r})
                              \cup ({r} \X GoesAheadOf(r))
            /\ UNCHANGED <<parent, admitted, runs, focused, writes>>
    /\ UNCHANGED <<job, draining, settings, rows, gone, checked, startup, restarts>>

-----------------------------------------------------------------------------
(* A run ends. *)

\* A pipeline awaits the runs it chains before it goes on.
finalizeRun(r) ==
    /\ phase[r] = "running"
    /\ \A c \in RunIds : phase[c] \in {"saving", "saved"} => parent[c] # r
    /\ phase' = [phase EXCEPT ![r] = "ended"]
    /\ Send({<<"finished", r>>})
    /\ UNCHANGED <<job, parent, pending, ahead, admitted, runs, focused, draining, settings,
                   rows, gone, checked, startup, restarts>>

\* Fault: the next run is looked for when a queued one is asked for.
SettleQuietly(r) ==
    /\ phase[r] = "ended" /\ r \in admitted
    /\ admitted' = admitted \ {r}
    /\ runs' = IF focused = r THEN runs ELSE runs \ {r}
    /\ UNCHANGED <<phase, job, parent, pending, ahead, focused, draining, settings, database,
                   checked, startup, restarts>>

onSettled(r) ==
    /\ phase[r] = "ended" /\ r \in admitted
    /\ admitted' = admitted \ {r}
    /\ runs' = IF focused = r THEN runs ELSE runs \ {r}
    /\ draining' = (draining \/ pending # {})
    /\ UNCHANGED <<phase, job, parent, pending, ahead, focused, settings, database,
                   checked, startup, restarts>>

drain ==
    /\ draining
    /\ draining' = FALSE
    /\ StartQueued(oneAtATime \/ leanMode)
    /\ UNCHANGED <<job, settings, rows, gone, checked, startup, restarts>>

-----------------------------------------------------------------------------
(* The user. *)

\* Turning it off drains at once.
setOneRunAtATime(on) ==
    /\ "oneAtATime" \in Settings /\ oneAtATime # on
    /\ oneAtATime' = on
    /\ IF on THEN UNCHANGED <<phase, parent, pending, ahead, admitted, runs, focused, writes>>
             ELSE StartQueued(leanMode)
    /\ UNCHANGED <<job, draining, leanMode, rows, gone, checked, startup, restarts>>

setLeanMode(on) ==
    /\ "leanMode" \in Settings /\ leanMode # on
    /\ leanMode' = on
    /\ UNCHANGED <<runner, oneAtATime, database, checked, startup, restarts>>

\* The Jobs tab offers the runs going now.
focusRun(r) ==
    /\ r \in getActiveRuns
    /\ focused # r
    /\ focused' = r
    /\ UNCHANGED <<phase, job, parent, pending, ahead, admitted, runs, draining, settings,
                   database, checked, startup, restarts>>

\* Fault: the view closes although other runs are going.
CloseToNothing ==
    /\ getCurrentRun # Null /\ getCurrentRun \notin getActiveRuns
    /\ runs' = {r \in runs : r # getCurrentRun \/ r \in admitted}
    /\ focused' = Null
    /\ UNCHANGED <<phase, job, parent, pending, ahead, admitted, draining, settings, database,
                   checked, startup, restarts>>

\* The view moves to the oldest run going; `runs` is a set here, so to any.
clearCurrentRun ==
    /\ getCurrentRun # Null /\ getCurrentRun \notin getActiveRuns
    /\ runs' = {r \in runs : r # getCurrentRun \/ r \in admitted}
    /\ IF getActiveRuns = {} THEN focused' = Null ELSE focused' \in getActiveRuns
    /\ UNCHANGED <<phase, job, parent, pending, ahead, admitted, draining, settings, database,
                   checked, startup, restarts>>

\* run.cancel of a queued run.
CancelQueued(r) ==
    /\ r \in pending
    /\ Unqueue({r})
    /\ Send({<<"finished", r>>})
    /\ UNCHANGED <<phase, job, parent, admitted, runs, focused, draining, settings, rows, gone,
                   checked, startup, restarts>>

\* Fault: the run stays in the queue.
DeleteRunRow(r) ==
    /\ "run" \in Deleters
    /\ startup # "loading"
    /\ phase[r] \in {"placed", "ended", "lost"} /\ HasRow(r)
    /\ Send({<<"delete", r>>})
    /\ UNCHANGED <<runner, settings, rows, gone, checked, startup, restarts>>

\* Delete, on a row of the history.
DeleteRun(r) ==
    /\ "run" \in Deleters
    /\ startup # "loading"
    /\ phase[r] \in {"placed", "ended", "lost"} /\ HasRow(r)
    /\ Unqueue({r})
    /\ Send({<<"delete", r>>})
    /\ UNCHANGED <<phase, job, parent, admitted, runs, focused, draining, settings, rows, gone,
                   checked, startup, restarts>>

\* runs.delete looks at the run, awaits a read of its row, and goes on.  A
\* client names a run that enqueue has returned.
CheckRun(r) ==
    /\ "runs.delete" \in Deleters
    /\ startup # "loading"
    /\ phase[r] \in {"placed", "ended", "lost"} /\ HasRow(r)
    /\ ~isRunRunning(r)
    /\ checked = Null /\ checked' = r
    /\ UNCHANGED <<runner, settings, database, startup, restarts>>

DeleteChecked(r) ==
    /\ checked = r
    /\ checked' = Null
    /\ IF HasRow(r) THEN Unqueue({r}) /\ Send({<<"delete", r>>})
                    ELSE UNCHANGED <<pending, ahead, writes>>
    /\ UNCHANGED <<phase, job, parent, admitted, runs, focused, draining, settings, rows, gone,
                   startup, restarts>>

QueuedOf(j) == {r \in pending : job[r] = j}

\* Clear all, above a job's history.
DeleteAllRuns(j) ==
    /\ "all" \in Deleters
    /\ startup # "loading"
    /\ j \notin gone /\ ~JobRuns(j)
    /\ \E r \in RunIds : job[r] = j /\ HasRow(r)
    /\ Unqueue(QueuedOf(j))
    /\ Send({<<"clear", j>>})
    /\ UNCHANGED <<phase, job, parent, admitted, runs, focused, draining, settings, rows, gone,
                   checked, startup, restarts>>

\* The engine's jobs.delete, and the job editor, which leaves the queue alone.
DeleteJob(j, way) ==
    /\ way \in Deleters
    /\ startup # "loading"
    /\ j \notin gone /\ ~JobRuns(j)
    /\ IF way = "jobs.delete" THEN Unqueue(QueuedOf(j)) ELSE UNCHANGED <<pending, ahead>>
    /\ Send({<<"deleteJob", j>>})
    /\ UNCHANGED <<phase, job, parent, admitted, runs, focused, draining, settings, rows, gone,
                   checked, startup, restarts>>

-----------------------------------------------------------------------------
(* The database. *)

\* The row of a deleted job's run cannot be made.  The enqueue that asked for it
\* goes on unless its page is gone.
Create(r) ==
    /\ <<"create", r>> \in writes
    /\ IF job[r] \in gone
       THEN /\ phase' = [phase EXCEPT ![r] = IF @ = "saving" THEN "failed" ELSE @]
            /\ UNCHANGED rows
       ELSE /\ rows' = [rows EXCEPT ![r] = "queued"]
            /\ phase' = [phase EXCEPT ![r] = IF @ = "saving" THEN "saved" ELSE @]
    /\ writes' = writes \ {<<"create", r>>}
    /\ UNCHANGED <<job, parent, pending, ahead, admitted, runs, focused, draining, settings, gone,
                   checked, startup, restarts>>

\* Fault: a row that is not queued is written too.
MarkedStartedAnyway(r) == IF HasRow(r) THEN "running" ELSE rows[r]

mark_run_started(r) == IF rows[r] = "queued" THEN "running" ELSE rows[r]
mark_run_finished(r) == IF HasRow(r) THEN "finished" ELSE rows[r]
Deleted(r) == IF HasRow(r) THEN "deleted" ELSE rows[r]
recover_orphan_runs(r) == IF rows[r] \in {"queued", "running"} THEN "interrupted" ELSE rows[r]

\* The rows after a write: of one run, of a job's runs (deleting a job deletes
\* them too), or of all.
Written(w) ==
    [r \in RunIds |->
        CASE w = <<"started", r>>  -> mark_run_started(r)
          [] w = <<"finished", r>> -> mark_run_finished(r)
          [] w = <<"delete", r>>   -> Deleted(r)
          [] w \in {<<"clear", job[r]>>, <<"deleteJob", job[r]>>} -> Deleted(r)
          [] w = <<"sweep", Null>> -> recover_orphan_runs(r)
          [] OTHER -> rows[r]]

Write(w) ==
    /\ w \in writes /\ w[1] # "create"
    /\ writes' = writes \ {w}
    /\ rows' = Written(w)
    /\ gone' = IF w[1] = "deleteJob" THEN gone \cup {w[2]} ELSE gone
    /\ UNCHANGED <<runner, settings, checked, startup, restarts>>

-----------------------------------------------------------------------------
(* Page loads. *)

Forget ==
    /\ phase' = [r \in RunIds |-> IF phase[r] = "free" THEN "free" ELSE "lost"]
    /\ pending' = {} /\ ahead' = {} /\ admitted' = {} /\ runs' = {}
    /\ focused' = Null /\ draining' = FALSE /\ checked' = Null
    /\ startup' = "loading"
    /\ restarts < MaxRestarts /\ restarts' = restarts + 1
    /\ UNCHANGED <<job, parent, settings, rows, gone>>

\* The webview reloads or crashes; the commands on their way still run.
ReloadPage == Forget /\ UNCHANGED writes

\* The process ends; the database keeps what was written.
Quit == Forget /\ writes' = {}

\* Fault: the rows of the last session are left as they are.
LoadUnswept ==
    /\ startup = "loading" /\ writes = {}
    /\ startup' = "sweeping"
    /\ UNCHANGED <<runner, settings, database, checked, restarts>>

\* The layout mounts: recoverOrphanRuns is called.
\* A page takes longer to load than a database command to run.
Load ==
    /\ startup = "loading" /\ writes = {}
    /\ startup' = "sweeping"
    /\ Send({<<"sweep", Null>>})
    /\ UNCHANGED <<runner, settings, rows, gone, checked, restarts>>

\* Fault: the scheduler does not wait for the sweep.
ReadyAtOnce ==
    /\ startup = "sweeping"
    /\ startup' = "ready"
    /\ UNCHANGED <<runner, settings, database, checked, restarts>>

\* It has settled: the scheduler starts.
Ready ==
    /\ startup = "sweeping"
    /\ <<"sweep", Null>> \notin writes
    /\ startup' = "ready"
    /\ UNCHANGED <<runner, settings, database, checked, restarts>>

-----------------------------------------------------------------------------
JobsInit ==
    /\ phase = [r \in RunIds |-> "free"]
    /\ job = [r \in RunIds |-> Null] /\ parent = [r \in RunIds |-> Null]
    /\ pending = {} /\ ahead = {} /\ admitted = {} /\ runs = {}
    /\ focused = Null /\ draining = FALSE
    /\ oneAtATime = FALSE /\ leanMode = FALSE
    /\ rows = [r \in RunIds |-> "none"]
    /\ writes = {} /\ gone = {} /\ checked = Null
    /\ startup = "loading" /\ restarts = 0

User ==
    \/ \E r \in RunIds, j \in Jobs : EnqueueManual(r, j)
    \/ \E on \in BOOLEAN : setOneRunAtATime(on) \/ setLeanMode(on)
    \/ clearCurrentRun
    \/ \E r \in RunIds : focusRun(r) \/ CancelQueued(r) \/ DeleteRun(r) \/ CheckRun(r)
    \/ \E j \in Jobs : DeleteAllRuns(j) \/ \E way \in {"jobs.delete", "editor"} : DeleteJob(j, way)

Scheduler == \E r \in RunIds, j \in Jobs : EnqueueScheduled(r, j)

Pipeline(r) ==
    \/ finalizeRun(r) \/ onSettled(r)
    \/ \E c \in RunIds, j \in Jobs : EnqueueChained(c, j, r)

\* A task of the renderer; drain is a microtask of the one that queued it.
Task ==
    /\ ~draining
    /\ \/ User \/ Scheduler
       \/ \E r \in RunIds : Place(r) \/ Pipeline(r) \/ DeleteChecked(r)

Host ==
    \/ \E r \in RunIds : Create(r)
    \/ \E w \in writes : Write(w)

PageLoad == Load \/ Ready \/ ReloadPage \/ Quit

JobsNext == Task \/ drain \/ Host \/ PageLoad

JobsSpec == JobsInit /\ [][JobsNext]_jobVars

-----------------------------------------------------------------------------
(* Properties. *)

Writes == ({"create", "started", "finished", "delete"} \X RunIds)
            \cup ({"clear", "deleteJob"} \X Jobs) \cup {<<"sweep", Null>>}

JobsTypeOK ==
    /\ phase \in [RunIds -> Phase]
    /\ job \in [RunIds -> Jobs \cup {Null}]
    /\ \A r \in RunIds : phase[r] # "free" => job[r] \in Jobs
    /\ parent \in [RunIds -> RunIds \cup {Null}]
    /\ pending \subseteq RunIds /\ admitted \subseteq RunIds /\ runs \subseteq RunIds
    /\ ahead \subseteq pending \X pending
    /\ \A q, r \in pending : q # r => (<<q, r>> \in ahead <=> <<r, q>> \notin ahead)
    /\ focused \in runs \cup {Null}
    /\ draining \in BOOLEAN /\ oneAtATime \in BOOLEAN /\ leanMode \in BOOLEAN
    /\ rows \in [RunIds -> Row]
    /\ writes \subseteq Writes
    /\ gone \subseteq Jobs /\ checked \in RunIds \cup {Null}
    /\ startup \in {"loading", "sweeping", "ready"} /\ restarts \in 0..MaxRestarts

\* Runs going side by side never share a job, a folder or the user's attention,
\* whichever of enqueue, drain and setOneRunAtATime started them.
GoTogether == \A q, r \in admitted : q # r => Beside(job[q], job[r])

\* Nor do they outnumber the slots of a lane, though a drain starts several.
LanesWithinSlots ==
    \A r \in admitted :
        Cardinality({o \in admitted : JobLane[job[o]] = JobLane[job[r]]})
            <= LaneSlots[JobLane[job[r]]]

\* The queue is never left to itself: while a run is queued, a run is going
\* whose onSettled will drain it, or a drain is on its way.
NoStuckQueue == pending # {} => admitted # {} \/ draining

\* The run view always follows a run when one is going, however runs start,
\* settle, are picked and are closed.
RunViewShowsWork == getActiveRuns # {} => getCurrentRun # Null

\* The start-up sweep interrupts rows that an earlier page load left, and none
\* of this one.
SweepSparesLive ==
    [][\A r \in RunIds :
        rows'[r] = "interrupted" /\ rows[r] # "interrupted" => phase[r] = "lost"]_jobVars

\* A finished run's row stays finished although markRunStarted and
\* markRunFinished, neither awaited, may reach the database in either order.
FinishedStays ==
    [][\A r \in RunIds : rows[r] = "finished" => rows'[r] \in {"finished", "deleted"}]_jobVars

\* A run deleted by its own row never starts, though the queue is in memory and
\* runs.delete awaits the database between its check and its deletion.
DeletedNeverStarts ==
    [][\A r \in admitted' \ admitted :
        rows[r] # "deleted" /\ <<"delete", r>> \notin writes]_jobVars

\* runner.svelte.ts:674 "Deleting a queued run's row must come through here":
\* whatever deletes the row of a queued run takes the run out of the queue.
Deletions(r) == {<<"delete", r>>, <<"clear", job[r]>>, <<"deleteJob", job[r]>>}
DeletedLeavesQueue ==
    [][\A r \in pending :
        Deletions(r) \cap (writes' \ writes) # {} => r \notin pending']_jobVars

\* A queued run starts or is taken out of the queue.
QueuedRunStarts == \A r \in RunIds : r \in pending ~> r \notin pending

\* No row says queued or running for ever: its run finishes, its row is
\* deleted, or the next start sweeps it.
RowsSettle ==
    \A r \in RunIds : rows[r] \in {"queued", "running"} ~> rows[r] \notin {"queued", "running"}
=============================================================================
