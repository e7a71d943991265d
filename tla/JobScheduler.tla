---------------------------- MODULE JobScheduler ----------------------------
(***************************************************************************)
(* The job runner with the scheduler that starts jobs at their due times   *)
(* (lib/agent/jobs/scheduler.svelte.ts).  A ticker lists the jobs whose    *)
(* next_due_at has passed, and for each saves the next one, then enqueues  *)
(* a run: a read and a write of the database and an enqueue, each awaited, *)
(* while the user edits and deletes jobs and the page may go.              *)
(*                                                                         *)
(* A schedule is an interval of Period ticks of the clock; the others      *)
(* differ in their arithmetic only.  Whether a card's job is paused with   *)
(* the Home tab may be answered either way at any time.                    *)
(***************************************************************************)
EXTENDS JobRunner, Sequences

CONSTANTS
    Period,     \* a job's interval, in ticks of the clock
    CardJobs,   \* jobs that belong to a Home card
    MaxClock,   \* bound: time
    MaxUpsets   \* bound: edits, and due times that could not be saved

ASSUME SchedulerAssumption ==
    /\ Period \in [Jobs -> Nat \ {0}]
    /\ IsFiniteSet(Jobs) /\ CardJobs \subseteq Jobs
    /\ MaxClock \in Nat /\ MaxUpsets \in Nat

VARIABLES
    clock,
    schedule,  \* jobs.schedule_kind, and whether its configuration can be read
    due,       \* jobs.next_due_at, Never for NULL
    saves,     \* db_set_job_next_due_at on its way
    tick,      \* the tick under way: see Tick
    copies,    \* jobs.update: jobs it has read and not written
    served,    \* history: up to when a job's due times were answered by a run
    rewound,   \* history: jobs whose due time an update put back
    upsets     \* edits and failed saves so far

scheduler == <<clock, schedule, due, saves, tick, copies, served, rewound, upsets>>
schedVars == <<jobVars, scheduler>>

Never == 0

\* `ticking` is at # "idle".  list: the jobs not dealt with, as they were read,
\* the first of them being dealt with.  saved: its next due time was saved.
Tick == [at : {"idle", "listing", "next", "saving", "saved", "waiting"}, now : 0..MaxClock,
         list : Seq([job : Jobs, schedule : {"interval", "unreadable"}, due : Nat]),
         saved : BOOLEAN, run : RunIds \cup {Null}]
NoTick == [at |-> "idle", now |-> 0, list |-> <<>>, saved |-> FALSE, run |-> Null]

listed == Head(tick.list)
Moves(at) == tick' = [tick EXCEPT !.at = at]
NextOne == tick' = [tick EXCEPT !.at = "next", !.list = Tail(@)]

IsDue(j, now) ==
    j \notin gone /\ schedule[j] # "manual" /\ due[j] # Never /\ due[j] <= now

\* Fault: the due times missed in between are made up for.
NextDueOnly(j, prevDue, now) == prevDue + Period[j]

\* The due times missed in between are passed over.
computeNextDueAt(j, prevDue, now) ==
    prevDue + ((now - prevDue) \div Period[j] + 1) * Period[j]

-----------------------------------------------------------------------------
(* A tick. *)

\* The timer, and at once when the scheduler starts.
StartTick ==
    /\ startup = "ready" /\ tick.at = "idle"
    /\ tick' = [NoTick EXCEPT !.at = "listing", !.now = clock]
    /\ UNCHANGED <<jobVars, clock, schedule, due, saves, copies, served, rewound, upsets>>

\* The earliest due first.
list_due_jobs ==
    /\ tick.at = "listing"
    /\ LET dues == {[job |-> j, schedule |-> schedule[j], due |-> due[j]]
                        : j \in {k \in Jobs : IsDue(k, tick.now)}}
       IN \E list \in [1..Cardinality(dues) -> dues] :
            /\ \A i, k \in DOMAIN list : i < k =>
                 list[i] # list[k] /\ list[i].due <= list[k].due
            /\ tick' = [tick EXCEPT !.at = "next", !.list = list]
    /\ UNCHANGED <<jobVars, clock, schedule, due, saves, copies, served, rewound, upsets>>

\* Fault: `ticking` stays set when nothing was due.
EndBusyTick ==
    /\ tick.at = "next" /\ tick.list = <<>> /\ tick.run # Null
    /\ tick' = NoTick
    /\ UNCHANGED <<jobVars, clock, schedule, due, saves, copies, served, rewound, upsets>>

EndTick ==
    /\ tick.at = "next" /\ tick.list = <<>>
    /\ tick' = NoTick
    /\ UNCHANGED <<jobVars, clock, schedule, due, saves, copies, served, rewound, upsets>>

\* The next due time is saved first; a job that interviews, or whose schedule
\* cannot be read, has none.
processDueJob ==
    /\ tick.at = "next" /\ tick.list # <<>>
    /\ Moves("saving")
    /\ saves' = {[job |-> listed.job,
                  due |-> IF listed.job \in AsksUser \/ listed.schedule = "unreadable" THEN Never
                          ELSE computeNextDueAt(listed.job, listed.due, tick.now)]}
    /\ UNCHANGED <<jobVars, clock, schedule, due, copies, served, rewound, upsets>>

\* The write is executed, or fails, which the tick does not see.  A job that
\* interviews is not enqueued; the page may be gone.
set_job_next_due_at(w) ==
    /\ saves' = saves \ {w}
    /\ \/ due' = (IF w.job \in gone THEN due ELSE [due EXCEPT ![w.job] = w.due])
          /\ UNCHANGED upsets
       \/ upsets < MaxUpsets /\ upsets' = upsets + 1 /\ UNCHANGED due
    /\ IF tick.at # "saving" THEN UNCHANGED tick
       ELSE IF w.job \in AsksUser THEN NextOne
       ELSE tick' = [tick EXCEPT !.at = "saved", !.saved = (upsets' = upsets)]
    /\ UNCHANGED <<jobVars, clock, schedule, copies, served, rewound>>

pausedWithHome ==
    /\ tick.at = "saved" /\ listed.job \in CardJobs
    /\ NextOne
    /\ UNCHANGED <<jobVars, clock, schedule, due, saves, copies, served, rewound, upsets>>

EnqueueDue(r) ==
    /\ tick.at = "saved"
    /\ EnqueueScheduled(r, listed.job)
    /\ tick' = [tick EXCEPT !.at = "waiting", !.run = r]
    /\ served' = IF tick.saved THEN [served EXCEPT ![listed.job] = tick.now] ELSE served
    /\ UNCHANGED <<clock, schedule, due, saves, copies, rewound, upsets>>

\* The job is gone by now, or paused by lean mode.
EnqueueRefused ==
    /\ tick.at = "saved"
    /\ listed.job \in gone \/ (leanMode /\ listed.job \notin LeanJobs)
    /\ NextOne
    /\ UNCHANGED <<jobVars, clock, schedule, due, saves, copies, served, rewound, upsets>>

\* enqueue has returned.
Enqueued ==
    /\ tick.at = "waiting" /\ phase[tick.run] \notin {"saving", "saved"}
    /\ NextOne
    /\ UNCHANGED <<jobVars, clock, schedule, due, saves, copies, served, rewound, upsets>>

-----------------------------------------------------------------------------
(* Beside it. *)

\* The editor, or a jobs.update that names a schedule: it begins anew.
SaveSchedule(j, kind) ==
    /\ startup # "loading" /\ upsets < MaxUpsets /\ j \notin gone \cup AsksUser
    /\ upsets' = upsets + 1
    /\ schedule' = [schedule EXCEPT ![j] = kind]
    /\ due' = [due EXCEPT ![j] = IF kind = "manual" THEN Never ELSE clock + Period[j]]
    /\ UNCHANGED <<jobVars, clock, saves, tick, copies, served, rewound>>

\* A jobs.update of anything else reads the job and writes it whole, as it was.
mustGet(j) ==
    /\ startup # "loading" /\ upsets < MaxUpsets /\ j \notin gone \cup AsksUser
    /\ upsets' = upsets + 1
    /\ copies' = copies \cup {[job |-> j, schedule |-> schedule[j], due |-> due[j]]}
    /\ UNCHANGED <<jobVars, clock, schedule, due, saves, tick, served, rewound>>

writeJob(c) ==
    /\ copies' = copies \ {c}
    /\ IF c.job \in gone THEN UNCHANGED <<schedule, due, rewound>>
       ELSE /\ schedule' = [schedule EXCEPT ![c.job] = c.schedule]
            /\ due' = [due EXCEPT ![c.job] = c.due]
            /\ rewound' = IF c.due = due[c.job] THEN rewound ELSE rewound \cup {c.job}
    /\ UNCHANGED <<jobVars, clock, saves, tick, served, upsets>>

Elapse ==
    /\ clock < MaxClock
    /\ clock' = clock + 1
    /\ UNCHANGED <<jobVars, schedule, due, saves, tick, copies, served, rewound, upsets>>

\* What goes with its page; the write on its way runs, unless the app ends.
PageGone(left) ==
    /\ tick' = NoTick /\ saves' = left /\ copies' = {}
    /\ UNCHANGED <<clock, schedule, due, served, rewound, upsets>>

-----------------------------------------------------------------------------
SchedInit ==
    /\ JobsInit
    /\ clock = 0
    /\ schedule \in [Jobs -> {"interval", "unreadable"}]
    /\ due = [j \in Jobs |-> 1]
    /\ saves = {} /\ tick = NoTick /\ copies = {}
    /\ served = [j \in Jobs |-> 0] /\ rewound = {}
    /\ upsets = 0

TickTask ==
    \/ StartTick \/ EndTick \/ processDueJob \/ pausedWithHome \/ EnqueueRefused \/ Enqueued
    \/ \E r \in RunIds : EnqueueDue(r)

\* The rest of the runner that decides whether a job can be enqueued, and when
\* enqueue returns; runs by hand and in chains are JobRunner's subject.
RunnerTask ==
    \/ \E r \in RunIds : Place(r) \/ finalizeRun(r) \/ onSettled(r)
    \/ \E j \in Jobs : DeleteAllRuns(j) \/ DeleteJob(j, "jobs.delete")
    \/ \E on \in BOOLEAN : setLeanMode(on)

SchedNext ==
    \/ ~draining /\ TickTask
    \/ ~draining /\ RunnerTask /\ UNCHANGED scheduler
    \/ drain /\ UNCHANGED scheduler
    \/ Host /\ UNCHANGED scheduler
    \/ list_due_jobs \/ \E w \in saves : set_job_next_due_at(w)
    \/ \E j \in Jobs, kind \in {"manual", "interval"} : SaveSchedule(j, kind)
    \/ \E j \in Jobs : mustGet(j)
    \/ \E c \in copies : writeJob(c)
    \/ Elapse
    \/ Load /\ saves = {} /\ UNCHANGED scheduler
    \/ Ready /\ UNCHANGED scheduler
    \/ ReloadPage /\ PageGone(saves)
    \/ Quit /\ PageGone({})

SchedSpec == SchedInit /\ [][SchedNext]_schedVars

\* The timer, the renderer's tasks and the database go on.
FairSchedule ==
    /\ SchedSpec
    /\ WF_schedVars(~draining /\ TickTask)
    /\ \A r \in RunIds : WF_schedVars(~draining /\ Place(r) /\ UNCHANGED scheduler)
    /\ WF_schedVars(drain /\ UNCHANGED scheduler)
    /\ WF_schedVars(Host /\ UNCHANGED scheduler)
    /\ WF_schedVars(list_due_jobs) /\ WF_schedVars(\E w \in saves : set_job_next_due_at(w))
    /\ WF_schedVars(Load /\ saves = {} /\ UNCHANGED scheduler)
    /\ WF_schedVars(Ready /\ UNCHANGED scheduler)

-----------------------------------------------------------------------------
(* Properties. *)

SchedTypeOK ==
    /\ clock \in 0..MaxClock /\ upsets \in 0..MaxUpsets
    /\ schedule \in [Jobs -> {"manual", "interval", "unreadable"}]
    /\ due \in [Jobs -> Nat] /\ served \in [Jobs -> 0..MaxClock]
    /\ saves \subseteq [job : Jobs, due : Nat] /\ rewound \subseteq Jobs
    /\ copies \subseteq [job : Jobs, schedule : {"manual", "interval", "unreadable"}, due : Nat]
    /\ tick \in Tick

\* However many due times were missed, however long an enqueue takes, whenever
\* the page goes and whatever the user edits: the run of a tick answers every due
\* time up to it, and no later tick starts a run for one of these (processDueJob,
\* computeNextDueAt).  Excepted are a next due time that could not be saved, and
\* a job that a jobs.update has written as it was before the tick.
DueOnce ==
    [][tick.at = "saved" /\ tick'.at = "waiting" =>
        listed.job \in rewound \/ listed.due > served[listed.job]]_schedVars

\* A due time that has come does not stay: the ticker gets to it, past jobs
\* deleted, paused, made manual or unable to run (tick, processDueJob, enqueue),
\* as long as the bounded supply of runs lasts.
Exhausted == \A r \in RunIds : phase[r] # "free"
NothingStaysDue == \A j \in Jobs : IsDue(j, clock) ~> (~IsDue(j, clock) \/ Exhausted)
=============================================================================
