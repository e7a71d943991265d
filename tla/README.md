# Haruspex: a verification development

TLA+ models of the concurrent core of Haruspex, TLC configurations that check
them on small instances, and proofs, checked by TLAPS, of theorems that hold for
every value of their constants. Source paths are relative to the repository;
`PROJECT.json` maps every definition to the lines it translates.

Haruspex is a desktop assistant: a Tauri host process (Rust, `src-tauri/src`)
and one webview per window (TypeScript, `src/lib`), around a local llama-server.
Whoever wants the model (a chat, a Code session, a Shell tab, a card of the Home
tab, a job) runs its own agent loop in its window's renderer. What they share is
in the host: the model server, the queue in front of it, the database, the sleep
inhibitor. The models are about what they share.

## 1. The system

### Components

| component | state | operations | hard because |
|---|---|---|---|
| **Inference queue** (`inference_queue.rs`) | tickets in order, reservations, lane capacities, early cancels, a sender per waiting call | acquire, cancel, release, heartbeat, release_window, lease sweep, window destroyed | commands of several windows on several threads; a cancel takes the lock twice; an async acquire can be overtaken by its own cancel; windows reload and close |
| **Inference turns** (`agent/inferenceQueue.svelte.ts`) | per turn: its newest request id, whether it holds the slot, its abort signal | withInferenceSlot, HeldSlot.release and reacquire, heartbeat, reclaimOwnWindowSlots | the request id changes under a timer, a listener and a finally block |
| **llama-server supervisor** (`server/mod.rs`, `sidecar_process.rs`, `sidecar_util.rs`) | status, child handle, generation, configuration, what stderr showed, which fallbacks are spent | start, stop, the output reader and its four recoveries, the health poller | three kinds of task around one lock, which each of them takes and drops several times |
| **Job runner** (`agent/jobs/runner.svelte.ts`, `engine/jobs.svelte.ts`) | queue, runs going, run view | enqueue by hand, by the scheduler or by a pipeline; drain; settle; cancel; delete | awaits between check and use; runs start from three places |
| **Job run rows** (`db/runs.rs`, `stores/jobRuns.svelte.ts`) | status of each run's row | create, started, finished, delete, cascade, start-up sweep | not awaited, executed on a pool in any order; reloads and crashes |
| **Job scheduler** (`jobs/scheduler.svelte.ts`, `db/jobs.rs`) | next due times, the tick under way | minute ticker; edits, updates and deletions of jobs | a due time is saved, then its run is enqueued, each awaited; a job is read whole and written whole |
| **Sleep inhibitor** (`agent/jobs/keepAwake.ts`, `power.rs`) | wish, what was applied, the OS guard | reconcile loop, worker thread, release at page load | the wish changes during the await; the release at page load is beside the loop |
| **Code session claims** (`code_tools/claims.rs`, `stores/code.svelte.ts`, `code/windows.ts`) | which window has a session, what was handed over | open, close, hand off, delete, re-attach; claim, release, window destroyed | each operation awaits four or five times; claims outlive the window that forgot them |
| **Background commands** (`code_tools/background.rs`, `shell/backgroundWatch.ts`) | a command, the watch that follows it | start, stop, watch, stop all of an owner | a stop of the turn that races the start; the watch crosses windows as JSON |
| **Remote chat relay** (`remote/relay.rs`, `remote/server.rs`, `remote/client/app.js`, `remote/driver.ts`) | a turn per session, subscribers, a page's stream and view, the driver's turn | prompt, subscribe, leave, cancel, answer, reap, disconnect, stop; the driver's reports | reports run on a pool in any order; streams lag; guests disconnect in the middle of an answer |
| **MCP supervisor** (`integrations/mcp/process.rs`) | a handle per server, its session, its status | start, stop, tool calls, the stderr reader | starts take the map's lock anew at each step; the child dies with the last reference to its session |
| **Orphan registry** (`orphans.rs`) | the pid recorded for a server's id | register, deregister, sweep at launch | what a crash leaves; one entry per id, whichever child it was for |
| Engine hub (`engine/mod.rs`) | pending replies | route, reply | a reply that never comes |
| Background tasks (`tasks/mod.rs`) | task records, who follows them | create, update, stop, notice, sweep | a notice given once |
| Approval queues (`stores/approvalQueue.svelte.ts`) | asks in order | ask, resolve, abort | an abort that races an answer |
| Sandbox worker manager (`sandbox/workerManager.ts`) | the Python worker, its pending runs | run, timeout, restart | a result that races its timeout |
| Image engine, voice sidecars (`image_engine.rs`, `whisper.rs`, `tts.rs`) | status, child | start, stop | as the supervisor, without recoveries |
| Agent loop, stores, Home cards, integrations, proxy, memory, skills, media, UI | data | sequential per turn, or I/O | little shared state |

The parts in bold are modelled. How they interact: a turn sends **commands**
(Tauri `invoke`) to the queue and awaits their promise; the queue wakes it
through a one-shot **channel** held in a map; a window that goes is reported by
an **event**, or, when only its page was reloaded, by a command of the new page.
The runner writes its rows by invokes it does not await, and drives the inhibitor
through an **$effect**, a callback that runs after the task that changed the
runner's state. The scheduler starts only when two start-up commands have
settled, and shares the queue with the runs the user and the pipelines start. The
supervisor's commands, readers and poller share `ServerInner` behind an async
**mutex**. A session crosses windows through the host: the window that gives it up
leaves a **handoff** with the claim, and the next claim takes it. A guest's page
reads an **SSE stream** that a broadcast channel feeds; the driver reports by
asynchronous commands.

### What makes each component correct

- *Queue*: slots are given out in order, to as many as the lane takes, never left
  idle, never to a background job beside a foreground turn; a caller is always
  woken; nothing is left behind by a stop, a reload, a crash.
- *Turns*: whoever thinks it has the slot has it; whoever stopped is out of the
  queue; whoever waits gets an answer.
- *Supervisor*: no process without a handle; a stopped server stays stopped; a
  failing start descends through weaker configurations and ends.
- *Jobs*: runs that must not go together do not; every queued run starts or is
  taken out; a deleted run never starts; rows settle, and once finished stay so; a
  due time starts one run at most, and none stays due.
- *Inhibitor*: awake while there is work, let go afterwards, after every reload.
- *Sessions*: open in one window; no claim nobody will release; no process
  that outlives its session, no watch lost on the way to another window.
- *Guest chat*: a page shows what the relay holds; a finished answer stays; a turn
  nobody listens to is stopped.
- *MCP*: a stopped server has no child; what a crash leaves, the next launch kills.

## 2. The modules

```
LaneSlots <= InferenceQueue <- InferenceTurns       LlamaServer   CodeSessions
                                                    RemoteChat    McpServers
             JobRunner  <- JobScheduler
                 ^
             JobsAwake  -> KeepAwake            <-  extends    <= implements
```

Each has an MC module with the instances TLC checks, but `LaneSlots`, which
`InferenceQueue` instantiates, and `KeepAwake`, which `JobsAwake` does; and
each has a module of proofs, `LaneSlots` the queue's and the inhibitor the runner's.

Names follow the source. A definition whose comment begins with *Fault:* is not
part of a specification: it is what a plausible bug would make of the definition
it stands next to, and shows that the property listed with it under "mutants" can
fail.

### InferenceQueue

Translates `Inner` of `inference_queue.rs`. One action per critical section of
its mutex.

| model | code |
|---|---|
| `tickets`, `ahead` | `Inner.tickets`, a Vec: a table by id, and the order as a relation (a proof about an order is shorter than one about a sequence that is inserted into and filtered) |
| `reservations`, `lane_capacity`, `cancelled_early` | the fields of that name |
| `call` | the state of an `inference_acquire` and, while "waiting", its entry in `Inner.senders` |
| `cancelling` | the main thread is between the two locks of `cancel`; synchronous commands wait, others do not |
| `pump` | the admission loop in closed form: on each lane the first eligible tickets that fit. `PumpIsTheWalk` says it is the loop, which `Walk` is |
| `Acquire`, `Resume` | `inference_acquire` up to `rx.await`, and after it |
| `CancelUnknown`, `CancelFound`, `CancelRemove` | the two halves of `cancel` |
| `release_with`, `heartbeat`, `release_window`, `sweep_expired` | the operations of that name; all but the heartbeat end in `Retain`, which pumps |
| `Elapse` | the wall clock, in ticks; a lease is `LeaseTtl` ticks |

Left out: snapshots and their events, consumer descriptors, timestamps.

### LaneSlots

What the queue promises, with none of its lists, leases, senders and calls: who
asks, who has a slot, which lanes are kept free of background work, how many slots
a lane has. A request joins or leaves, and in the same step the slots are served:
nobody loses one but by leaving, none is given that the lane does not have or to a
request that must give way, and none stays free while a request may have it.
`ServesSlots` says that `InferenceQueue` implements it: a ticket asks, a running one
holds, a reservation keeps its lane. The refinement takes in that no slot is left
idle and that admissions stay within the capacity (`WorkConserving` and
`AdmissionSound`, which are proved on their own as well).

### InferenceTurns

Extends the queue with the callers: `withInferenceSlot` and `HeldSlot`. A turn goes idle,
acquiring, held, released (a long tool runs without the slot), returning, held
again, done; or it is gone with its page. `inbox[w]` holds the commands a window
has sent and the host has not taken up, in order: the synchronous ones then run
on the main thread, an acquire becomes a member of `spawned` and runs at any
later moment. This is the overtaking the code guards against with
`cancelled_early`. `Reload` and `Close` lose a window's turns in the two ways the
code distinguishes. The timer of `runReleasingSlot` is `GiveBack`, at any moment
while the slot is held.

Heartbeats are sent and handled in one step; their loss is a later one coming in
time. `Tick` happens only when nothing is in flight and each live turn has
beaten since the last: a tick stands for minutes (the lease is five of them, the
beat comes every one). `Suspend` is the exception, a sleep of the machine past the lease.

Left out: the slot lender (a tool batch's children), the renderers' mirror of
the queue.

### LlamaServer

Translates `ServerInner` and the tasks around it. Every time the source takes its
lock there is a step. Commands: `Start` = `stop`, `FreePort`, `Reset`,
`SayStarting`, `SpawnFirst`, `StoreFirst`. A process has a reader, which notes
what stderr says (`note_stderr_signal`), and at its exit goes through `Terminated`,
`TakeMtp`, `TakeCtx`, `TakeGpu`, `Look` and one of the respawns or `Fail`. The
poller is `Answered` or `GaveUp`, then `Report`.

The generation number is only compared for equality with the current one, so it
is a bit of each process that a bump clears. A context size is its rung on the
ladder. A process's stderr is the set of signals `classify` finds in it.
`Overlap = FALSE` lets no command run while a termination waits or is being
handled, the usual case, in which everything below holds. `Overlap = TRUE` lets
them overlap; section 5 says what the code does then.

Left out: argument building, logs, crash reports, events, the wait for the port
at the end of `stop` (no lock, no state).

### JobRunner

One action per stretch of renderer code between awaits, one per database command
executed. `writes` is the set of commands on their way; any may run next, as the
host runs them on a pool. `phase` is how far a run has come: *saving* while
`enqueue` awaits `createJobRun`, *placed* when queued, *running*, *ended* between
`finalizeRun` and `onSettled`, *lost* with its page. A pipeline is what may
happen between `startRun` and `onSettled`: chained runs, and then the end.

`drain`'s loop over `pending` is one action: `Drained(S, alone)` says which set S
the loop starts, each run weighed against those going when the loop reaches it.
`draining` is a queued microtask, which no task precedes.

`Forget` is what a page load forgets: `ReloadPage` keeps the commands on their
way, `Quit` loses them. `Load` calls the sweep, `Ready` is the scheduler's start.

Assumptions and abstractions: a page takes longer to load than a database command
to run (`Load` waits for `writes` to be empty); nobody starts a run by hand in the
moment the sweep takes (`EarlyUser = FALSE`; the window is milliseconds, see the
hazards); a remote client deletes only runs whose `enqueue` has returned; one
`runs.delete` at a time; every lane has a finite number of slots; a job's
settings do not change while it is queued; the run view's order among other runs
does not matter. Cancelling a running run aborts its pipeline, which ends as it
may at any time. Succeeded, failed and cancelled are one status.

### JobScheduler

Extends the runner with the ticker. A tick (`tick`) lists the due jobs, the earliest
first, and goes through them: `processDueJob` sends the next due time,
`set_job_next_due_at` executes it or fails unseen, then the job is passed over
(`pausedWithHome`, `EnqueueRefused`) or enqueued (`EnqueueDue`, the runner's
`EnqueueScheduled`), and the tick goes on when that enqueue has returned
(`Enqueued`). The entries are copies as they were listed: the due time of an entry
may have been changed since. Beside it, `SaveSchedule` begins a job's schedule anew,
and `mustGet` and `writeJob` are the two halves of a `jobs.update`, which reads the
job and writes it back whole. `served` remembers up to when a job's due times were
answered by a run, `rewound` the jobs whose due time a `writeJob` put back; both are
history variables.

Every schedule is an interval of `Period` ticks: the others differ in the
arithmetic of dates only. Whether the Home tab pauses a card's job may be answered
either way each time. A list that cannot be read is an empty one, that is a tick
that did not happen. The runner's part is what decides whether and when an enqueue
returns; runs by hand and in chains stay with `JobRunner`.

### KeepAwake and JobsAwake

`KeepAwake` is the reconcile loop of `keepAwake.ts` with the worker thread of
`power.rs`; an invoke goes through sent, run, settled. `JobsAwake` composes it with
`JobRunner`: the `$effect` is a microtask (`KeepAwakeEffect`), so no task runs while
`desired` differs from `Busy`; the scheduler waits for the sweep and for
`releaseStaleInhibit`. The worker's panic is left out.

### CodeSessions

One session, its claim in the host, the windows' stores, and one background
command of it. A *flow* is an operation of a window that is under way: open, close,
hand off, delete, or erase of a session that cannot be loaded. Its place (`at`) is the
await it stands at; what it carries is the handoff it took with its claim.
Claims and releases are synchronous commands, which the host takes up in the
order a window sent them (`inbox`); loads, deletes and stops are asynchronous.

| model | code |
|---|---|
| `owner`, `handoff`; `claim`, `release`, `Destroyed` | `CodeSessionClaims` and `claims.rs` |
| `open`, `flow` | `sessions` of `code.svelte.ts`, and each call of `openSession`, `closeSession`, `handOffSession`, `deleteSession` |
| `alive`, `Create`, `CloseEmpty`, `Reattach` | the session's own window (`code/windows.ts`, `routes/code/[id]`) |
| `bg`, `watching` | a process of `background.rs` and the watch of `backgroundWatch.ts` |
| `faults` | a window crashes, a load, a delete or the creation of a window fails |

With `Overlap = FALSE` a window carries out one operation at a time and closes only
when a stopped turn's command has started or failed; section 5 says what happens
otherwise. Left out: new sessions, forks and drafts (they touch no claim before the
row is there), a reload of a live page, the transcript.

### RemoteChat

One session of the relay with the guest's pages and the driver. A text is its
length, and a shorter one stands for any that does not extend what is held. `stream`
is per page: the events broadcast and not read, whether it lagged, and what the page
shows, `handle` being `app.js`. The driver's reports (`wire`) are executed in any
order; a report carries the text as of then, and is sent again when the text has
grown meanwhile (`Exec`'s `again`). `age` is the time since the last page left, in the
two steps the reaper knows. A page reads its events at any time; a channel that
holds `Capacity` of them drops the oldest, and the reader, once it notices (`lagged`),
is sent a snapshot. Left out: pairing, attachments, the guest's history, other
sessions (the relay keeps them apart by id), HTTP.

### McpServers

A start of a server goes *checked*, *spawned*, *negotiating*, *connected*, *done*,
taking the map's lock anew each time; its child is known by the start. `handle` is
the map's entry, whose session any start of the server may overwrite. A tool call
holds a reference; the child is killed when the last one is dropped
(`Killed(start, Unheld(...))`). `stop` keeps the map locked while it shuts a child
down (`stopping`) and leaves one that a call uses to the call. `registry` is
`running.json`, one entry per server. `Crash` loses all but the registry and the
children; `sweep` is the next launch. `excused` remembers the children that a
command of their server disturbed while they started, and those left to a call at
a crash. Left out: HTTP servers (no child), tool lists, installs, the sweep's
comparison of process start times. Entries are written one at a time: the
load-modify-save of the registry, which takes no lock, is a step (section 5).

## 3. What is checked

Distinct states are those TLC reports. Every property has a mutant in
`PROJECT.json`: a definition replaced by its faulty variant, which TLC finds to
violate it.

| run | instance | states |
|---|---|---|
| `queue_order` | 3 requests, 2 lanes, 1 window, capacities 1 and 2, leases of one tick, one remembered early cancel | 519 000 |
| `turns` | a foreground chat and a background card job in windows of their own on one lane of one slot, two requests each, one reload, close or sleep past the lease, with fairness | 172 000 |
| `server` | one command at a time, 3 processes, 2 context sizes, all signals; the port, every spawn and the kill may fail; with fairness | 606 000 |
| `jobs_safety` | 3 runs of 4 jobs on two lanes: two jobs share a folder, two interview the user, three share a lane of two slots; One run at a time and lean mode switched at will; one reload or quit | 1 951 000 |
| `jobs_settle` | 2 runs of a job with the inhibitor, which may be refused; one reload or quit; Delete in the history and `runs.delete`; with fairness | 229 000 |
| `jobs_schedule` | a job with a schedule, 2 runs, 2 ticks of the clock, one edit, update or failed save, one reload or quit; Clear all and `jobs.delete`, lean mode; with fairness | 1 275 000 |
| `sessions` | 2 windows, two operations at once in the main one and one in the session's own, two faults of any kind, with fairness | 361 000 |
| `remote` | 1 page that reads at any time and may lag on a channel of one event, 2 turns of which one gets a slot, texts to 1, one question, one fault of any kind, with fairness | 573 000 |
| `mcp` | 1 server, 3 starts, 1 call, 1 crash, with fairness | 941 000 |
| `jobs_deleted`, `sessions_twice`, `remote_lagged` | see section 5 | |

**The queue** (`queue_order`). `NoLostWakeup`: a command awaits its channel exactly
as long as its ticket waits, two structures kept in step by hand. `NoOvertaking`,
`ArrivalOrder`: the order promised. `PumpIsTheWalk`: the closed form of `pump` is the
loop, on every queue that some removal may leave before the pump, under any
capacities. `ServesSlots`: the queue implements `LaneSlots`, although an acquire from a
window with other settings may lower a lane below what runs there.

**The turns** (`turns`). `HeldIsBacked`: a turn that believes it has the slot has a
running ticket, so the model calls of a lane stay within its slots, however commands
are delayed. `NoTicketLeftBehind`, `StoppedNotQueued`: once the commands of a turn
are handled, in whatever order, it has left nothing. `KeepsBackgroundOut`: from the
moment a foreground turn has its slot until it ends, its tool calls and its way
back included, no card job is admitted. `TurnSettles`, `OrphansReclaimed`: whoever
waits gets an answer, whatever is left is cleared.

**The supervisor** (`server`). `NoLeakedProcess`: no process runs without a handle
(dropping one does not kill it), but one whose kill failed. `StopIsFinal`: stopped is
stopped. `RetriesDescend`: what a recovery starts asks for strictly less than what
failed, so a start ends (`StartSettles`, unless its first spawn fails).
`FallbackSpent`: a fallback used keeps its option off until the next start.
`DeadServerNoticed`.

**The jobs.** `jobs_safety`: `GoTogether` (never two of one job, one folder, or two that
interview), `LanesWithinSlots`, `NoStuckQueue`, `RunViewShowsWork`. `jobs_settle`:
`SweepSparesLive` (the sweep interrupts only rows of an earlier page load),
`FinishedStays`, `DeletedNeverStarts`, `QueuedRunStarts`, `RowsSettle`, and
`InhibitAgrees` (at rest the machine is held awake exactly while there is work).
`jobs_schedule`: `DueOnce`, the run a tick starts answers every due time up to it,
and no later tick starts one for these, across reloads between the save and the
enqueue, edits, and ticks missed; `NothingStaysDue`, the ticker gets to every due
time past jobs that cannot run.

**The sessions** (`sessions`). `SessionInOneWindow`; `NoLeakedClaim`: a live window that
owns the claim has the session open or is at it, otherwise nobody could open it;
`WatchesKept`: moves, refusals and failed loads do not lose the watch of a running
command; `NeverOutlives`: without an owner, present or coming, nothing of the
session runs; `MovedSessionOpens`: a session that is moved arrives, or stays.

**Guest chat** (`remote`). `GuestSeesAnswer`: a page that has read its stream to the
end, and lost nothing of it, shows the turn as the relay holds it. `FinishedAnswerWhole`: no late report
changes an answer that is done. `AbandonedTurnStops`: a turn nobody listens to is
cancelled and ends.

**MCP** (`mcp`). `StoppedMeansDown`: a server that says Stopped has no child of this
run left, but one in a call. `OrphansReaped`: after a launch nothing an earlier run
left is running. `DeadServerNoticed`: a server whose child is gone does not go on
saying Ready.

### Why the bounds are enough

Queue: three tickets are the least that give one running, one waiting and one
that goes between or past; two lanes show that lanes do not disturb each other,
two capacities that one may be lowered under running tickets. A lease of one tick
lapses or does not; the order among leases is not looked at by the code. Turns:
two requests each let a turn give its slot back and return once; two windows let
one reload during the other's return. Server: a third process lets
a recovery's child start while its predecessor's reader and a stopped one still
have output; two rungs make one step down and the floor. Jobs: three runs are the
least with two going and one queued that shares with either, or one going and two
queued that a drain starts together or one by one; four jobs the least for which a
folder, the user's attention and a lane can each be what two runs contend for;
job symmetry is not used, run symmetry is (safety only). With liveness two runs of
one job suffice: one waits for the other. Scheduler: two ticks of the clock give a
due time, its successor and one missed in between; two runs the one that answers
and the one that would be too many; one upset is enough to see every edit and
failure at every place of a tick. The instance has one job, so neither the order of a
tick's list nor the branch for a job that interviews occurs in it; the theorem about `DueOnce`
covers both. Sessions: the claim knows one owner at a time, so two windows are the
least that can dispute it; the third flow lets an operation begin in a window whose
last one is not over. Guest chat: the second turn is the one a late report of the
first could disturb; a text of one is already longer than the one it extends; pages
do not interact, and two differ in nothing but their reading. MCP: three
starts are the least where one overlaps, one is stopped and one takes the place of
the stopped one. Unchecked by bounds: more than one return per turn, more than
three runs, ladders longer than two, an app that crashes twice. The theorems
cover much of it for every size.

Deadlock is checked in `queue_order`, `server` and `jobs_safety`; the others really
stop, when every turn, run, start or fault of the instance is used up
(`CHECK_DEADLOCK FALSE`).

### Fairness

Always weak, and never of the user, of a window that goes, or of a fault.

- *Turns*: the host's main thread, spawned acquires and their resumption, the
  sweeper and the clock, which run in any process that is scheduled at all; a
  renderer's continuations, its model calls and tools ending.
- *Server*: commands in progress, readers and the poller go on. A process need
  not load, complain or exit: the poller's limit is what ends a start.
- *Jobs*: microtasks, database commands, the worker thread, and each run's way
  from saved to settled. A run that never ends would hold its queue for ever;
  runs end because the agent loop is bounded.
- *Scheduler*: the timer fires, a tick goes on after each await, the database
  executes what was sent, a page that is loading loads. A run need not end: an
  enqueue returns when its run is queued.
- *Sessions*: the host takes up commands, a window's operation goes on after each
  await, the main window hears the event that re-attaches a session.
- *Guest chat*: the reaper and its clock, the end of a stream that nobody reads, the
  webview's events, timers and aborts, the driver's reports. The model need not
  admit a turn nor stop writing, and pages need not read.
- *MCP*: a reader of a pipe sees its end; a start whose child answered goes on.

## 4. What is proved

TLAPS checks each theorem for any sets of requests, lanes, windows, runs, jobs,
sessions' operations, pages or servers that satisfy the ASSUME of its module. What
else a theorem assumes is said with it.

**InferenceQueueProofs.** `TypeCorrect`: `Spec => []TypeOK`; the part that needs an
argument is that `ahead` stays a strict total order of the tickets:
a newcomer is put before a set that is closed towards the back (`JoinsAheadClosed`,
`OrderInserted`), and removal restricts it (`OrderRestricted`).
`NobodyForgotten`: `Spec => []NoLostWakeup`, inductive together with `TypeOK`. Every
operation that changes who waits ends in `PumpInto`, so the argument is made once: if every
ticket that waited before the pump had its sender, then after `Wake` the senders
are those of the tickets still waiting (`PumpLosesNobody`).

In the same module `QueueServesSlots`: the queue implements `LaneSlots`, for any
number of requests, lanes and slots. The count is the work: `pump` admits the first
eligible tickets that fit, and a set of a given size at the front of a finite total
order exists and is unique (by rank, `FirstOnes`), so what it admits fills the lane
or takes everybody. Tickets stay finitely many, an invariant of its own. On the
same lemmas rest `NoIdleSlot` (`WorkConserving`), `AdmitsWithinCapacity`
(`AdmissionSound`), `NobodyPassedOver` (`NoOvertaking`) and `OrderKept` (`ArrivalOrder`).
`PumpWalksTheQueue` (`PumpIsTheWalk`): the closed form is the loop. A ticket's rank is its
place in the loop (`RankIsPlace`, `RowInOrder`); when the loop comes to a ticket, those
it has admitted are the ones ahead of it that `pump` admits, which are all the eligible
ones or as many as the lane has room for, so it admits this one exactly if `pump` does
(`RoomFor`, `RoundOfPump`); and the function that `Walk` defines is the only one that
goes round by round, by the first round at which another would differ.

**InferenceTurnsProofs.** For any turns, windows, lanes, requests per turn and faults.
`TurnsUseTheQueue`: `TurnsSpec => Spec`, so the theorems about the queue hold under its
callers. The invariant of the rest is `Ordered`. It says per turn which commands may be
on their way and at what point of `withInferenceSlot` (`Asking`, `Releasing`,
`Cancelling`), in which order they stand in the inbox (`ReleaseFirst`: the release of
a request before the acquire that replaces it; `ResetFirst`: the release of the window
before the turn's first acquire), what became of the requests before and that nobody
knows those to come (`Earlier`, `Later`), and that a window is released before its
turns begin (`Resetting`). The proof looks at each step once for the turn it is of and
once for the others, which it leaves as they are (`Bystander`, `Sheds`, `Uncut`).
- `TurnsLeaveNothing` (`NoTicketLeftBehind`): with `Leaving`, a turn that returned has its
  release or its window's on its way for every ticket it still has.
- `TurnsWaitInNoRing` (`NoRingOfTurns`): when nothing is on its way, what keeps a waiting
  turn from its slot does not itself wait for one. It is a turn on the lane that has its
  slot, a ticket whose page is gone, or, for a background turn, a reservation: of a turn
  that runs without its slot, or one left behind until its lease lapses.
  The queue contributes `WorkConserving` and `NoLostWakeup`, the turns
  `NoTicketLeftBehind` and `Away`: a turn that waits keeps no reservation of its own, since
  the acquire to come back ends the one it replaces in the critical section that queues it.
- `StoppedTurnsLeave` (`StoppedNotQueued`): with `Stopped`, the cancel is on its way,
  remembered or at work until the call has ended or was admitted. Assumes that
  `cancelled_early` can hold one cancel of every turn: it forgets the oldest
  beyond its bound (64 in the code).
- `HeldSlotsAreBacked` (`HeldIsBacked`) and `BackgroundIsKeptOut` (`KeepsBackgroundOut`):
  with `Standing`, which follows a turn's place through the ticket it holds, the
  release on its way, the reservation, and the acquire that replaces it, and says that
  the lease of each was renewed within a tick, so the sweeper passes it by; the second
  also needs `AdmitsWithinCapacity`. Both assume that a lease outlasts the time between
  two beats (`LeaseTtl >= 2`; five minutes and one in the code).

**LlamaServerProofs.** For any number of commands, processes, rungs, signals and
failures. Overlapping or not: `SupervisorTypes`, and `FallbacksStaySpent`
(`FallbackSpent`; the invariant is `Spending`: only `Reset` raises an option, and it
clears the flags in the same lock). When no command runs while a
termination is being handled (`ASSUME ~Overlap`): `StoppedByUserStays` (`StopIsFinal`;
by the invariant `Terminating` a reader that restarts finds the status other than
Stopped). With a single caller as well (`ASSUME OneCommand`): `NothingLeaks`
(`NoLeakedProcess`) and `RecoveriesDescend` (`RetriesDescend`). Neither is inductive.
Their invariant `OneServer` says that there is one process with a reader, or one and
the replacement its reader is about to store, or one a command is about to store
(`Lineage`); that a command past its stop finds nothing running (`CommandAlone`);
that what runs and has a reader is the child (`ChildKnown`); and that a process runs
with the configuration in force until a recovery has lowered it (`InForce`). The
assumptions are needed: section 5 says what happens without them.

**JobRunnerProofs.** The invariant is `JInv`: `JobsTypeOK` with `Phases` (what is
queued is *placed*, what is going is *running* or *ended*, a row on its way belongs
to a run being saved). `TypeCorrect`; `QueueNeverStuck` (`NoStuckQueue`: when a drain
finds nothing going it starts at least the first of the queue, `DrainStartsOne`);
`RunsGoTogether` (`GoTogether`: two runs that one drain starts are comparable in the
queue's order, so the later one was weighed against the earlier,
`DrainGoesTogether`); `RunViewAlwaysShowsWork`; `FinishedRowsStay` (`FinishedStays`, with
`Unmade`: a run not yet made has no row, so a late create finds nothing to undo).
`LanesNeverOverfilled` (`LanesWithinSlots`), whatever the slots of a lane: `InOrder`, the
queue stands in a strict order, so of the runs of a lane that one drain starts
there is a last (`LastOne`), and it was weighed against the others (`WeighedFits`,
`DrainFits`). `DeletedRunsNeverStart` (`DeletedNeverStarts`) where runs are deleted from
the history or by `runs.delete` (`ASSUME OwnDeletes`; section 5 says how the other
ways of deleting fail): by `Deletion` a run is deleted only after it was placed, and
when it has left the queue. `SweepSparesTheLiving` (`SweepSparesLive`) when no run is
asked for before the launch sweep is over (`ASSUME ~EarlyUser`): by `Startup` nothing
of this page load has been enqueued until then.

`DrainIsDecided`: in every state a drain has one result, although `Drained` describes it
by the set it starts and not by the loop. Two results would differ at a first run in the
queue's order (`FirstOne`), which each weighed against the same earlier ones (`Weighed`), so
they agree on it (`OneResult`); that there is one is the loop itself, one run further at a
time (`NextWeighed`, `SomeResult`). `QueueWaitsForReason` (`WaitsForReason`): while no drain
is on its way, the runs that are going hold back every queued run: what a drain passes over
does not fit with what it leaves going (`DrainLeavesNone`), and more going holds back more
(`CanStartFewer`). It assumes that lean mode is not switched (`"leanMode" \notin Settings`):
switching it off starts no drain, so what it held back waits for the next settle. That is
how the runner is written. `NoRowIsForgotten` (`NoRowForgotten`): a row
that says queued or running belongs to a run still in the runner's hands, is about to be
written again, or is one for the sweep. Its invariant `Creation` follows a row from the
create that makes it to the last command that writes it.

The same module proves of the runner with its inhibitor that it is the runner
(`AwakeRunsJobs`, a refinement: every theorem above holds of `JobsAwake` too), and
`InhibitFollowsWork` (`InhibitAgrees`), when no run is asked for before the launch sweep
is over (`ASSUME ~EarlyUser`). `InhibitAgrees` speaks of the loop at rest; the invariant
`Inhibit` says what holds while it is not: where `power.rs` is with the invoke that was
sent (`Agree`: an acquire that was run holds, a refused one changed nothing), and that
until a page is ready its loop has nothing to do, so that the release at its start,
beside the loop, finds no acquire to undo (`BusyIsReady`: before that there is no work).

**JobSchedulerProofs.** `SchedulerTypes`; `DueTimesAnsweredOnce` (`DueOnce`), for any number of
jobs with any intervals and lists of any length and order. `DueOnce` compares the entry
being dealt with to what earlier ticks answered, and an entry is a copy: the invariant
`Answered` follows a due time from the database (`DuesAhead`) into the list (`ListAhead`),
through the write on its way (`SavesAhead`) and back (`SavedAhead`), and says that a tick
dies with its page while a write may outlive it until the page has loaded (`TickInPage`).
That the next due time lies ahead however many were missed is `NextIsAhead`; that the
list of the due jobs is a sequence needs the jobs to be finitely many.
`SchedulerRunsJobs` shows that runner and scheduler together implement the runner alone:
the ticker enqueues as `EnqueueScheduled` allows, and its other steps stutter.

**CodeSessionsProofs.** For a window that carries out one operation at a time
(`ASSUME ~Overlap`), any number of windows and faults: `SessionTypes`, `OpenInOneWindow`
(`SessionInOneWindow`), `ClaimsAreReleased` (`NoLeakedClaim`). The invariant is
`ClaimInv`: a window that has the session open owns the claim, and so does each
operation past its claim and short of its release. What a step does to claims and
stores has three shapes, a flow that moves on, a window that is destroyed and a
step aside, and each conjunct is shown once per shape. `WatchesAreKept`
(`WatchesKept`) and `CommandsEndInTime` (`NeverOutlives`) rest on `Custody`: a known command
is followed by a window that has the session open, or its watch waits with the
claim or is with an operation on its way, or an operation is about to stop it.
`Handed` says where a watch on its way may be; it is a conjunct per operation, so
the operations that do not move keep theirs without being looked at.

**RemoteChatProofs.** `RelayTypes`; `AnswersStayWhole` (`FinishedAnswerWhole`: a turn
that is done is no longer known, and ids are never given twice); `GuestsSeeAnswers`
(`GuestSeesAnswer`: a page that missed nothing and has read what it was sent shows the
turn). That is not inductive, since a page mostly has events left to read. The invariant
`GuestInv` says where a page that missed nothing is heading: handling what is left in its
queue, in order, leads it from what it shows to what the relay holds (`Leads`). Whatever
event the relay sends, `handle` does to that end what the relay did to the turn, so the
event appended to the queue leads further (`LeadsFurther`); handling the first one leaves
a shorter way to the same end (`LeadsOn`). It holds for queues and texts of any length.

**McpServersProofs.** For any number of servers, starts, calls and crashes: `ServersTypes`,
`StoppedServersAreDown` (`StoppedMeansDown`), `OrphansAreReaped` (`OrphansReaped`). Neither
property is inductive. The invariant `McpInv` adds `Links`: a handle and its session
are their own server's (`HandlesOwn`); starts of one server that overlap are excused
(`StartsAlone`); a child that lives and is not excused is known from its spawn on, first
to its start and the registry (`StartingKnown`), then to the handle, a call or the stop
that holds the lock (`ReadyKnown`), and nothing but that stop touches its server
meanwhile (`StopHolds`); what an earlier run left is recorded while the app is down
and dead once it is up (`Lifetimes`). One lemma per action shows that it keeps `Links`;
for those that kill a child or replace a handle it first says field by field what
changes.

Only model-checked: everything under fairness (`TurnSettles`, `OrphansReclaimed`,
`StartSettles`, `DeadServerNoticed`, `QueuedRunStarts`, `RowsSettle`, `NothingStaysDue`,
`MovedSessionOpens`, `AbandonedTurnStops`), since the prover does not reason about
ENABLED. Of three of them the part that is safety is proved: of `TurnSettles`,
`TurnsWaitInNoRing`; of `QueuedRunStarts`, `QueueWaitsForReason`; of `RowsSettle`,
`NoRowIsForgotten`.

## 5. What the checks found

Each of these is a run in which TLC finds the violation of what the repository
says.

1. `jobs_deleted`. Deleting a job in the editor leaves its queued run in the queue
   (`JobEditor.svelte:402`); the run later starts without a row. The comment at
   `runner.svelte.ts:673` says why it must not.
2. `sessions_twice`. A hand-off takes the session out of the store and then awaits
   its dispose and its release (`code.svelte.ts:1433`). Reopened in the same window
   meanwhile, it is claimed again by the owner it still has, and the release that
   follows gives that claim away: the session ends up open in two windows, against
   `claims.rs:3`.
3. `remote_lagged`. A stream that lagged is sent a snapshot and then the deltas
   still in its channel (`remote/server.rs:757`), which the snapshot contains: the
   page shows part of the answer twice until the turn is done.

Known and not counted as findings, since nothing in the repository promises
otherwise:

- *Queue.* A turn stopped while it takes its slot back, whose cancel overtakes the
  acquire, leaves its reservation until the lease lapses: the acquire is refused
  before it ends what it `replaces` (`inference_queue.rs:323`). After a sleep of the
  machine past the lease `HeldIsBacked` fails, which is what a lease means.
- *Supervisor.* The last stderr lines of a killed process may arm a fallback of its
  successor (`server/mod.rs:609`). When the very first spawn fails the status stays
  at Starting (495). With `Overlap = TRUE`, `StopIsFinal` fails (a stop between the
  decision to auto-restart and its first write, 697 and 990), and so does
  `NoLeakedProcess` (a reader whose termination passed the generation test at 655
  clears the handle of the process started since, 919). Two commands at once, which
  nothing keeps apart between their locks, may both spawn: the second store takes the place of the
  first one's handle (one caller in the instance, `OneCommand` in the theorems).
- *Jobs.* A run whose `enqueue` is under way while its job is deleted, or its runs are
  cleared, is started or queued all the same (`engine/jobs.svelte.ts:363`).
- *Scheduler.* `jobs.update` writes back the due time it read (`engine/jobs.svelte.ts:349`):
  a tick in between is undone, and the next one runs the job again. The tick's own
  save (`scheduler.svelte.ts:100`) overwrites the due time of a schedule edited since
  it was listed. A save that fails is not seen, and the job is due again at once. A
  job whose schedule cannot be read is made manual and yet run once more (108-116).
- *Sessions.* With `Overlap = TRUE` a second open of a session in the same window
  drops the handoff the first one took (`code.svelte.ts:1314`).
- *Guest chat.* A reload of the webview, or a database call that throws before the
  driver's `try` (`driver.ts:168`), loses a turn that the relay goes on showing as
  running. Stopping the server cancels no turn (`relay.rs:722`).
- *MCP.* Two starts of one server at once both pass the test (`process.rs:441`), and
  the handle of one is lost. A negotiation that fails drops the record of its
  server's id, whichever child has it by then (587). A server stopped during a call
  loses its record while the child lives on with the call (627). The registry file
  is loaded, changed and saved without a lock (`orphans.rs:85`).

## 6. Not modelled

`PROJECT.json` lists every component with its reason. Outside the reach of a finite
model: the contents of prompts, messages, pages and files; parsing and ranking.
Pure I/O: downloads, mail, calendars, media tools, and the larger part of the
Rust sources by lines (`models.rs`, `proxy/search.rs`, `integrations/mcp/install.rs`,
`owner/server.rs`). No shared state worth a model: the UI, the stores of a single
window. Worth one and not done: the slot lender of a tool batch, the engine hub,
background tasks, the approval queues, the sandbox worker manager.

## 7. What is left

In the order in which it would pay:

1. **Slot lender** over `InferenceTurns`: one borrower of the parent's slot and queued
   siblings, the parent's release while its children run; that a batch never
   waits on itself.
2. **Engine hub** and **background tasks**: a reply reaches the request it answers; a
   notice is given once, a stop that races an exit, the launch sweep.
3. **Approval queue, worker manager**: every ask is settled once; no result goes to
   another run.
4. Refinements: `InferenceTurns` as a lock with priorities, `CodeSessions` as a lock
   with one owner.

Every module is written for this: no RECURSIVE operator, parameters with
named assumptions, one action per operation.
