---------------------------- MODULE LlamaServer ----------------------------
(***************************************************************************)
(* The supervisor of the local llama-server (server/mod.rs): what the      *)
(* commands start and stop, the output reader of each process and the      *)
(* health poller do to the one ServerInner behind the lock.  Every lock    *)
(* acquisition of the source is a step of its own, so that the steps of a  *)
(* recovery interleave with those of the poller and of the commands.       *)
(*                                                                         *)
(* Abstractions.  The generation number is only ever compared with the     *)
(* current one: a process carries `current`, and a bump clears it on every *)
(* other process; a poller of an older generation changes nothing and is   *)
(* dropped.  A context size is a rung of CONTEXT_LADDER, 1 the lowest.     *)
(* What a process writes to stderr is the set of signals classify() finds  *)
(* in it: their order does not matter to the flags.  Reasons, logs, crash  *)
(* reports and events to the UI are left out.                              *)
(***************************************************************************)
EXTENDS Naturals, FiniteSets

CONSTANTS
  Callers,    \* commands that may run at once
  Procs,      \* process slots: a slot is reused when its process is gone
  NoProc,     \* no process
  Rungs,      \* context sizes 1..Rungs
  Lines,      \* the signals a process may write: subset of Signals
  Failures,   \* which calls may fail: subset of FailureKinds
  Overlap     \* may a command run while a termination is being handled?

FailureKinds == {"port", "start", "respawn", "kill"}
Signals == {"ctx", "mtp", "gpu"}

ASSUME ServerAssumption ==
  /\ NoProc \notin Procs
  /\ Rungs \in Nat \ {0}
  /\ Lines \subseteq Signals
  /\ Failures \subseteq FailureKinds
  /\ Overlap \in BOOLEAN

VARIABLES
  status,     \* ServerStatus
  child,      \* the process whose handle ServerInner holds
  config,     \* the part of ServerConfig the recoveries change
  flags,      \* what stderr showed and which fallbacks are spent
  procs,      \* the sidecar processes and their readers
  poller,     \* the health poller of the current generation
  call        \* the commands in progress

vars == <<status, child, config, flags, procs, poller, call>>

Status  == {"Stopped", "Starting", "Ready", "Error"}
Config  == [ctx : 1..Rungs, mtp : BOOLEAN, gpu : BOOLEAN]
Flags   == [ctx_alloc_error_detected : BOOLEAN,
            mtp_error_detected : BOOLEAN, mtp_fallback_attempted : BOOLEAN,
            gpu_error_detected : BOOLEAN, gpu_fallback_attempted : BOOLEAN,
            cpu_fallback_active : BOOLEAN]

\* How a process came to be, and the recovery a reader is carrying out.
Recoveries == {"mtp", "ctx", "cpu", "restart"}
Origins    == Recoveries \cup {"start"}

\* Where a reader is: not yet spawned, reading output, or at a step of
\* handle_termination.
ReaderAt == {"none", "reading", "take_mtp", "take_ctx", "take_gpu", "look",
             "restarting", "spawn", "store", "fail"}

Process ==
  [phase : {"free", "loading", "serving", "exited"}, config : Config,
   current : BOOLEAN, unread : SUBSET Signals, by : Origins,
   reader : ReaderAt, recovery : Recoveries, next : Procs \cup {NoProc},
   stuck : BOOLEAN]    \* history: a kill of it failed

\* Where a command is; failed: the last one found no way to spawn.
CallAt == {"idle", "failed", "free_port", "reset", "starting", "spawn", "store"}

NoFlags == [ctx_alloc_error_detected |-> FALSE,
            mtp_error_detected |-> FALSE, mtp_fallback_attempted |-> FALSE,
            gpu_error_detected |-> FALSE, gpu_fallback_attempted |-> FALSE,
            cpu_fallback_active |-> FALSE]

Free == [phase |-> "free", config |-> [ctx |-> 1, mtp |-> FALSE, gpu |-> FALSE],
         current |-> FALSE, unread |-> {}, by |-> "start",
         reader |-> "none", recovery |-> "mtp", next |-> NoProc, stuck |-> FALSE]

Running == {p \in Procs : procs[p].phase \in {"loading", "serving"}}
Serving == {p \in Procs : procs[p].phase = "serving"}

\* A slot a new process may take: nobody holds the handle of its last one.
Vacant(q) == procs[q].phase = "free" /\ q # child

\* The processes a task has spawned and not stored yet.
InHand == {procs[p].next : p \in {q \in Procs : procs[q].reader = "store"}}
          \cup {call[c].next : c \in {d \in Callers : call[d].at = "store"}}

\* No termination is waiting or being handled, nor will one be of a process
\* that could not be killed.
Settled == \A p \in Procs : procs[p].phase # "exited" /\ ~procs[p].stuck

Init ==
  /\ status = "Stopped" /\ child = NoProc
  /\ config \in [ctx : {Rungs}, mtp : {FALSE}, gpu : {TRUE}]
  /\ flags = NoFlags
  /\ procs = [p \in Procs |-> Free]
  /\ poller = "none"
  /\ call = [c \in Callers |-> [at |-> "idle", next |-> NoProc]]

----------------------------------------------------------------------------
(* Spawning, and what both spawn_and_monitor and the respawns share.       *)

\* spawn_llama with the arguments build_llama_args reads from the config.
Spawned(origin) ==
  [Free EXCEPT !.phase = "loading", !.config = config, !.by = origin]

\* A fresh reader is attached to q, in the current generation or not.
Attached(ps, q, now) == [ps EXCEPT ![q].reader = "reading", ![q].current = now]

\* generation += 1: every earlier process becomes stale.
Bumped(ps) == [p \in Procs |-> [ps[p] EXCEPT !.current = FALSE]]

\* A process that is gone and whose reader has returned frees its slot.
Ended(ps, p) == [ps EXCEPT ![p] = Free]

Killed(ps, ended) ==
  [p \in Procs |-> IF p \in ended THEN [ps[p] EXCEPT !.phase = "exited"] ELSE ps[p]]

----------------------------------------------------------------------------
(* stop(): also the first thing start() does.                              *)

\* Fault: the handle is dropped without a kill.
StopUnkilled(c, then) ==
  /\ Overlap \/ Settled
  /\ call[c].at \in {"idle", "failed"}
  /\ status' = "Stopped" /\ child' = NoProc
  /\ call' = [call EXCEPT ![c].at = then]
  /\ UNCHANGED <<config, flags, procs, poller>>

\* Drop the handle, kill the process, and say Stopped -- all in one lock.
stop(c, then) ==
  /\ Overlap \/ Settled
  /\ call[c].at \in {"idle", "failed"}
  /\ \/ /\ procs' = Killed(procs, {child} \cap Running)
        /\ status' = "Stopped"
        /\ call' = [call EXCEPT ![c].at = then]
     \/ /\ "kill" \in Failures /\ child \in Running
        /\ procs' = [procs EXCEPT ![child].stuck = TRUE]
        /\ UNCHANGED <<status, call>>
  /\ child' = NoProc
  /\ UNCHANGED <<config, flags, poller>>

Stop(c)  == stop(c, "idle")
Start(c) == stop(c, "free_port")

\* Whatever of ours still listens on the port is killed; the port may be
\* someone else's, or the model file may be missing.
FreePort(c) ==
  /\ call[c].at = "free_port"
  /\ Overlap \/ Settled
  /\ \/ /\ \E held \in {Serving} \cup {{p} : p \in {q \in Running : Serving = {}}} :
             procs' = Killed(procs, held)
        /\ call' = [call EXCEPT ![c].at = "reset"]
        /\ UNCHANGED status
     \/ /\ "port" \in Failures
        /\ status' = "Error"
        /\ call' = [call EXCEPT ![c].at = "idle"]
        /\ UNCHANGED procs
  /\ UNCHANGED <<child, config, flags, poller>>

\* Fault: the flags of the last start survive.
ResetConfigOnly(c) ==
  /\ call[c].at = "reset"
  /\ config' \in [ctx : 1..Rungs, mtp : BOOLEAN, gpu : {TRUE}]
  /\ call' = [call EXCEPT ![c].at = "starting"]
  /\ UNCHANGED <<status, child, flags, procs, poller>>

\* A fresh configuration, and nothing seen or spent yet.
Reset(c) ==
  /\ call[c].at = "reset"
  /\ config' \in [ctx : 1..Rungs, mtp : BOOLEAN, gpu : {TRUE}]
  /\ flags' = NoFlags
  /\ call' = [call EXCEPT ![c].at = "starting"]
  /\ UNCHANGED <<status, child, procs, poller>>

SayStarting(c) ==
  /\ call[c].at = "starting"
  /\ status' = "Starting"
  /\ call' = [call EXCEPT ![c].at = "spawn"]
  /\ UNCHANGED <<child, config, flags, procs, poller>>

\* A spawn that fails ends the command and leaves the status at Starting.
SpawnFirst(c) ==
  /\ call[c].at = "spawn"
  /\ \/ \E q \in Procs :
          /\ Vacant(q)
          /\ procs' = [procs EXCEPT ![q] = Spawned("start")]
          /\ call' = [call EXCEPT ![c] = [at |-> "store", next |-> q]]
     \/ /\ "start" \in Failures
        /\ call' = [call EXCEPT ![c].at = "failed"]
        /\ UNCHANGED procs
  /\ UNCHANGED <<status, child, config, flags, poller>>

StoreFirst(c) ==
  /\ call[c].at = "store"
  /\ child' = call[c].next
  /\ procs' = Attached(Bumped(procs), call[c].next, TRUE)
  /\ poller' = "polling"
  /\ call' = [call EXCEPT ![c] = [at |-> "idle", next |-> NoProc]]
  /\ UNCHANGED <<status, config, flags>>

Command(c) == FreePort(c) \/ Reset(c) \/ SayStarting(c) \/ SpawnFirst(c) \/ StoreFirst(c)

----------------------------------------------------------------------------
(* The processes themselves.                                               *)

\* A process writes a line that classify() recognises.
Complain(p) ==
  /\ p \in Running
  /\ \E s \in Lines \ procs[p].unread :
       procs' = [procs EXCEPT ![p].unread = @ \cup {s}]
  /\ UNCHANGED <<status, child, config, flags, poller, call>>

\* The model is loaded and /health answers.
Serve(p) ==
  /\ procs[p].phase = "loading" /\ Serving = {}
  /\ procs' = [procs EXCEPT ![p].phase = "serving"]
  /\ UNCHANGED <<status, child, config, flags, poller, call>>

Crash(p) ==
  /\ p \in Running
  /\ procs' = Killed(procs, {p})
  /\ UNCHANGED <<status, child, config, flags, poller, call>>

----------------------------------------------------------------------------
(* The output reader: note_stderr_signal and handle_termination.           *)

\* The flags after a line carrying signal s: a spent fallback is not armed
\* again.
Noted(s) ==
  CASE s = "ctx" -> [flags EXCEPT !.ctx_alloc_error_detected = TRUE]
    [] s = "mtp" /\ ~flags.mtp_fallback_attempted ->
         [flags EXCEPT !.mtp_error_detected = TRUE]
    [] s = "gpu" /\ ~flags.gpu_fallback_attempted ->
         [flags EXCEPT !.gpu_error_detected = TRUE]
    [] OTHER -> flags

note_stderr_signal(p) ==
  /\ procs[p].reader = "reading"
  /\ \E s \in procs[p].unread :
       /\ flags' = Noted(s)
       /\ procs' = [procs EXCEPT ![p].unread = @ \ {s}]
  /\ UNCHANGED <<status, child, config, poller, call>>

\* Fault: the generation test the wrong way round.
TerminatedInverted(p) ==
  /\ procs[p].reader = "reading"
  /\ procs[p].phase = "exited" /\ procs[p].unread = {}
  /\ procs' = IF procs[p].current THEN Ended(procs, p)
              ELSE [procs EXCEPT ![p].reader = "take_mtp"]
  /\ UNCHANGED <<status, child, config, flags, poller, call>>

\* Terminated comes after the last line.  A stale generation is ignored.
Terminated(p) ==
  /\ procs[p].reader = "reading"
  /\ procs[p].phase = "exited" /\ procs[p].unread = {}
  /\ procs' = IF procs[p].current THEN [procs EXCEPT ![p].reader = "take_mtp"]
              ELSE Ended(procs, p)
  /\ UNCHANGED <<status, child, config, flags, poller, call>>

Floor == config.ctx = 1

take_mtp_fallback ==
  /\ status = "Starting" /\ ~flags.mtp_fallback_attempted /\ config.mtp
  /\ flags.mtp_error_detected \/ (flags.ctx_alloc_error_detected /\ Floor)

TakeMtp(p) ==
  /\ procs[p].reader = "take_mtp"
  /\ IF take_mtp_fallback
     THEN /\ child' = NoProc
          /\ config' = [config EXCEPT !.mtp = FALSE]
          /\ flags' = [flags EXCEPT !.mtp_fallback_attempted = TRUE,
                                    !.mtp_error_detected = FALSE,
                                    !.ctx_alloc_error_detected = FALSE,
                                    !.gpu_error_detected = FALSE]
          /\ procs' = [procs EXCEPT ![p].reader = "spawn", ![p].recovery = "mtp"]
     ELSE /\ procs' = [procs EXCEPT ![p].reader = "take_ctx"]
          /\ UNCHANGED <<child, config, flags>>
  /\ UNCHANGED <<status, poller, call>>

\* Fault: the context size is not lowered.
TakeCtxSameSize(p) ==
  /\ procs[p].reader = "take_ctx"
  /\ IF status = "Starting" /\ flags.ctx_alloc_error_detected /\ ~Floor
     THEN /\ child' = NoProc
          /\ flags' = [flags EXCEPT !.ctx_alloc_error_detected = FALSE,
                                    !.gpu_error_detected = FALSE]
          /\ procs' = [procs EXCEPT ![p].reader = "spawn", ![p].recovery = "ctx"]
     ELSE /\ procs' = [procs EXCEPT ![p].reader = "take_gpu"]
          /\ UNCHANGED <<child, flags>>
  /\ UNCHANGED <<status, config, poller, call>>

TakeCtx(p) ==
  /\ procs[p].reader = "take_ctx"
  /\ IF status = "Starting" /\ flags.ctx_alloc_error_detected /\ ~Floor
     THEN /\ child' = NoProc
          /\ config' = [config EXCEPT !.ctx = @ - 1]
          /\ flags' = [flags EXCEPT !.ctx_alloc_error_detected = FALSE,
                                    !.gpu_error_detected = FALSE]
          /\ procs' = [procs EXCEPT ![p].reader = "spawn", ![p].recovery = "ctx"]
     ELSE /\ procs' = [procs EXCEPT ![p].reader = "take_gpu"]
          /\ UNCHANGED <<child, config, flags>>
  /\ UNCHANGED <<status, poller, call>>

TakeGpu(p) ==
  /\ procs[p].reader = "take_gpu"
  /\ child' = NoProc
  /\ IF /\ status = "Starting" /\ config.gpu
        /\ ~flags.gpu_fallback_attempted /\ flags.gpu_error_detected
     THEN /\ config' = [config EXCEPT !.gpu = FALSE]
          /\ flags' = [flags EXCEPT !.gpu_fallback_attempted = TRUE,
                                    !.gpu_error_detected = FALSE]
          /\ procs' = [procs EXCEPT ![p].reader = "spawn", ![p].recovery = "cpu"]
     ELSE /\ procs' = [procs EXCEPT ![p].reader = "look"]
          /\ UNCHANGED <<config, flags>>
  /\ UNCHANGED <<status, poller, call>>

\* Was the server Ready?
Look(p) ==
  /\ procs[p].reader = "look"
  /\ procs' = [procs EXCEPT ![p].reader =
                 IF status = "Ready" THEN "restarting" ELSE "fail"]
  /\ UNCHANGED <<status, child, config, flags, poller, call>>

\* respawn_auto_restart says Starting before it spawns.
Restarting(p) ==
  /\ procs[p].reader = "restarting"
  /\ status' = "Starting"
  /\ procs' = [procs EXCEPT ![p].reader = "spawn", ![p].recovery = "restart"]
  /\ UNCHANGED <<child, config, flags, poller, call>>

\* Fault: a clean stop is reported as an error.
FailAlways(p) ==
  /\ procs[p].reader = "fail"
  /\ status' = "Error"
  /\ procs' = Ended(procs, p)
  /\ UNCHANGED <<child, config, flags, poller, call>>

Fail(p) ==
  /\ procs[p].reader = "fail"
  /\ status' = IF status = "Stopped" THEN status ELSE "Error"
  /\ procs' = Ended(procs, p)
  /\ UNCHANGED <<child, config, flags, poller, call>>

\* The spawn of a recovery; one that fails says Error and ends.
Respawn(p) ==
  /\ procs[p].reader = "spawn"
  /\ \/ \E q \in Procs :
          /\ Vacant(q)
          /\ procs' = [procs EXCEPT ![q] = Spawned(procs[p].recovery),
                                    ![p].reader = "store", ![p].next = q]
          /\ UNCHANGED status
     \/ /\ "respawn" \in Failures
        /\ status' = "Error"
        /\ procs' = Ended(procs, p)
  /\ UNCHANGED <<child, config, flags, poller, call>>

\* Fault: the new generation has no health poller.
StoreUnwatched(p) ==
  /\ procs[p].reader = "store" /\ procs[p].recovery \in {"mtp", "ctx"}
  /\ child' = procs[p].next
  /\ procs' = Ended(Attached(Bumped(procs), procs[p].next, TRUE), p)
  /\ poller' = "none"
  /\ UNCHANGED <<status, config, flags, call>>

\* respawn_without_mtp and respawn_ctx_backoff: a new generation.
StoreBumped(p) ==
  /\ procs[p].reader = "store" /\ procs[p].recovery \in {"mtp", "ctx"}
  /\ child' = procs[p].next
  /\ procs' = Ended(Attached(Bumped(procs), procs[p].next, TRUE), p)
  /\ poller' = "polling"
  /\ UNCHANGED <<status, config, flags, call>>

\* respawn_cpu_fallback: the reader's generation, the poller still runs.
StoreCpu(p) ==
  /\ procs[p].reader = "store" /\ procs[p].recovery = "cpu"
  /\ child' = procs[p].next
  /\ procs' = Ended(Attached(procs, procs[p].next, procs[p].current), p)
  /\ flags' = [flags EXCEPT !.cpu_fallback_active = TRUE]
  /\ UNCHANGED <<status, config, poller, call>>

\* respawn_auto_restart: the reader's generation, and a poller of its own.
StoreRestart(p) ==
  /\ procs[p].reader = "store" /\ procs[p].recovery = "restart"
  /\ child' = procs[p].next
  /\ procs' = Ended(Attached(procs, procs[p].next, procs[p].current), p)
  /\ poller' = IF procs[p].current THEN "polling" ELSE poller
  /\ UNCHANGED <<status, config, flags, call>>

Reader(p) ==
  \/ note_stderr_signal(p) \/ Terminated(p)
  \/ TakeMtp(p) \/ TakeCtx(p) \/ TakeGpu(p)
  \/ Look(p) \/ Restarting(p) \/ Fail(p)
  \/ Respawn(p) \/ StoreBumped(p) \/ StoreCpu(p) \/ StoreRestart(p)

----------------------------------------------------------------------------
(* The health poller of the current generation.                            *)

\* /health answers -- whichever process serves the port.
Answered ==
  /\ poller = "polling" /\ Serving # {}
  /\ poller' = "ok"
  /\ UNCHANGED <<status, child, config, flags, procs, call>>

\* keep_going is false, or the attempts are used up.
GaveUp ==
  /\ poller = "polling"
  /\ poller' = "failed"
  /\ UNCHANGED <<status, child, config, flags, procs, call>>

Report ==
  /\ poller \in {"ok", "failed"}
  /\ status' = IF status # "Starting" THEN status
               ELSE IF poller = "ok" THEN "Ready" ELSE "Error"
  /\ poller' = "none"
  /\ UNCHANGED <<child, config, flags, procs, call>>

Poller == Answered \/ GaveUp \/ Report

Next ==
  \/ \E c \in Callers : Stop(c) \/ Start(c) \/ Command(c)
  \/ \E p \in Procs : Complain(p) \/ Serve(p) \/ Crash(p) \/ Reader(p)
  \/ Poller

Spec == Init /\ [][Next]_vars

\* Tasks run: a command in progress, a reader and the poller go on.  A
\* process may load, complain and crash, or not.
FairServer ==
  /\ Spec
  /\ \A c \in Callers : WF_vars(Command(c))
  /\ \A p \in Procs : WF_vars(Reader(p))
  /\ WF_vars(Poller)

----------------------------------------------------------------------------
(* Properties.                                                             *)

TypeOK ==
  /\ status \in Status
  /\ child \in Procs \cup {NoProc}
  /\ config \in Config
  /\ flags \in Flags
  /\ procs \in [Procs -> Process]
  /\ poller \in {"none", "polling", "ok", "failed"}
  /\ call \in [Callers -> [at : CallAt, next : Procs \cup {NoProc}]]

\* No process runs on without a handle: it is the child, or the task that
\* spawned it is about to store it (a dropped SidecarChild is not killed).
\* One whose kill failed has none: stop took it before it tried.
NoLeakedProcess == {p \in Running : ~procs[p].stuck} \subseteq {child} \cup InHand

\* Only a command takes the server out of Stopped: no recovery revives a
\* server the user stopped.
StopIsFinal ==
  [][status = "Stopped" /\ status' # "Stopped" => call' # call]_vars

Weaker(c, d) ==
  /\ c # d /\ c.ctx <= d.ctx /\ (c.mtp => d.mtp) /\ (c.gpu => d.gpu)

\* A process spawned to recover from a failed start asks for strictly less
\* than the one that failed, so a start is not retried for ever.
RetriesDescend ==
  [][\A p \in Procs :
       procs[p].reader = "spawn" /\ procs'[p].reader = "store"
         /\ procs[p].recovery # "restart"
       => Weaker(procs'[procs'[p].next].config, procs[p].config)]_vars

\* A spent fallback leaves its option off until the next start.
FallbackSpent ==
  /\ flags.gpu_fallback_attempted => ~config.gpu
  /\ flags.mtp_fallback_attempted => ~config.mtp

\* The last command found no way to spawn: nothing is left to move the status.
SpawnFailed == \E c \in Callers : call[c].at = "failed"

\* Every start ends: the status leaves Starting, unless the first spawn fails.
StartSettles == (status = "Starting") ~> (status # "Starting" \/ SpawnFailed)

\* A Ready server with no process behind it does not stay Ready, again unless
\* it was a spawn that failed while the last poller reported.
DeadServerNoticed ==
  (status = "Ready" /\ Running = {}) ~> (status # "Ready" \/ Running # {} \/ SpawnFailed)

=============================================================================
