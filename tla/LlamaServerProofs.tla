------------------------- MODULE LlamaServerProofs -------------------------
(***************************************************************************)
(* What holds of the supervisor however its tasks interleave: its types    *)
(* and the spent fallbacks always, a stop that lasts when no command       *)
(* overlaps the handling of a termination, and one server at a time when   *)
(* the commands come one by one as well.                                   *)
(***************************************************************************)
EXTENDS LlamaServer, TLAPS

\* LlamaServer::new.
LEMMA TypesInit == Init => TypeOK
<1> SUFFICES ASSUME Init PROVE TypeOK
  OBVIOUS
<1>1. Rungs \in 1..Rungs /\ 1 \in 1..Rungs BY ServerAssumption
<1>2. config \in Config BY <1>1 DEF Init, Config
<1>3. flags \in Flags BY DEF Init, NoFlags, Flags
<1>4. Free \in Process BY <1>1 DEF Free, Process, Config, Origins, Recoveries, ReaderAt
<1>5. procs \in [Procs -> Process] BY <1>4 DEF Init
<1>6. call \in [Callers -> [at : CallAt, next : Procs \cup {NoProc}]] BY DEF Init, CallAt
<1> QED BY <1>2, <1>3, <1>5, <1>6 DEF Init, TypeOK, Status

\* spawn_llama hands over a process of the type.
LEMMA Spawning ==
  ASSUME TypeOK, NEW o \in Origins
  PROVE  Spawned(o) \in Process
<1>1. 1 \in 1..Rungs BY ServerAssumption
<1> QED BY <1>1 DEF Spawned, TypeOK, Free, Process, Config, Origins, Recoveries, ReaderAt

\* Freeing, killing and attaching keep the type of the slots.
LEMMA EndedType ==
  ASSUME NEW ps \in [Procs -> Process], NEW p
  PROVE  Ended(ps, p) \in [Procs -> Process]
<1>1. 1 \in 1..Rungs BY ServerAssumption
<1>2. Free \in Process BY <1>1 DEF Free, Process, Config, Origins, Recoveries, ReaderAt
<1> QED BY <1>2 DEF Ended

LEMMA KilledType ==
  ASSUME NEW ps \in [Procs -> Process], NEW ended
  PROVE  Killed(ps, ended) \in [Procs -> Process]
BY DEF Killed, Process

LEMMA AttachedType ==
  ASSUME NEW ps \in [Procs -> Process], NEW q, NEW now \in BOOLEAN
  PROVE  /\ Attached(ps, q, now) \in [Procs -> Process]
         /\ Attached(Bumped(ps), q, now) \in [Procs -> Process]
<1>1. ASSUME NEW f \in [Procs -> Process] PROVE Attached(f, q, now) \in [Procs -> Process]
  <2>1. ASSUME NEW r \in Procs PROVE Attached(f, q, now)[r] \in Process
    <3>1. CASE r # q BY <3>1 DEF Attached
    <3>2. CASE r = q
      <4>1. Attached(f, q, now)[r] = [f[r] EXCEPT !.reader = "reading", !.current = now]
        BY <3>2 DEF Attached, Process
      <4> QED BY <4>1 DEF Process, ReaderAt
    <3> QED BY <3>1, <3>2
  <2> QED BY <2>1 DEF Attached
<1>2. Bumped(ps) \in [Procs -> Process] BY DEF Bumped, Process
<1> QED BY <1>1, <1>2

\* The commands.
LEMMA TypesCommand ==
  ASSUME TypeOK, NEW c \in Callers, Stop(c) \/ Start(c) \/ Command(c)
  PROVE  TypeOK'
<1> USE DEF TypeOK, Status, CallAt
<1>1. ASSUME NEW then \in {"idle", "free_port"}, stop(c, then) PROVE TypeOK'
  <2>1. procs' \in [Procs -> Process]
    <3>1. CASE procs' = Killed(procs, {child} \cap Running) BY <3>1, KilledType
    <3>2. CASE child \in Running /\ procs' = [procs EXCEPT ![child].stuck = TRUE]
      <4>1. [procs[child] EXCEPT !.stuck = TRUE] \in Process
        BY <3>2 DEF Process, Running
      <4> QED BY <3>2, <4>1 DEF Running
    <3> QED BY <1>1, <3>1, <3>2 DEF stop
  <2>2. call' \in [Callers -> [at : CallAt, next : Procs \cup {NoProc}]]
    BY <1>1 DEF stop
  <2> QED BY <1>1, <2>1, <2>2 DEF stop
<1>2. CASE FreePort(c)
  <2>1. procs' \in [Procs -> Process]
    BY <1>2, KilledType DEF FreePort
  <2> QED BY <1>2, <2>1 DEF FreePort
<1>3. CASE Reset(c)
  <2>1. config' \in Config BY <1>3 DEF Reset, Config
  <2>2. flags' \in Flags BY <1>3 DEF Reset, NoFlags, Flags
  <2> QED BY <1>3, <2>1, <2>2 DEF Reset
<1>4. CASE SayStarting(c)
  BY <1>4 DEF SayStarting
<1>5. CASE SpawnFirst(c)
  <2>1. "start" \in Origins BY DEF Origins
  <2>2. procs' \in [Procs -> Process] BY <1>5, <2>1, Spawning DEF SpawnFirst
  <2> QED BY <1>5, <2>2 DEF SpawnFirst
<1>6. CASE StoreFirst(c)
  <2>1. procs' \in [Procs -> Process]
    BY <1>6, AttachedType DEF StoreFirst
  <2> QED BY <1>6, <2>1 DEF StoreFirst
<1> QED BY <1>1, <1>2, <1>3, <1>4, <1>5, <1>6 DEF Stop, Start, Command

\* The output reader, from note_stderr_signal to the last store of a recovery.
LEMMA TypesReader ==
  ASSUME TypeOK, NEW p \in Procs, Reader(p)
  PROVE  TypeOK'
<1> USE DEF TypeOK, Status
<1>1. CASE note_stderr_signal(p)
  <2>1. PICK s \in procs[p].unread : 
          flags' = Noted(s) /\ procs' = [procs EXCEPT ![p].unread = @ \ {s}]
    BY <1>1 DEF note_stderr_signal
  <2>2. flags' \in Flags BY <2>1 DEF Noted, Flags
  <2>3. procs' \in [Procs -> Process] BY <2>1 DEF Process
  <2> QED BY <1>1, <2>2, <2>3 DEF note_stderr_signal
<1>2. CASE Terminated(p)
  <2>1. procs' \in [Procs -> Process]
    <3>1. [procs EXCEPT ![p].reader = "take_mtp"] \in [Procs -> Process]
      BY DEF Process, ReaderAt
    <3> QED BY <1>2, <3>1, EndedType DEF Terminated
  <2> QED BY <1>2, <2>1 DEF Terminated
<1>3. CASE TakeMtp(p) \/ TakeCtx(p) \/ TakeGpu(p)
  <2>1. procs' \in [Procs -> Process]
    BY <1>3 DEF TakeMtp, TakeCtx, TakeGpu, Process, ReaderAt, Recoveries
  <2>2. flags' \in Flags BY <1>3 DEF TakeMtp, TakeCtx, TakeGpu, Flags
  <2>3. config' \in Config
    <3>1. CASE config.ctx # 1 /\ config' = [config EXCEPT !.ctx = @ - 1]
      <4>1. config.ctx - 1 \in 1..Rungs
        BY <3>1, ServerAssumption DEF Config
      <4> QED BY <3>1, <4>1 DEF Config
    <3>2. CASE config' \in {config, [config EXCEPT !.mtp = FALSE], [config EXCEPT !.gpu = FALSE]}
      BY <3>2 DEF Config
    <3> QED BY <1>3, <3>1, <3>2 DEF TakeMtp, TakeCtx, TakeGpu, Floor
  <2>4. child' \in {child, NoProc} /\ UNCHANGED <<status, poller, call>>
    BY <1>3 DEF TakeMtp, TakeCtx, TakeGpu
  <2> QED BY <2>1, <2>2, <2>3, <2>4
<1>4. CASE Look(p) \/ Restarting(p)
  <2>1. procs' \in [Procs -> Process]
    BY <1>4 DEF Look, Restarting, Process, ReaderAt, Recoveries
  <2> QED BY <1>4, <2>1 DEF Look, Restarting
<1>5. CASE Fail(p)
  <2>1. procs' \in [Procs -> Process] BY <1>5, EndedType DEF Fail
  <2> QED BY <1>5, <2>1 DEF Fail
<1>6. CASE Respawn(p)
  <2>1. procs[p].recovery \in Origins BY DEF Process, Origins
  <2>2. procs' \in [Procs -> Process]
    <3>1. CASE procs' = Ended(procs, p) BY <3>1, EndedType
    <3>2. ASSUME NEW q \in Procs, 
                 procs' = [procs EXCEPT ![q] = Spawned(procs[p].recovery),
                                    ![p].reader = "store", ![p].next = q]
          PROVE  procs' \in [Procs -> Process]
      <4>1. Spawned(procs[p].recovery) \in Process BY <2>1, Spawning
      <4> DEFINE f == [procs EXCEPT ![q] = Spawned(procs[p].recovery)]
      <4>2. f \in [Procs -> Process] BY <4>1
      <4>3. procs' = [f EXCEPT ![p].reader = "store", ![p].next = q] BY <3>2
      <4> HIDE DEF f
      <4>4. f[p] \in Process BY <4>2
      <4>5. [f[p] EXCEPT !.reader = "store", !.next = q] \in Process
        BY <4>4 DEF Process, ReaderAt
      <4>6. procs' = [f EXCEPT ![p] = [f[p] EXCEPT !.reader = "store", !.next = q]]
        BY <4>2, <4>3
      <4> QED BY <4>2, <4>5, <4>6
    <3> QED BY <1>6, <3>1, <3>2 DEF Respawn
  <2> QED BY <1>6, <2>2 DEF Respawn
<1>7. CASE StoreBumped(p) \/ StoreRestart(p) \/ StoreCpu(p)
  <2>1. procs[p].current \in BOOLEAN /\ procs[p].next \in Procs \cup {NoProc} 
    BY DEF Process
  <2>2. procs' \in [Procs -> Process]
    <3>1. \A now \in BOOLEAN :
            /\ Ended(Attached(procs, procs[p].next, now), p) \in [Procs -> Process]
            /\ Ended(Attached(Bumped(procs), procs[p].next, now), p) \in [Procs -> Process]
      BY EndedType, AttachedType
    <3> QED BY <1>7, <2>1, <3>1 DEF StoreBumped, StoreRestart, StoreCpu
  <2>3. flags' \in Flags BY <1>7 DEF StoreBumped, StoreRestart, StoreCpu, Flags
  <2> QED BY <1>7, <2>1, <2>2, <2>3 DEF StoreBumped, StoreRestart, StoreCpu
<1> QED BY <1>1, <1>2, <1>3, <1>4, <1>5, <1>6, <1>7 DEF Reader

\* Every step of the supervisor.
LEMMA TypesStep == TypeOK /\ [Next]_vars => TypeOK'
<1> SUFFICES ASSUME TypeOK, [Next]_vars PROVE TypeOK'
  OBVIOUS
<1>1. ASSUME NEW p \in Procs, Complain(p) \/ Serve(p) \/ Crash(p) PROVE TypeOK'
  <2>1. procs' \in [Procs -> Process]
    <3>1. CASE Complain(p)
      <4>1. PICK s \in Lines : procs' = [procs EXCEPT ![p].unread = @ \cup {s}]
        BY <3>1 DEF Complain
      <4> QED BY <4>1, ServerAssumption DEF TypeOK, Process
    <3>2. CASE Serve(p) BY <3>2 DEF Serve, TypeOK, Process
    <3>3. CASE Crash(p) BY <3>3, KilledType DEF Crash, TypeOK
    <3> QED BY <1>1, <3>1, <3>2, <3>3
  <2> QED BY <1>1, <2>1 DEF Complain, Serve, Crash, TypeOK
<1>2. CASE Poller
  BY <1>2 DEF Poller, Answered, GaveUp, Report, TypeOK, Status
<1>3. CASE UNCHANGED vars
  BY <1>3 DEF vars, TypeOK
<1> QED BY <1>1, <1>2, <1>3, TypesCommand, TypesReader DEF Next

\* Every variable keeps its type, however commands, readers and the poller
\* interleave: a recovery never stores a handle that is no process and never
\* asks for a context size below the ladder.
THEOREM SupervisorTypes == Spec => []TypeOK
<1> QED BY TypesInit, TypesStep, PTL DEF Spec

----------------------------------------------------------------------------
(* Spent fallbacks.                                                        *)

\* The configuration and the flags keep their type and a spent fallback
\* keeps its option off: the part of the state the recoveries decide by.
Spending == config \in Config /\ flags \in Flags /\ FallbackSpent

\* LlamaServer::new: nothing is spent.
LEMMA SpendingInit == Init => Spending
<1> SUFFICES ASSUME Init PROVE Spending
  OBVIOUS
<1>1. Rungs \in 1..Rungs BY ServerAssumption
<1>2. config \in Config BY <1>1 DEF Init, Config
<1>3. flags \in Flags BY DEF Init, NoFlags, Flags
<1>4. FallbackSpent BY DEF Init, NoFlags, FallbackSpent
<1> QED BY <1>2, <1>3, <1>4 DEF Spending

\* No command turns an option back on without clearing its flag.
LEMMA SpendingCommand ==
  ASSUME Spending, NEW c \in Callers, Stop(c) \/ Start(c) \/ Command(c)
  PROVE  Spending'
<1>1. CASE Stop(c) \/ Start(c)
  BY <1>1 DEF Stop, Start, stop, Spending, FallbackSpent
<1>2. CASE Reset(c)
  <2>1. flags' \in Flags BY <1>2 DEF Reset, NoFlags, Flags
  <2>2. config' \in Config BY <1>2 DEF Reset, Config
  <2>3. FallbackSpent' BY <1>2 DEF Reset, NoFlags, FallbackSpent
  <2> QED BY <2>1, <2>2, <2>3 DEF Spending
<1>3. CASE FreePort(c) \/ SayStarting(c) \/ SpawnFirst(c) \/ StoreFirst(c)
  BY <1>3 DEF FreePort, SayStarting, SpawnFirst, StoreFirst, Spending, FallbackSpent
<1> QED BY <1>1, <1>2, <1>3 DEF Command

\* note_stderr_signal arms a fallback and spends none.
LEMMA SpendingNoted ==
  ASSUME Spending, NEW p \in Procs, note_stderr_signal(p)
  PROVE  Spending'
<1>1. PICK s \in procs[p].unread : flags' = Noted(s)
  BY DEF note_stderr_signal
<1>2. config' = config BY DEF note_stderr_signal
<1>3. flags' \in Flags
   /\ flags'.gpu_fallback_attempted = flags.gpu_fallback_attempted
   /\ flags'.mtp_fallback_attempted = flags.mtp_fallback_attempted
  BY <1>1 DEF Noted, Spending, Flags
<1> QED BY <1>2, <1>3 DEF Spending, FallbackSpent

\* Each take_* spends its fallback and turns its option off in one lock.
LEMMA SpendingTaken ==
  ASSUME Spending, NEW p \in Procs, TakeMtp(p) \/ TakeCtx(p) \/ TakeGpu(p)
  PROVE  Spending'
<1>1. CASE TakeMtp(p)
  BY <1>1 DEF TakeMtp, Spending, FallbackSpent, Config, Flags
<1>2. CASE TakeCtx(p)
  <2>1. flags' \in Flags BY <1>2 DEF TakeCtx, Spending, Flags
  <2>2. config' \in Config
    <3>1. CASE UNCHANGED config BY <3>1 DEF Spending
    <3>2. CASE config.ctx # 1 /\ config' = [config EXCEPT !.ctx = @ - 1]
      <4>1. config.ctx - 1 \in 1..Rungs
        BY <3>2, ServerAssumption DEF Spending, Config
      <4> QED BY <3>2, <4>1 DEF Spending, Config
    <3> QED BY <1>2, <3>1, <3>2 DEF TakeCtx, Floor
  <2>3. FallbackSpent'
    BY <1>2 DEF TakeCtx, Spending, FallbackSpent, Config, Flags
  <2> QED BY <2>1, <2>2, <2>3 DEF Spending
<1>3. CASE TakeGpu(p)
  BY <1>3 DEF TakeGpu, Spending, FallbackSpent, Config, Flags
<1> QED BY <1>1, <1>2, <1>3

\* handle_termination as a whole.
LEMMA SpendingReader ==
  ASSUME Spending, NEW p \in Procs, Reader(p)
  PROVE  Spending'
<1>1. CASE StoreCpu(p)
  BY <1>1 DEF StoreCpu, Spending, FallbackSpent, Flags
<1>2. CASE \/ Terminated(p) \/ Look(p) \/ Restarting(p) \/ Fail(p)
           \/ Respawn(p) \/ StoreBumped(p) \/ StoreRestart(p)
  BY <1>2 DEF Terminated, Look, Restarting, Fail, Respawn, StoreBumped,
              StoreRestart, Spending, FallbackSpent
<1> QED BY <1>1, <1>2, SpendingNoted, SpendingTaken DEF Reader

\* Every step of the supervisor.
LEMMA SpendingStep == Spending /\ [Next]_vars => Spending'
<1> SUFFICES ASSUME Spending, [Next]_vars PROVE Spending'
  OBVIOUS
<1>1. ASSUME NEW p \in Procs, Complain(p) \/ Serve(p) \/ Crash(p) PROVE Spending'
  BY <1>1 DEF Complain, Serve, Crash, Spending, FallbackSpent
<1>2. CASE Poller
  BY <1>2 DEF Poller, Answered, GaveUp, Report, Spending, FallbackSpent
<1>3. CASE UNCHANGED vars
  BY <1>3 DEF vars, Spending, FallbackSpent
<1> QED BY <1>1, <1>2, <1>3, SpendingCommand, SpendingReader DEF Next

\* A fallback that was used leaves its option off until the next start,
\* whatever commands overlap the recovery: no start is retried twice with
\* the same fallback.
THEOREM FallbacksStaySpent == Spec => []FallbackSpent
<1>1. Spending => FallbackSpent BY DEF Spending
<1> QED BY <1>1, SpendingInit, SpendingStep, PTL DEF Spec

----------------------------------------------------------------------------
(* A stop lasts.                                                           *)

\* The steps of handle_termination.
Handling == {"take_mtp", "take_ctx", "take_gpu", "look", "restarting", "spawn",
             "store", "fail"}

\* A termination is handled of a process that has exited, and a recovery is
\* under way only while the server is not Stopped.
Terminating ==
  \A p \in Procs :
    /\ procs[p].reader \in Handling => procs[p].phase = "exited"
    /\ procs[p].reader \in {"restarting", "spawn", "store"} => status # "Stopped"

\* What attaching a reader does to each slot, in a new generation or not.
LEMMA AttachedAt ==
  ASSUME NEW f \in [Procs -> Process], NEW ps, ps \in {f, Bumped(f)},
         NEW q, NEW now \in BOOLEAN, NEW r \in Procs
  PROVE  LET g == Attached(ps, q, now)[r]
         IN  /\ g.reader = (IF r = q THEN "reading" ELSE f[r].reader)
             /\ g.phase = f[r].phase /\ g.config = f[r].config
             /\ g.recovery = f[r].recovery /\ g.next = f[r].next
             /\ g.stuck = f[r].stuck
<1>1. Bumped(f) \in [Procs -> Process] BY DEF Bumped, Process
<1>2. /\ ps[r].reader = f[r].reader /\ ps[r].phase = f[r].phase
      /\ ps[r].config = f[r].config /\ ps[r].recovery = f[r].recovery
      /\ ps[r].next = f[r].next /\ ps[r].stuck = f[r].stuck
  BY DEF Bumped, Process
<1>3. ps \in [Procs -> Process] BY <1>1
<1>4. Attached(ps, q, now)[r] =
        IF r = q THEN [ps[r] EXCEPT !.reader = "reading", !.current = now] ELSE ps[r]
  BY <1>3 DEF Attached, Process
<1>5. ps[r] \in Process BY <1>3
<1>6. CASE r = q BY <1>2, <1>4, <1>5, <1>6 DEF Process
<1>7. CASE r # q BY <1>2, <1>4, <1>7
<1> QED BY <1>6, <1>7

\* The same for a command that stores what it spawned.
LEMMA FirstStoredAt ==
  ASSUME TypeOK, NEW c \in Callers, StoreFirst(c), NEW r \in Procs
  PROVE  /\ procs'[r].reader = (IF r = call[c].next THEN "reading" ELSE procs[r].reader)
         /\ procs'[r].phase = procs[r].phase /\ procs'[r].config = procs[r].config
         /\ procs'[r].recovery = procs[r].recovery /\ procs'[r].next = procs[r].next
         /\ procs'[r].stuck = procs[r].stuck
<1>1. procs \in [Procs -> Process] BY DEF TypeOK
<1>2. PICK ps \in {procs, Bumped(procs)}, now \in BOOLEAN :
        procs' = Attached(ps, call[c].next, now)
  BY DEF StoreFirst
<1> QED BY <1>1, <1>2, AttachedAt

\* The same for a reader that stores what it spawned: its own slot is free.
LEMMA StoredAt ==
  ASSUME TypeOK, NEW p \in Procs, NEW r \in Procs, r # p,
         StoreBumped(p) \/ StoreRestart(p) \/ StoreCpu(p)
  PROVE  /\ procs'[r].reader = (IF r = procs[p].next THEN "reading" ELSE procs[r].reader)
         /\ procs'[r].phase = procs[r].phase /\ procs'[r].config = procs[r].config
         /\ procs'[r].recovery = procs[r].recovery /\ procs'[r].next = procs[r].next
         /\ procs'[r].stuck = procs[r].stuck
<1>1. procs \in [Procs -> Process] /\ procs[p].current \in BOOLEAN
  BY DEF TypeOK, Process
<1>2. \E ps \in {procs, Bumped(procs)}, now \in BOOLEAN :
        procs' = Ended(Attached(ps, procs[p].next, now), p)
  BY <1>1 DEF StoreBumped, StoreRestart, StoreCpu
<1>3. PICK ps \in {procs, Bumped(procs)}, now \in BOOLEAN :
        procs' = Ended(Attached(ps, procs[p].next, now), p)
  BY <1>2
<1>4. procs'[r] = Attached(ps, procs[p].next, now)[r]
  BY <1>3 DEF Ended, Attached, Bumped, TypeOK
<1> QED BY <1>1, <1>4, AttachedAt

\* What a recovery's spawn does to its own slot and to the one it takes.
LEMMA RespawnedAt ==
  ASSUME TypeOK, NEW p \in Procs, NEW q \in Procs, q # p,
         procs' = [procs EXCEPT ![q] = Spawned(procs[p].recovery),
                                ![p].reader = "store", ![p].next = q]
  PROVE  /\ \A r \in Procs \ {p, q} : procs'[r] = procs[r]
         /\ procs'[q] = Spawned(procs[p].recovery)
         /\ procs'[p].reader = "store" /\ procs'[p].next = q
         /\ procs'[p].phase = procs[p].phase /\ procs'[p].config = procs[p].config
         /\ procs'[p].recovery = procs[p].recovery /\ procs'[p].stuck = procs[p].stuck
<1>1. procs \in [Procs -> Process] /\ procs[p] \in Process BY DEF TypeOK
<1>2. procs'[p] = [procs[p] EXCEPT !.reader = "store", !.next = q]
  BY <1>1
<1>3. procs'[q] = Spawned(procs[p].recovery)
   /\ \A r \in Procs \ {p, q} : procs'[r] = procs[r]
  BY <1>1
<1> QED BY <1>1, <1>2, <1>3 DEF Process

\* Nothing runs at first.
LEMMA TerminatingInit == Init => Terminating
BY DEF Init, Free, Terminating, Handling

\* A command begins only when no termination is being handled.
LEMMA TerminatingCommand ==
  ASSUME ~Overlap, TypeOK, Terminating, NEW c \in Callers,
         Stop(c) \/ Start(c) \/ Command(c)
  PROVE  Terminating'
<1> USE DEF TypeOK, Terminating, Handling
<1>1. ASSUME NEW then \in {"idle", "free_port"}, stop(c, then) PROVE Terminating'
  <2>1. \A r \in Procs : procs[r].reader \notin Handling
    BY <1>1 DEF stop, Settled
  <2>2. \A r \in Procs : procs'[r].reader = procs[r].reader
    BY <1>1 DEF stop, Killed, Process
  <2> QED BY <2>1, <2>2
<1>2. CASE FreePort(c)
  <2>1. \A r \in Procs : procs'[r].reader = procs[r].reader
                          /\ procs[r].reader \notin Handling
    BY <1>2 DEF FreePort, Killed, Process, Settled
  <2> QED BY <2>1
<1>3. CASE Reset(c) \/ SayStarting(c)
  BY <1>3 DEF Reset, SayStarting
<1>5. CASE SpawnFirst(c)
  <2>1. ASSUME NEW r \in Procs PROVE UNCHANGED procs[r] \/ procs'[r].reader = "none"
    BY <1>5 DEF SpawnFirst, Spawned, Free
  <2> QED BY <1>5, <2>1 DEF SpawnFirst
<1>6. CASE StoreFirst(c)
  <2>1. ASSUME NEW r \in Procs 
        PROVE  /\ procs'[r].reader = "reading" \/ procs'[r].reader = procs[r].reader
               /\ procs'[r].phase = procs[r].phase
    BY <1>6, FirstStoredAt
  <2> QED BY <1>6, <2>1 DEF StoreFirst
<1> QED BY <1>1, <1>2, <1>3, <1>5, <1>6 DEF Stop, Start, Command

\* handle_termination: a restart follows only a Ready server, a fallback only a
\* Starting one.
LEMMA TerminatingReader ==
  ASSUME TypeOK, Terminating, NEW p \in Procs, Reader(p)
  PROVE  Terminating'
<1> USE DEF TypeOK, Terminating, Handling
<1>1. CASE note_stderr_signal(p)
  <2>1. ASSUME NEW r \in Procs 
        PROVE  procs'[r].phase = procs[r].phase /\ procs'[r].reader = procs[r].reader
    BY <1>1 DEF note_stderr_signal, Process
  <2> QED BY <1>1, <2>1 DEF note_stderr_signal
<1>2. CASE Terminated(p) \/ Fail(p)
  <2>1. ASSUME NEW r \in Procs 
        PROVE  \/ UNCHANGED procs[r] \/ procs'[r].reader = "none"
               \/ r = p /\ procs'[r].reader = "take_mtp" /\ procs'[r].phase = "exited"
    BY <1>2 DEF Terminated, Fail, Ended, Free, Process
  <2>2. status' # "Stopped" \/ status' = status
    BY <1>2 DEF Terminated, Fail
  <2> QED BY <2>1, <2>2
<1>3. CASE TakeMtp(p) \/ TakeCtx(p) \/ TakeGpu(p)
  <2>1. UNCHANGED status BY <1>3 DEF TakeMtp, TakeCtx, TakeGpu
  <2>2. ASSUME NEW r \in Procs 
        PROVE  \/ UNCHANGED procs[r]
               \/ /\ r = p /\ procs'[r].phase = procs[r].phase
                  /\ procs'[r].reader = "spawn" => status = "Starting"
                  /\ procs'[r].reader \in {"spawn", "take_ctx", "take_gpu", "look"}
    BY <1>3 DEF TakeMtp, TakeCtx, TakeGpu, Process, take_mtp_fallback
  <2>3. procs[p].phase = "exited" BY <1>3 DEF TakeMtp, TakeCtx, TakeGpu
  <2> QED BY <2>1, <2>2, <2>3
<1>4. CASE Look(p) \/ Restarting(p)
  <2>1. status' # "Stopped" \/ status' = status
    BY <1>4 DEF Look, Restarting
  <2>2. ASSUME NEW r \in Procs 
        PROVE  \/ UNCHANGED procs[r]
               \/ /\ r = p /\ procs'[r].phase = procs[r].phase
                  /\ procs'[r].reader = "fail" \/ status' # "Stopped"
    BY <1>4 DEF Look, Restarting, Process
  <2>3. procs[p].phase = "exited" BY <1>4 DEF Look, Restarting
  <2> QED BY <2>1, <2>2, <2>3
<1>6. CASE Respawn(p)
  <2>1. procs[p].phase = "exited" /\ status # "Stopped" /\ status' # "Stopped" 
    BY <1>6 DEF Respawn
  <2>2. ASSUME NEW r \in Procs 
        PROVE  \/ UNCHANGED procs[r] \/ procs'[r].reader = "none"
               \/ r = p /\ procs'[r].phase = "exited"
    <3>1. CASE procs' = Ended(procs, p) BY <3>1 DEF Ended, Free
    <3>2. ASSUME NEW q \in Procs, Vacant(q),
                 procs' = [procs EXCEPT ![q] = Spawned(procs[p].recovery),
                                        ![p].reader = "store", ![p].next = q]
          PROVE  \/ UNCHANGED procs[r] \/ procs'[r].reader = "none"
                 \/ r = p /\ procs'[r].phase = "exited"
      <4>1. q # p BY <2>1, <3>2 DEF Vacant
      <4> QED BY <2>1, <3>2, <4>1, RespawnedAt DEF Spawned, Free
    <3> QED BY <1>6, <3>1, <3>2 DEF Respawn
  <2> QED BY <2>1, <2>2
<1>7. CASE StoreBumped(p) \/ StoreRestart(p) \/ StoreCpu(p)
  <2>1. UNCHANGED status BY <1>7 DEF StoreBumped, StoreRestart, StoreCpu
  <2>2. ASSUME NEW r \in Procs 
        PROVE  \/ procs'[r].phase = procs[r].phase /\ procs'[r].reader = procs[r].reader
               \/ procs'[r].reader \in {"none", "reading"}
    <3>1. CASE r = p
      BY <1>7, <3>1 DEF StoreBumped, StoreRestart, StoreCpu, Ended, Attached, Bumped, Free
    <3>2. CASE r # p BY <1>7, <3>2, StoredAt
    <3> QED BY <3>1, <3>2
  <2> QED BY <2>1, <2>2
<1> QED BY <1>1, <1>2, <1>3, <1>4, <1>6, <1>7 DEF Reader

\* Every step of the supervisor.
LEMMA TerminatingStep ==
  ASSUME ~Overlap
  PROVE  TypeOK /\ Terminating /\ [Next]_vars => Terminating'
<1> SUFFICES ASSUME TypeOK, Terminating, [Next]_vars PROVE Terminating'
  OBVIOUS
<1>1. ASSUME NEW p \in Procs, Complain(p) \/ Serve(p) \/ Crash(p) PROVE Terminating'
  <2>1. ASSUME NEW r \in Procs 
        PROVE  /\ procs'[r].reader = procs[r].reader
               /\ procs'[r].phase = procs[r].phase \/ procs[r].phase # "exited" 
    BY <1>1 DEF Complain, Serve, Crash, Killed, Running, TypeOK, Process
  <2>2. UNCHANGED status BY <1>1 DEF Complain, Serve, Crash
  <2>3. ASSUME NEW r \in Procs, procs[r].phase = "exited" PROVE procs'[r].phase = "exited"
    BY <1>1, <2>1, <2>3
  <2> QED BY <2>1, <2>2, <2>3 DEF Terminating
<1>2. CASE Poller
  BY <1>2 DEF Poller, Answered, GaveUp, Report, Terminating
<1>3. CASE UNCHANGED vars
  BY <1>3 DEF vars, Terminating
<1> QED BY <1>1, <1>2, <1>3, TerminatingCommand, TerminatingReader DEF Next

\* When no command overlaps the handling of a termination, only a command takes
\* the server out of Stopped: no recovery revives what the user stopped.  Any
\* number of commands may run at once.
THEOREM StoppedByUserStays == ASSUME ~Overlap PROVE Spec => StopIsFinal
<1> DEFINE Revived == status = "Stopped" /\ status' # "Stopped" => call' # call
<1>1. ASSUME TypeOK, Terminating, [Next]_vars PROVE [Revived]_vars
  <2> SUFFICES ASSUME status = "Stopped", status' # "Stopped" PROVE call' # call
    OBVIOUS
  <2>1. ASSUME NEW c \in Callers, Stop(c) \/ Start(c) \/ Command(c) PROVE call' # call
    <3>1. FreePort(c) \/ SayStarting(c)
      BY <2>1 DEF Stop, Start, stop, Command, Reset, SpawnFirst, StoreFirst
    <3>2. CASE FreePort(c)
      <4>1. call[c].at = "free_port" /\ call' = [call EXCEPT ![c].at = "idle"]
        BY <3>2 DEF FreePort
      <4>2. call'[c].at = "idle" BY <1>1, <2>1, <4>1 DEF TypeOK
      <4> QED BY <4>1, <4>2
    <3>3. CASE SayStarting(c)
      <4>1. call[c].at = "starting" /\ call'[c].at = "spawn"
        BY <1>1, <2>1, <3>3 DEF SayStarting, TypeOK
      <4> QED BY <4>1
    <3> QED BY <3>1, <3>2, <3>3
  <2>2. ASSUME NEW p \in Procs, Complain(p) \/ Serve(p) \/ Crash(p) \/ Reader(p) PROVE FALSE
    <3>1. Restarting(p) \/ Fail(p) \/ Respawn(p)
      BY <2>2 DEF Complain, Serve, Crash, Reader, note_stderr_signal, Terminated,
                  TakeMtp, TakeCtx, TakeGpu, Look, StoreBumped, StoreRestart, StoreCpu
    <3>2. ~Fail(p) BY DEF Fail
    <3>3. procs[p].reader \in {"restarting", "spawn"}
      BY <3>1, <3>2 DEF Restarting, Respawn
    <3> QED BY <1>1, <2>2, <3>3 DEF Terminating
  <2>3. ~Poller BY DEF Poller, Answered, GaveUp, Report
  <2> QED BY <1>1, <2>1, <2>2, <2>3 DEF Next, vars
<1> QED BY <1>1, TypesInit, TypesStep, TerminatingInit, TerminatingStep, PTL DEF Spec, StopIsFinal

----------------------------------------------------------------------------
(* One server at a time.                                                   *)

\* Nobody uses a slot, and the slots of S are the ones in use.
Gone(p) == procs[p].phase = "free" /\ procs[p].reader = "none"
Only(S) == \A p \in Procs : IF p \in S THEN procs[p].phase # "free" ELSE Gone(p)

\* One process with a reader; a process whose reader is about to store the one
\* that replaces it; a process a command is about to store.
Alone(p) == Only({p}) /\ procs[p].reader \notin {"none", "store"}
Handover(p, q) ==
  /\ Only({p, q}) /\ p # q /\ procs[q].reader = "none"
  /\ procs[p].reader = "store" /\ procs[p].next = q
Launching(c, q) ==
  /\ Only({q}) /\ procs[q].reader = "none"
  /\ call[c].at = "store" /\ call[c].next = q

\* There is one server at a time, or one and its replacement.
Lineage ==
  \/ Only({})
  \/ \E p \in Procs : Alone(p)
  \/ \E p, q \in Procs : Handover(p, q)
  \/ \E c \in Callers, q \in Procs : Launching(c, q)

\* A command past its stop finds nothing running, and past its port nothing at
\* all but what it spawned itself.
CommandAlone ==
  \A c \in Callers :
    /\ call[c].at = "free_port" =>
         status = "Stopped" /\ child = NoProc /\ Running = {}
    /\ call[c].at \in {"reset", "starting", "spawn", "failed"} => Only({})
    /\ call[c].at = "store" => call[c].next \in Procs /\ Launching(c, call[c].next)

\* What runs, has a reader and can be killed is the child.
ChildKnown ==
  \A p \in Running : procs[p].reader # "none" /\ ~procs[p].stuck => child = p

\* A process runs with the configuration in force, until a recovery has lowered
\* that configuration below it.
InForce ==
  \A p \in Procs :
    /\ procs[p].phase # "free"
         /\ procs[p].reader \in {"none", "reading", "take_mtp", "take_ctx", "take_gpu"}
         => procs[p].config = config
    /\ procs[p].reader = "spawn" /\ procs[p].recovery # "restart"
         => Weaker(config, procs[p].config)

OneServer == Lineage /\ CommandAlone /\ ChildKnown /\ InForce

\* One command at a time, and none while a termination is being handled.
OneCommand == ~Overlap /\ \A c, d \in Callers : c = d

\* LlamaServer::new.
LEMMA OneServerInit == Init => OneServer
<1> SUFFICES ASSUME Init PROVE OneServer
  OBVIOUS
<1>1. \A p \in Procs : procs[p].phase = "free" /\ procs[p].reader = "none"
  BY DEF Init, Free
<1>2. Lineage BY <1>1 DEF Lineage, Only, Gone
<1>3. CommandAlone BY DEF Init, CommandAlone
<1>4. ChildKnown BY <1>1 DEF ChildKnown, Running
<1>5. InForce BY <1>1 DEF InForce
<1> QED BY <1>2, <1>3, <1>4, <1>5 DEF OneServer

\* Who is there, told from one reader.
LEMMA WhoIsThere ==
  ASSUME OneServer, NEW p \in Procs
  PROVE  /\ procs[p].reader \notin {"none", "store"} => Alone(p)
         /\ procs[p].reader = "store" =>
              procs[p].next \in Procs /\ Handover(p, procs[p].next)
BY DEF OneServer, Lineage, Only, Gone, Alone, Handover, Launching

\* While a reader has something to handle, no command is past its port.
LEMMA CommandsWait ==
  ASSUME TypeOK, OneServer, NEW p \in Procs,
         procs[p].reader # "none"
  PROVE  \A c \in Callers : call[c].at \in {"idle", "free_port"}
BY DEF OneServer, CommandAlone, Only, Gone, Launching, TypeOK, CallAt

\* A step that moves nobody on.
LEMMA NobodyMoves ==
  ASSUME OneServer, UNCHANGED <<child, config, call>>,
         status = "Stopped" => status' = "Stopped",
         \A r \in Procs :
           /\ procs'[r].reader = procs[r].reader /\ procs'[r].next = procs[r].next
           /\ procs'[r].config = procs[r].config
           /\ procs'[r].recovery = procs[r].recovery
           /\ procs'[r].stuck = procs[r].stuck
           /\ procs'[r].phase = "free" <=> procs[r].phase = "free"
           /\ r \in Running' => r \in Running
  PROVE  OneServer'
<1>1. Lineage'
  BY DEF OneServer, Lineage, Only, Gone, Alone, Handover, Launching
<1>2. Running' \subseteq Running BY DEF Running
<1>3. CommandAlone'
  BY <1>2 DEF OneServer, CommandAlone, Only, Gone, Launching
<1>4. ChildKnown' BY <1>2 DEF OneServer, ChildKnown, Running
<1>5. InForce' BY DEF OneServer, InForce, Weaker
<1> QED BY <1>1, <1>3, <1>4, <1>5 DEF OneServer

\* The one reader goes on, and nothing else.
LEMMA ReaderMoves ==
  ASSUME TypeOK, OneServer, NEW p \in Procs,
         procs[p].reader \notin {"none", "store"}, UNCHANGED call,
         status = "Stopped" => status' = "Stopped", child' \in {child, NoProc},
         \A r \in Procs \ {p} : procs'[r] = procs[r],
         procs'[p].phase = "exited", procs'[p].reader \notin {"none", "store"},
         procs'[p].reader \in {"reading", "take_mtp", "take_ctx", "take_gpu"}
           => procs'[p].config = config',
         procs'[p].reader = "spawn" /\ procs'[p].recovery # "restart"
           => Weaker(config', procs'[p].config)
  PROVE  OneServer'
<1>1. Alone(p) BY WhoIsThere
<1>2. Alone(p)' BY <1>1 DEF Alone, Only, Gone
<1>3. Lineage' BY <1>2 DEF Lineage
<1>4. Running' = {} BY <1>2 DEF Running, Alone, Only, Gone
<1>5. \A c \in Callers : call[c].at \in {"idle", "free_port"} BY CommandsWait
<1>6. CommandAlone' BY <1>4, <1>5 DEF OneServer, CommandAlone
<1>7. ChildKnown' BY <1>4 DEF ChildKnown
<1>8. InForce' BY <1>2 DEF InForce, Alone, Only, Gone
<1> QED BY <1>3, <1>6, <1>7, <1>8 DEF OneServer

\* The one reader returns, and its slot is free.
LEMMA ReaderReturns ==
  ASSUME TypeOK, OneServer, NEW p \in Procs,
         procs[p].reader \notin {"none", "store"}, UNCHANGED <<child, call>>,
         status = "Stopped" => status' = "Stopped", procs' = Ended(procs, p)
  PROVE  OneServer'
<1>1. Alone(p) BY WhoIsThere
<1>2. \A r \in Procs : Gone(r)' BY <1>1 DEF Alone, Only, Gone, Ended, Free, TypeOK
<1>3. Lineage' BY <1>2 DEF Lineage, Only
<1>4. Running' = {} BY <1>2 DEF Running, Gone
<1>5. \A c \in Callers : call[c].at \in {"idle", "free_port"} BY CommandsWait
<1>6. CommandAlone' BY <1>4, <1>5 DEF OneServer, CommandAlone
<1>7. ChildKnown' BY <1>4 DEF ChildKnown
<1>8. InForce' BY <1>2 DEF InForce, Gone
<1> QED BY <1>3, <1>6, <1>7, <1>8 DEF OneServer

\* What was spawned is stored: from now on it is the one process there is.
LEMMA HandleStored ==
  ASSUME OneServer, NEW q \in Procs, child' = q, UNCHANGED config,
         \A r \in Procs \ {q} : Gone(r)',
         procs'[q].reader = "reading", procs[q].reader = "none",
         procs'[q].config = procs[q].config,
         procs'[q].phase # "free", procs[q].phase # "free",
         \A c \in Callers : call'[c].at = "idle"
  PROVE  OneServer'
<1>1. Alone(q)' BY DEF Alone, Only
<1>2. Lineage' BY <1>1 DEF Lineage
<1>3. CommandAlone' BY DEF CommandAlone
<1>4. ChildKnown' BY DEF ChildKnown, Running, Gone
<1>5. InForce' BY DEF OneServer, InForce, Gone
<1> QED BY <1>2, <1>3, <1>4, <1>5 DEF OneServer

\* stop() finds at most the child running, and leaves nothing running or a
\* process it could not kill.
LEMMA OneServerStop ==
  ASSUME OneCommand, TypeOK, Terminating, OneServer, NEW c \in Callers,
         Stop(c) \/ Start(c)
  PROVE  OneServer'
<1>1. PICK then \in {"idle", "free_port"} : stop(c, then)
  BY DEF Stop, Start
<1>2. Settled /\ call[c].at \in {"idle", "failed"} BY <1>1 DEF stop, OneCommand
<1>3. \A r \in Procs : procs[r].phase # "exited" /\ ~procs[r].stuck
  BY <1>2 DEF Settled
<1>4. \A r \in Procs : procs[r].reader \in {"none", "reading"}
  BY <1>3 DEF Terminating, Handling, TypeOK, Process, ReaderAt
<1>5. Running \subseteq {child}
  <2> SUFFICES ASSUME NEW r \in Running, r # child PROVE FALSE
    OBVIOUS
  <2>1. procs[r].reader = "none" BY <1>3 DEF OneServer, ChildKnown, Running
  <2>2. ~Only({}) BY DEF Only, Gone, Running
  <2>3. \A q \in Procs : ~Alone(q) BY <2>1 DEF Alone, Only, Gone, Running
  <2>4. \A p, q \in Procs : ~Handover(p, q) BY <1>4 DEF Handover
  <2>5. \A d \in Callers, q \in Procs : ~Launching(d, q)
    BY <1>2 DEF Launching, OneCommand
  <2> QED BY <2>2, <2>3, <2>4, <2>5 DEF OneServer, Lineage
<1>6. child' = NoProc /\ UNCHANGED config BY <1>1 DEF stop
<1>7. \A r \in Procs :
        /\ procs'[r].reader = procs[r].reader /\ procs'[r].next = procs[r].next
        /\ procs'[r].config = procs[r].config
        /\ procs'[r].recovery = procs[r].recovery
        /\ procs'[r].phase = "free" <=> procs[r].phase = "free"
  <2>1. CASE procs' = Killed(procs, {child} \cap Running)
    BY <2>1 DEF Killed, Running, TypeOK, Process
  <2>2. CASE child \in Running /\ procs' = [procs EXCEPT ![child].stuck = TRUE]
    BY <2>2 DEF TypeOK, Process
  <2> QED BY <1>1, <2>1, <2>2 DEF stop
<1>8. \/ Running' = {} /\ call' = [call EXCEPT ![c].at = then] /\ status' = "Stopped"
      \/ UNCHANGED <<status, call>> /\ \A r \in Running' : procs'[r].stuck
  <2>1. CASE procs' = Killed(procs, {child} \cap Running)
             /\ call' = [call EXCEPT ![c].at = then] /\ status' = "Stopped"
    BY <1>5, <2>1 DEF Killed, Running, TypeOK, Process
  <2>2. CASE /\ child \in Running /\ procs' = [procs EXCEPT ![child].stuck = TRUE]
             /\ UNCHANGED <<status, call>>
    BY <1>5, <2>2 DEF Running, TypeOK, Process
  <2> QED BY <1>1, <2>1, <2>2 DEF stop
<1>9. call[c].at = "failed" => Only({})'
  BY <1>2, <1>7 DEF OneServer, CommandAlone, Only, Gone
<1>10. Only({}) \/ \E p \in Procs : Alone(p)
  BY <1>2, <1>4 DEF OneServer, Lineage, Handover, Launching, OneCommand
<1>11. Lineage' BY <1>7, <1>10 DEF Lineage, Only, Gone, Alone
<1>12. /\ call'[c].at \in {"idle", "failed", "free_port"}
       /\ call'[c].at = "failed" => call[c].at = "failed"
  BY <1>2, <1>8 DEF TypeOK
<1>13. call'[c].at = "free_port" => status' = "Stopped" /\ Running' = {}
  BY <1>2, <1>8
<1>14. CommandAlone'
  <2>1. call'[c].at = "failed" => Only({})' BY <1>9, <1>12
  <2>2. \A d \in Callers : d = c BY DEF OneCommand
  <2> QED BY <1>6, <1>12, <1>13, <2>1, <2>2 DEF CommandAlone
<1>15. ChildKnown' BY <1>8 DEF ChildKnown
<1>16. InForce' BY <1>6, <1>7 DEF OneServer, InForce
<1> QED BY <1>11, <1>14, <1>15, <1>16 DEF OneServer

\* What start() does after its stop().
LEMMA OneServerCommand ==
  ASSUME OneCommand, TypeOK, Terminating, OneServer, NEW c \in Callers, Command(c)
  PROVE  OneServer'
<1>1. CASE FreePort(c)
  <2>1. Running = {} /\ call[c].at = "free_port" BY <1>1 DEF FreePort, OneServer, CommandAlone
  <2>2. Serving = {} BY <2>1 DEF Serving, Running
  <2>3. UNCHANGED <<child, config>> /\ Settled BY <1>1 DEF FreePort, OneCommand
  <2>4. \A r \in Procs : procs'[r] = procs[r]
    <3>1. CASE \E held \in {Serving} \cup {{p} : p \in {q \in Running : Serving = {}}} :
             procs' = Killed(procs, held)
      <4>1. procs' = Killed(procs, {}) BY <2>1, <2>2, <3>1
      <4> QED BY <4>1 DEF Killed
    <3> QED BY <1>1, <3>1 DEF FreePort
  <2>5. \A r \in Procs : Gone(r)
    BY <2>1, <2>3 DEF Settled, Running, TypeOK, Process, Terminating, Gone, 
      OneServer, Lineage, Only, Alone, Handover, Launching, OneCommand, Handling, ReaderAt
  <2>6. Only({})' BY <2>4, <2>5 DEF Only, Gone
  <2>7. call'[c].at \in {"idle", "reset"} BY <1>1 DEF FreePort, TypeOK
  <2>8. Lineage' /\ CommandAlone' BY <2>6, <2>7 DEF Lineage, CommandAlone, OneCommand
  <2>9. ChildKnown' /\ InForce' BY <2>6 DEF ChildKnown, InForce, Only, Gone, Running
  <2> QED BY <2>8, <2>9 DEF OneServer
<1>2. CASE Reset(c) \/ SayStarting(c)
  <2>1. Only({}) BY <1>2 DEF Reset, SayStarting, OneServer, CommandAlone
  <2>2. UNCHANGED procs BY <1>2 DEF Reset, SayStarting
  <2>3. Only({})' BY <2>1, <2>2 DEF Only, Gone
  <2>4. \/ call' = [call EXCEPT ![c].at = "starting"]
        \/ call' = [call EXCEPT ![c].at = "spawn"]
    BY <1>2 DEF Reset, SayStarting
  <2>5. call'[c].at \in {"starting", "spawn"} BY <2>4 DEF TypeOK
  <2>6. Lineage' /\ CommandAlone' BY <2>3, <2>5 DEF Lineage, CommandAlone, OneCommand
  <2>7. ChildKnown' /\ InForce' BY <2>3 DEF ChildKnown, InForce, Only, Gone, Running
  <2> QED BY <2>6, <2>7 DEF OneServer
<1>3. CASE SpawnFirst(c)
  <2>1. Only({}) /\ UNCHANGED config BY <1>3 DEF SpawnFirst, OneServer, CommandAlone
  <2>2. CASE UNCHANGED procs /\ call' = [call EXCEPT ![c].at = "failed"]
    <3>1. Only({})' BY <2>1, <2>2 DEF Only, Gone
    <3>2. call'[c].at = "failed" BY <2>2 DEF TypeOK
    <3>3. Lineage' /\ CommandAlone' BY <3>1, <3>2 DEF Lineage, CommandAlone, OneCommand
    <3>4. ChildKnown' /\ InForce' BY <3>1 DEF ChildKnown, InForce, Only, Gone, Running
    <3> QED BY <3>3, <3>4 DEF OneServer
  <2>3. ASSUME NEW q \in Procs, procs' = [procs EXCEPT ![q] = Spawned("start")],
               call' = [call EXCEPT ![c] = [at |-> "store", next |-> q]]
        PROVE  OneServer'
    <3>1. /\ procs'[q].phase = "loading" /\ procs'[q].reader = "none"
          /\ procs'[q].config = config
      BY <2>3 DEF Spawned, Free, TypeOK
    <3>2. \A r \in Procs \ {q} : procs'[r] = procs[r] BY <2>3 DEF TypeOK
    <3>3. call'[c].at = "store" /\ call'[c].next = q BY <2>3 DEF TypeOK
    <3>4. Launching(c, q)' BY <2>1, <3>1, <3>2, <3>3 DEF Launching, Only, Gone
    <3>5. Lineage' BY <3>4 DEF Lineage
    <3>6. CommandAlone' BY <3>3, <3>4 DEF CommandAlone, OneCommand
    <3>7. ChildKnown' /\ InForce' 
      BY <2>1, <3>1, <3>4 DEF ChildKnown, InForce, Launching, Only, Gone, Running
    <3> QED BY <3>5, <3>6, <3>7 DEF OneServer
  <2> QED BY <1>3, <2>2, <2>3 DEF SpawnFirst
<1>4. CASE StoreFirst(c)
  <2> DEFINE q == call[c].next
  <2>1. q \in Procs /\ Launching(c, q) BY <1>4 DEF StoreFirst, OneServer, CommandAlone
  <2>2. \A r \in Procs :
          /\ procs'[r].reader = (IF r = q THEN "reading" ELSE procs[r].reader)
          /\ procs'[r].phase = procs[r].phase /\ procs'[r].config = procs[r].config
    BY <1>4, FirstStoredAt
  <2>3. \A d \in Callers : call'[d].at = "idle" BY <1>4 DEF StoreFirst, OneCommand, TypeOK
  <2>4. child' = q /\ UNCHANGED config BY <1>4 DEF StoreFirst
  <2> HIDE DEF q
  <2>5. \A r \in Procs \ {q} : Gone(r)' BY <2>1, <2>2 DEF Launching, Only, Gone
  <2> QED BY <2>1, <2>2, <2>3, <2>4, <2>5, HandleStored DEF Launching, Only
<1> QED BY <1>1, <1>2, <1>3, <1>4 DEF Command

\* Each fallback takes something away.
LEMMA Weakened ==
  ASSUME NEW c \in Config,
         NEW d \in Config, \/ c.mtp /\ d = [c EXCEPT !.mtp = FALSE]
                           \/ c.gpu /\ d = [c EXCEPT !.gpu = FALSE]
                           \/ d = [c EXCEPT !.ctx = @ - 1]
  PROVE  Weaker(d, c)
<1>1. CASE c.mtp /\ d = [c EXCEPT !.mtp = FALSE]
  BY <1>1, ServerAssumption DEF Weaker, Config
<1>2. CASE c.gpu /\ d = [c EXCEPT !.gpu = FALSE]
  BY <1>2, ServerAssumption DEF Weaker, Config
<1>3. CASE d = [c EXCEPT !.ctx = @ - 1]
  <2>1. d.ctx = c.ctx - 1 /\ d.mtp = c.mtp /\ d.gpu = c.gpu BY <1>3 DEF Config
  <2>2. c.ctx \in 1..Rungs /\ d.ctx \in 1..Rungs BY DEF Config
  <2> QED BY <2>1, <2>2, ServerAssumption DEF Weaker
<1> QED BY <1>1, <1>2, <1>3

\* The three take_* steps: the reader goes on, and what it lowered is less than
\* what its process asked for.
LEMMA OneServerTaken ==
  ASSUME TypeOK, TypeOK', Terminating, OneServer, NEW p \in Procs,
         TakeMtp(p) \/ TakeCtx(p) \/ TakeGpu(p)
  PROVE  OneServer'
<1>1. /\ procs[p].reader \in {"take_mtp", "take_ctx", "take_gpu"}
      /\ UNCHANGED <<status, call>> /\ child' \in {child, NoProc}
  BY DEF TakeMtp, TakeCtx, TakeGpu
<1>2. procs[p].phase = "exited" BY <1>1 DEF Terminating, Handling
<1>3. procs[p].config = config BY <1>1, <1>2 DEF OneServer, InForce
<1>4. \A r \in Procs \ {p} : procs'[r] = procs[r]
  BY DEF TakeMtp, TakeCtx, TakeGpu, TypeOK
<1>5. procs'[p].phase = procs[p].phase /\ procs'[p].config = procs[p].config
  BY DEF TakeMtp, TakeCtx, TakeGpu, TypeOK, Process
<1>6. \/ /\ procs'[p].reader \in {"take_ctx", "take_gpu", "look"}
         /\ UNCHANGED config
      \/ /\ procs'[p].reader = "spawn"
         /\ \/ config.mtp /\ config' = [config EXCEPT !.mtp = FALSE]
            \/ config.gpu /\ config' = [config EXCEPT !.gpu = FALSE]
            \/ config' = [config EXCEPT !.ctx = @ - 1]
  BY DEF TakeMtp, TakeCtx, TakeGpu, TypeOK, Process, take_mtp_fallback
<1>7. config \in Config /\ config' \in Config BY DEF TypeOK
<1>8. procs'[p].reader = "spawn" => Weaker(config', config)
  BY <1>6, <1>7, Weakened
<1>9. /\ procs'[p].reader \notin {"none", "store"}
      /\ procs'[p].reader \in {"reading", "take_mtp", "take_ctx", "take_gpu"}
           => procs'[p].config = config'
  BY <1>3, <1>5, <1>6
<1>10. procs'[p].reader = "spawn" => Weaker(config', procs'[p].config)
  BY <1>3, <1>5, <1>8
<1> QED BY <1>1, <1>2, <1>4, <1>5, <1>9, <1>10, ReaderMoves

\* The other steps of handle_termination short of a spawn.
LEMMA OneServerHandled ==
  ASSUME TypeOK, Terminating, OneServer, NEW p \in Procs,
         Terminated(p) \/ Look(p) \/ Restarting(p) \/ Fail(p)
  PROVE  OneServer'
<1>1. UNCHANGED <<child, config, call>> BY DEF Terminated, Look, Restarting, Fail
<1>2. procs[p].reader \in {"reading", "look", "restarting", "fail"}
  BY DEF Terminated, Look, Restarting, Fail
<1>3. status = "Stopped" => status' = "Stopped"
  BY DEF Terminated, Look, Restarting, Fail, Terminating
<1>4. CASE procs' = Ended(procs, p)
  BY <1>1, <1>2, <1>3, <1>4, ReaderReturns
<1>5. CASE ~Fail(p) /\ procs' # Ended(procs, p)
  <2>1. procs[p].phase = "exited"
    BY <1>5 DEF Terminated, Look, Restarting, Terminating, Handling
  <2>2. procs[p].reader = "reading" => procs[p].config = config
    BY <2>1 DEF OneServer, InForce
  <2>3. \A r \in Procs \ {p} : procs'[r] = procs[r]
    BY <1>5 DEF Terminated, Look, Restarting, TypeOK
  <2>4. procs'[p].phase = "exited" /\ procs'[p].config = procs[p].config
    BY <1>5, <2>1 DEF Terminated, Look, Restarting, TypeOK, Process
  <2>5. \/ procs[p].reader = "reading" /\ procs'[p].reader = "take_mtp"
        \/ procs'[p].reader \in {"restarting", "fail"}
        \/ procs'[p].reader = "spawn" /\ procs'[p].recovery = "restart"
    BY <1>5 DEF Terminated, Look, Restarting, TypeOK, Process
  <2> QED BY <1>1, <1>2, <1>3, <2>1, <2>2, <2>3, <2>4, <2>5, ReaderMoves
<1> QED BY <1>4, <1>5 DEF Fail

\* The spawn of a recovery: two processes, one about to replace the other.
LEMMA OneServerRespawn ==
  ASSUME TypeOK, Terminating, OneServer, NEW p \in Procs, Respawn(p)
  PROVE  OneServer'
<1>1. procs[p].reader = "spawn" /\ UNCHANGED <<child, config, call>>
  BY DEF Respawn
<1>2. status # "Stopped" /\ procs[p].phase = "exited"
  BY <1>1 DEF Terminating, Handling
<1>3. CASE procs' = Ended(procs, p)
  BY <1>1, <1>2, <1>3, ReaderReturns
<1>4. ASSUME NEW q \in Procs, Vacant(q), UNCHANGED status,
             procs' = [procs EXCEPT ![q] = Spawned(procs[p].recovery),
                                    ![p].reader = "store", ![p].next = q]
      PROVE  OneServer'
  <2>1. Alone(p) BY <1>1, WhoIsThere
  <2>2. q # p BY <1>2, <1>4 DEF Vacant
  <2>3. /\ \A r \in Procs \ {p, q} : procs'[r] = procs[r]
        /\ procs'[q] = Spawned(procs[p].recovery)
        /\ procs'[p].reader = "store" /\ procs'[p].next = q
        /\ procs'[p].phase = "exited"
    BY <1>2, <1>4, <2>2, RespawnedAt
  <2>4. procs'[q].phase = "loading" /\ procs'[q].reader = "none" /\ procs'[q].config = config
    BY <2>3 DEF Spawned, Free
  <2>5. Handover(p, q)' BY <2>1, <2>2, <2>3, <2>4 DEF Alone, Only, Gone, Handover
  <2>6. Lineage' BY <2>5 DEF Lineage
  <2>7. \A c \in Callers : call'[c].at = "idle"
    BY <1>1, <1>2, CommandsWait DEF OneServer, CommandAlone
  <2>8. CommandAlone' BY <2>7 DEF CommandAlone
  <2>9. \A r \in Running' : procs'[r].reader = "none"
    BY <2>3, <2>4, <2>5 DEF Handover, Only, Gone, Running
  <2>10. ChildKnown' BY <2>9 DEF ChildKnown
  <2>11. InForce'
    BY <1>1, <2>3, <2>4, <2>5 DEF InForce, Handover, Only, Gone
  <2> QED BY <2>6, <2>8, <2>10, <2>11 DEF OneServer
<1> QED BY <1>3, <1>4 DEF Respawn

\* The store of a recovery: again one process, and it is the child.
LEMMA OneServerStored ==
  ASSUME TypeOK, Terminating, OneServer, NEW p \in Procs,
         StoreBumped(p) \/ StoreCpu(p) \/ StoreRestart(p)
  PROVE  OneServer'
<1> DEFINE q == procs[p].next
<1>1. procs[p].reader = "store" /\ child' = q /\ UNCHANGED <<config, call>>
  BY DEF StoreBumped, StoreCpu, StoreRestart
<1>2. q \in Procs /\ Handover(p, q) BY <1>1, WhoIsThere
<1>3. \A r \in Procs \ {p} :
        /\ procs'[r].reader = (IF r = q THEN "reading" ELSE procs[r].reader)
        /\ procs'[r].phase = procs[r].phase /\ procs'[r].config = procs[r].config
  BY StoredAt
<1>4. Gone(p)'
  BY DEF StoreBumped, StoreCpu, StoreRestart, Ended, Attached, Bumped, Free, Gone, TypeOK
<1>5. \A c \in Callers : call'[c].at = "idle"
  BY <1>1, CommandsWait DEF OneServer, CommandAlone, Terminating
<1> HIDE DEF q
<1>6. q # p /\ procs[q].reader = "none" /\ procs[q].phase # "free"
  BY <1>2 DEF Handover, Only
<1>7. \A r \in Procs \ {q} : Gone(r)'
  BY <1>2, <1>3, <1>4 DEF Handover, Only, Gone
<1> QED BY <1>1, <1>2, <1>3, <1>5, <1>6, <1>7, HandleStored

\* The output reader as a whole.
LEMMA OneServerReader ==
  ASSUME TypeOK, TypeOK', Terminating, OneServer, NEW p \in Procs, Reader(p)
  PROVE  OneServer'
<1>1. CASE note_stderr_signal(p)
  <2>1. \A r \in Procs :
           /\ procs'[r].reader = procs[r].reader /\ procs'[r].next = procs[r].next
           /\ procs'[r].config = procs[r].config
           /\ procs'[r].recovery = procs[r].recovery
           /\ procs'[r].stuck = procs[r].stuck
           /\ procs'[r].phase = procs[r].phase
    BY <1>1 DEF note_stderr_signal, TypeOK, Process
  <2>2. UNCHANGED <<child, config, call, status>> BY <1>1 DEF note_stderr_signal
  <2> QED BY <2>1, <2>2, NobodyMoves DEF Running
<1> QED BY <1>1, OneServerTaken, OneServerHandled, OneServerRespawn, OneServerStored
        DEF Reader

\* Every step of the supervisor.
LEMMA OneServerStep ==
  ASSUME OneCommand
  PROVE  TypeOK /\ TypeOK' /\ Terminating /\ OneServer /\ [Next]_vars => OneServer'
<1> SUFFICES ASSUME TypeOK, TypeOK', Terminating, OneServer, [Next]_vars
             PROVE  OneServer'
  OBVIOUS
<1>1. ASSUME NEW p \in Procs, Complain(p) \/ Serve(p) \/ Crash(p) PROVE OneServer'
  <2>1. \A r \in Procs :
           /\ procs'[r].reader = procs[r].reader /\ procs'[r].next = procs[r].next
           /\ procs'[r].config = procs[r].config
           /\ procs'[r].recovery = procs[r].recovery
           /\ procs'[r].stuck = procs[r].stuck
           /\ procs'[r].phase = "free" <=> procs[r].phase = "free"
           /\ r \in Running' => r \in Running
    BY <1>1 DEF Complain, Serve, Crash, Killed, Running, TypeOK, Process
  <2>2. UNCHANGED <<child, config, call, status>> BY <1>1 DEF Complain, Serve, Crash
  <2> QED BY <2>1, <2>2, NobodyMoves
<1>2. CASE Poller \/ UNCHANGED vars
  <2>1. UNCHANGED <<child, config, call, procs>> /\ (status = "Stopped" => status' = "Stopped")
    BY <1>2 DEF Poller, Answered, GaveUp, Report, vars
  <2> QED BY <2>1, NobodyMoves DEF Running
<1> QED BY <1>1, <1>2, OneServerStop, OneServerCommand, OneServerReader DEF Next

\* With one command at a time that overlaps no recovery, no process runs on
\* without a handle: it is the child, or in the hand of the task that spawned it.
THEOREM NothingLeaks == ASSUME OneCommand PROVE Spec => []NoLeakedProcess
<1>1. ASSUME TypeOK, Terminating, OneServer PROVE NoLeakedProcess
  <2> SUFFICES ASSUME NEW p \in Running, ~procs[p].stuck, p # child PROVE p \in InHand
    BY DEF NoLeakedProcess
  <2>1. procs[p].reader = "none" BY <1>1 DEF OneServer, ChildKnown
  <2>2. ~Only({}) /\ \A q \in Procs : ~Alone(q)
    BY <2>1 DEF Only, Gone, Running, Alone
  <2>3. \A q, r \in Procs : Handover(q, r) => p = r
    BY <2>1 DEF Handover, Only, Gone, Running
  <2>4. \A c \in Callers, r \in Procs : Launching(c, r) => p = r
    BY <2>1 DEF Launching, Only, Gone, Running
  <2> QED BY <1>1, <2>2, <2>3, <2>4 DEF OneServer, Lineage, InHand, Handover, Launching
<1>2. ~Overlap BY DEF OneCommand
<1> QED BY <1>1, <1>2, TypesInit, TypesStep, TerminatingInit, TerminatingStep,
           OneServerInit, OneServerStep, PTL DEF Spec

\* Under the same assumption each process spawned to recover from a failed start
\* asks for strictly less than the one that failed: nothing resets or lowers the
\* configuration between the moment it is lowered and the spawn.
THEOREM RecoveriesDescend == ASSUME OneCommand PROVE Spec => RetriesDescend
<1> DEFINE Descends == \A p \in Procs :
       procs[p].reader = "spawn" /\ procs'[p].reader = "store"
         /\ procs[p].recovery # "restart"
       => Weaker(procs'[procs'[p].next].config, procs[p].config)
<1>1. ASSUME TypeOK, Terminating, OneServer, [Next]_vars PROVE [Descends]_vars
  <2> SUFFICES ASSUME NEW p \in Procs, procs[p].reader = "spawn",
                      procs'[p].reader = "store", procs[p].recovery # "restart"
               PROVE  Weaker(procs'[procs'[p].next].config, procs[p].config)
    OBVIOUS
  <2>1. Alone(p) BY <1>1, WhoIsThere
  <2>2. Weaker(config, procs[p].config) BY <1>1 DEF OneServer, InForce
  <2>3. Respawn(p)
    <3>1. \A c \in Callers : call[c].at \in {"idle", "free_port"}
      BY <1>1, CommandsWait
    <3>2. ASSUME NEW r \in Procs, Reader(r) PROVE r = p /\ Respawn(p)
      <4>1. r = p
        BY <2>1, <3>2 DEF Alone, Only, Gone, Reader, note_stderr_signal, Terminated, TakeMtp,
                          TakeCtx, TakeGpu, Look, Restarting, Fail, Respawn, StoreBumped,
                          StoreCpu, StoreRestart
      <4> QED BY <3>2, <4>1 DEF Reader, note_stderr_signal, Terminated, TakeMtp,
                          TakeCtx, TakeGpu, Look, Restarting, Fail, StoreBumped,
                          StoreCpu, StoreRestart
    <3>3. ASSUME NEW c \in Callers, Stop(c) \/ Start(c) \/ Command(c) PROVE FALSE
      <4>1. Stop(c) \/ Start(c) \/ FreePort(c)
        BY <3>1, <3>3 DEF Command, Reset, SayStarting, SpawnFirst, StoreFirst
      <4>2. \/ \E ended : procs' = Killed(procs, ended)
            \/ child \in Running /\ procs' = [procs EXCEPT ![child].stuck = TRUE]
            \/ UNCHANGED procs
        BY <4>1 DEF Stop, Start, stop, FreePort
      <4>3. procs'[p].reader = procs[p].reader
        <5>1. CASE \E ended : procs' = Killed(procs, ended)
          BY <1>1, <5>1 DEF Killed, TypeOK, Process
        <5>2. CASE child \in Running /\ procs' = [procs EXCEPT ![child].stuck = TRUE]
          BY <1>1, <5>2 DEF TypeOK, Process
        <5> QED BY <4>2, <5>1, <5>2
      <4> QED BY <4>3
    <3>4. ASSUME NEW r \in Procs, Complain(r) \/ Serve(r) \/ Crash(r) PROVE FALSE
      <4>1. procs'[p].reader = procs[p].reader
        BY <1>1, <3>4 DEF Complain, Serve, Crash, Killed, TypeOK, Process
      <4> QED BY <4>1
    <3>5. ~Poller /\ ~UNCHANGED vars BY DEF Poller, Answered, GaveUp, Report, vars
    <3> QED BY <1>1, <3>2, <3>3, <3>4, <3>5 DEF Next
  <2>4. PICK q \in Procs : Vacant(q) /\ 
             procs' = [procs EXCEPT ![q] = Spawned(procs[p].recovery),
                                    ![p].reader = "store", ![p].next = q]
    <3>1. procs' # Ended(procs, p) BY <1>1 DEF Ended, Free, TypeOK
    <3> QED BY <2>3, <3>1 DEF Respawn
  <2>5. q # p BY <2>1, <2>4 DEF Alone, Only, Vacant
  <2>6. procs'[p].next = q /\ procs'[q] = Spawned(procs[p].recovery)
    BY <1>1, <2>4, <2>5, RespawnedAt
  <2>7. procs'[q].config = config BY <2>6 DEF Spawned, Free
  <2> QED BY <2>2, <2>6, <2>7
<1>2. ~Overlap BY DEF OneCommand
<1> QED BY <1>1, <1>2, TypesInit, TypesStep, TerminatingInit, TerminatingStep,
           OneServerInit, OneServerStep, PTL DEF Spec, RetriesDescend
=============================================================================
