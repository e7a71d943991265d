-------------------------- MODULE JobRunnerProofs --------------------------
(***************************************************************************)
(* What holds of the job runner for every set of runs, jobs, folders and   *)
(* lanes.  JInv is the type invariant with where the queue, `admitted` and *)
(* a create command may find a run (Phases); it is inductive.  On it rest  *)
(* the properties of the queue and the run view.  Unmade adds that a run   *)
(* not made yet has no row, InOrder that `ahead` is an order of the queue, *)
(* Deletion how far a run has come that is deleted, Startup what the page  *)
(* has done before its sweep is over.  Weighed and FirstOne say that one   *)
(* drain has one result; WaitsForReason why a run is still queued when     *)
(* none is on its way; Creation who still writes a row that does not say   *)
(* how its run ended.  Last comes the runner with the sleep inhibitor.     *)
(***************************************************************************)
EXTENDS JobsAwake, FiniteSetTheorems, WellFoundedInduction, TLAPS

Phases ==
    /\ \A r \in pending : phase[r] = "placed"
    /\ \A r \in admitted : phase[r] \in {"running", "ended"}
    /\ \A r \in RunIds : <<"create", r>> \in writes => phase[r] \in {"saving", "lost"}

JInv == JobsTypeOK /\ Phases

-----------------------------------------------------------------------------
\* Nothing is enqueued before the sweep is over, unless the user may.
MayEnqueue == EarlyUser \/ startup = "ready" \/ \E r \in RunIds : phase[r] = "running"

\* The disjuncts of JobsNext, one by one.
LEMMA StepCases ==
    ASSUME JobsNext
    PROVE  \/ /\ MayEnqueue
              /\ \E r \in RunIds, j \in Jobs, from \in RunIds \cup {Null} : Enqueue(r, j, from)
           \/ \E r \in RunIds : Place(r)
           \/ \E r \in RunIds : finalizeRun(r)
           \/ \E r \in RunIds : onSettled(r)
           \/ drain
           \/ \E on \in BOOLEAN : setOneRunAtATime(on)
           \/ \E on \in BOOLEAN : setLeanMode(on)
           \/ \E r \in RunIds : focusRun(r)
           \/ clearCurrentRun
           \/ \E r \in RunIds : CancelQueued(r)
           \/ \E r \in RunIds : DeleteRun(r)
           \/ \E r \in RunIds : CheckRun(r)
           \/ \E r \in RunIds : DeleteChecked(r)
           \/ \E j \in Jobs : DeleteAllRuns(j)
           \/ \E j \in Jobs, way \in {"jobs.delete", "editor"} : DeleteJob(j, way)
           \/ \E r \in RunIds : Create(r)
           \/ \E w \in writes : Write(w)
           \/ Forget /\ writes' \in {writes, {}}
           \/ Load
           \/ Ready
<1>1. CASE User
  BY <1>1, JobsAssumption DEF User, EnqueueManual, MayEnqueue
<1>2. CASE Scheduler
  BY <1>2 DEF Scheduler, EnqueueScheduled, MayEnqueue
<1>3. ASSUME NEW r \in RunIds, Pipeline(r)
      PROVE  \/ finalizeRun(r)
             \/ onSettled(r)
             \/ /\ MayEnqueue
                /\ \E c \in RunIds, j \in Jobs, from \in RunIds \cup {Null} : Enqueue(c, j, from)
  BY <1>3 DEF Pipeline, EnqueueChained, MayEnqueue
<1>4. CASE Task
  BY <1>1, <1>2, <1>3, <1>4 DEF Task
<1>5. CASE Host
  BY <1>5 DEF Host
<1>6. CASE PageLoad
  BY <1>6 DEF PageLoad, ReloadPage, Quit
<1>. QED  BY <1>4, <1>5, <1>6 DEF JobsNext

-----------------------------------------------------------------------------
(* Starting runs. *)

\* A command about a run is a command.
LEMMA StartedAreWrites ==
    ASSUME NEW S, S \subseteq RunIds
    PROVE  {<<"started", r>> : r \in S} \subseteq Writes
BY DEF Writes

\* What StartAll leaves behind, whichever runs it starts.
LEMMA StartAllKeeps ==
    ASSUME JInv, NEW S, S \subseteq RunIds, StartAll(S)
    PROVE  /\ phase' \in [RunIds -> Phase]
           /\ \A r \in RunIds : phase'[r] = IF r \in S THEN "running" ELSE phase[r]
           /\ parent' \in [RunIds -> RunIds \cup {Null}]
           /\ admitted' = admitted \cup S
           /\ runs' \subseteq RunIds /\ S \subseteq runs'
           /\ focused' \in runs' \cup {Null}
           /\ S # {} => focused' \in runs'
           /\ S = {} => UNCHANGED <<runs, focused>>
           /\ writes' \subseteq Writes
           /\ \A r \in RunIds : <<"create", r>> \in writes' => <<"create", r>> \in writes
<1>1. /\ phase' \in [RunIds -> Phase]
      /\ \A r \in RunIds : phase'[r] = IF r \in S THEN "running" ELSE phase[r]
  BY DEF JInv, JobsTypeOK, StartAll, Phase
<1>2. parent' \in [RunIds -> RunIds \cup {Null}]
  BY DEF JInv, JobsTypeOK, StartAll
<1>3. admitted' = admitted \cup S
  BY DEF StartAll
<1>4. S = {} => UNCHANGED <<runs, focused>>
  BY DEF StartAll
<1>5. ASSUME S # {}
      PROVE  runs' \subseteq RunIds /\ S \subseteq runs' /\ focused' \in runs'
  <2>1. PICK first \in S : Show(S, first)
    BY <1>5 DEF StartAll
  <2>2. CASE getCurrentRun \in getActiveRuns
    <3>1. runs' = runs \cup S /\ focused' = focused
      BY <2>1, <2>2 DEF Show
    <3>2. focused \in runs
      BY <2>2, JobsAssumption DEF getCurrentRun, getActiveRuns, JInv, JobsTypeOK
    <3>. QED  BY <3>1, <3>2 DEF JInv, JobsTypeOK
  <2>3. CASE getCurrentRun \notin getActiveRuns
    BY <2>1, <2>3 DEF Show, JInv, JobsTypeOK
  <2>. QED  BY <2>2, <2>3
<1>6. writes' = writes \cup {<<"started", r>> : r \in S}
  BY DEF StartAll, Send
<1>7. writes' \subseteq Writes
  BY <1>6, StartedAreWrites DEF JInv, JobsTypeOK
<1>8. \A r \in RunIds : <<"create", r>> \in writes' => <<"create", r>> \in writes
  BY <1>6
<1>. QED  BY <1>1, <1>2, <1>3, <1>4, <1>5, <1>7, <1>8 DEF JInv, JobsTypeOK

\* What drain starts was queued, and no longer is.
LEMMA StartQueuedKeeps ==
    ASSUME JInv, NEW alone \in BOOLEAN, StartQueued(alone)
    PROVE  \E S \in SUBSET pending :
             /\ Drained(S, alone) /\ StartAll(S)
             /\ pending' = pending \ S
             /\ ahead' = {p \in ahead : p[1] \notin S /\ p[2] \notin S}
BY DEF StartQueued, Unqueue

\* A smaller queue keeps its order.
LEMMA UnqueueKeeps ==
    ASSUME JInv, NEW S, Unqueue(S)
    PROVE  /\ pending' \subseteq pending
           /\ ahead' \subseteq pending' \X pending'
           /\ \A q, r \in pending' : q # r => (<<q, r>> \in ahead' <=> <<r, q>> \notin ahead')
<1>1. pending' = pending \ S /\ ahead' = {p \in ahead : p[1] \notin S /\ p[2] \notin S}
  BY DEF Unqueue
<1>2. ahead' \subseteq pending' \X pending'
  BY <1>1 DEF JInv, JobsTypeOK
<1>3. ASSUME NEW q \in pending', NEW r \in pending', q # r
      PROVE  <<q, r>> \in ahead' <=> <<r, q>> \notin ahead'
  BY <1>1, <1>3 DEF JInv, JobsTypeOK
<1>. QED  BY <1>1, <1>2, <1>3

-----------------------------------------------------------------------------
(* JInv is inductive. *)

LEMMA JInvInit == JobsInit => JInv
<1>. SUFFICES ASSUME JobsInit PROVE JInv
  OBVIOUS
<1>1. /\ phase \in [RunIds -> Phase] /\ rows \in [RunIds -> Row]
      /\ \A r \in RunIds : phase[r] = "free"
  BY DEF JobsInit, Phase, Row
<1>2. restarts \in 0..MaxRestarts
  BY JobsAssumption DEF JobsInit
<1>3. JobsTypeOK
  BY <1>1, <1>2 DEF JobsInit, JobsTypeOK
<1>4. Phases
  BY DEF JobsInit, Phases
<1>. QED  BY <1>3, <1>4 DEF JInv

LEMMA JInvStep == JInv /\ [JobsNext]_jobVars => JInv'
<1>. SUFFICES ASSUME JInv, [JobsNext]_jobVars PROVE JInv'
  OBVIOUS
<1>. USE JobsAssumption
<1>1. ASSUME NEW r \in RunIds, NEW j \in Jobs, NEW from \in RunIds \cup {Null}, Enqueue(r, j, from)
      PROVE  JInv'
  <2>1. phase' = [phase EXCEPT ![r] = "saving"] /\ phase[r] = "free"
    BY <1>1 DEF Enqueue
  <2>2. job' \in [RunIds -> Jobs \cup {Null}] /\ \A q \in RunIds : phase'[q] # "free" => job'[q] \in Jobs
    BY <1>1 DEF Enqueue, JInv, JobsTypeOK
  <2>3. phase' \in [RunIds -> Phase] /\ parent' \in [RunIds -> RunIds \cup {Null}]
    BY <1>1 DEF Enqueue, JInv, JobsTypeOK, Phase
  <2>4. writes' = writes \cup {<<"create", r>>} /\ writes' \subseteq Writes
    BY <1>1 DEF Enqueue, Send, JInv, JobsTypeOK, Writes
  <2>5. JobsTypeOK'
    BY <1>1, <2>2, <2>3, <2>4 DEF Enqueue, settings, JInv, JobsTypeOK
  <2>6. Phases'
    BY <1>1, <2>1, <2>4 DEF Enqueue, JInv, JobsTypeOK, Phases
  <2>. QED  BY <2>5, <2>6 DEF JInv
<1>2. ASSUME NEW r \in RunIds, Place(r)
      PROVE  JInv'
  <2>1. phase[r] = "saved" /\ r \notin pending /\ <<"create", r>> \notin writes
    BY <1>2 DEF Place, JInv, Phases
  <2>2. CASE CanStart(admitted, r, oneAtATime \/ leanMode)
    <3>1. StartAll({r}) /\ UNCHANGED <<pending, ahead>>
      BY <1>2, <2>2 DEF Place
    <3>2. JobsTypeOK'
      BY <1>2, <3>1, <2>1, StartAllKeeps DEF Place, settings, JInv, JobsTypeOK
    <3>3. Phases'
      BY <3>1, <2>1, StartAllKeeps DEF JInv, JobsTypeOK, Phases
    <3>. QED  BY <3>2, <3>3 DEF JInv
  <2>3. CASE ~CanStart(admitted, r, oneAtATime \/ leanMode)
    <3>1. /\ phase' = [phase EXCEPT ![r] = "placed"]
          /\ pending' = pending \cup {r}
          /\ ahead' = ahead \cup ((pending \ GoesAheadOf(r)) \X {r}) \cup ({r} \X GoesAheadOf(r))
          /\ UNCHANGED <<parent, admitted, runs, focused, writes>>
      BY <1>2, <2>3 DEF Place
    <3>2. GoesAheadOf(r) \subseteq pending
      BY DEF GoesAheadOf
    <3>3. phase' \in [RunIds -> Phase] /\ \A q \in RunIds : phase'[q] # "free" => job[q] \in Jobs
      BY <3>1, <2>1 DEF JInv, JobsTypeOK, Phase
    <3>4. ahead' \subseteq pending' \X pending'
      BY <3>1, <3>2 DEF JInv, JobsTypeOK
    <3>5. ASSUME NEW p \in pending', NEW q \in pending', p # q
          PROVE  <<p, q>> \in ahead' <=> <<q, p>> \notin ahead'
      <4>1. ahead \subseteq pending \X pending
        BY DEF JInv, JobsTypeOK
      <4>2. CASE p \in pending /\ q \in pending
        BY <3>1, <3>5, <4>2, <2>1 DEF JInv, JobsTypeOK
      <4>3. CASE p = r
        BY <3>1, <3>2, <3>5, <4>1, <4>3, <2>1
      <4>4. CASE q = r
        BY <3>1, <3>2, <3>5, <4>1, <4>4, <2>1
      <4>. QED  BY <3>1, <4>2, <4>3, <4>4
    <3>6. JobsTypeOK'
      BY <1>2, <3>1, <3>3, <3>4, <3>5 DEF Place, settings, JInv, JobsTypeOK
    <3>7. Phases'
      BY <3>1, <2>1 DEF JInv, JobsTypeOK, Phases
    <3>. QED  BY <3>6, <3>7 DEF JInv
  <2>. QED  BY <2>2, <2>3
<1>3. ASSUME NEW r \in RunIds, finalizeRun(r)
      PROVE  JInv'
  <2>1. phase' = [phase EXCEPT ![r] = "ended"] /\ phase[r] = "running"
    BY <1>3 DEF finalizeRun
  <2>2. phase' \in [RunIds -> Phase] /\ \A q \in RunIds : phase'[q] # "free" => job[q] \in Jobs
    BY <2>1 DEF JInv, JobsTypeOK, Phase
  <2>3. writes' = writes \cup {<<"finished", r>>} /\ writes' \subseteq Writes
    BY <1>3 DEF finalizeRun, Send, JInv, JobsTypeOK, Writes
  <2>4. JobsTypeOK'
    BY <1>3, <2>2, <2>3 DEF finalizeRun, settings, JInv, JobsTypeOK
  <2>5. Phases'
    BY <1>3, <2>1, <2>3 DEF finalizeRun, JInv, JobsTypeOK, Phases
  <2>. QED  BY <2>4, <2>5 DEF JInv
<1>4. ASSUME NEW r \in RunIds, onSettled(r)
      PROVE  JInv'
  <2>1. JobsTypeOK'
    BY <1>4 DEF onSettled, settings, database, JInv, JobsTypeOK
  <2>2. Phases'
    BY <1>4 DEF onSettled, database, JInv, Phases
  <2>. QED  BY <2>1, <2>2 DEF JInv
<1>5. ASSUME NEW alone \in BOOLEAN, StartQueued(alone),
             UNCHANGED <<job, rows, gone, checked, startup, restarts>>,
             draining' \in BOOLEAN, oneAtATime' \in BOOLEAN, leanMode' \in BOOLEAN
      PROVE  JInv'
  <2>1. PICK S \in SUBSET pending : StartAll(S) /\ Unqueue(S)
    BY <1>5 DEF StartQueued
  <2>2. S \subseteq RunIds /\ \A r \in S : phase[r] = "placed" /\ <<"create", r>> \notin writes
    BY DEF JInv, JobsTypeOK, Phases
  <2>3. pending' = pending \ S
    BY <2>1 DEF Unqueue
  <2>4. /\ pending' \subseteq RunIds
        /\ ahead' \subseteq pending' \X pending'
        /\ \A q, r \in pending' : q # r => (<<q, r>> \in ahead' <=> <<r, q>> \notin ahead')
    BY <2>1, UnqueueKeeps DEF JInv, JobsTypeOK
  <2>5. /\ phase' \in [RunIds -> Phase]
        /\ \A r \in RunIds : phase'[r] = IF r \in S THEN "running" ELSE phase[r]
        /\ parent' \in [RunIds -> RunIds \cup {Null}]
        /\ admitted' \subseteq RunIds
        /\ runs' \subseteq RunIds /\ focused' \in runs' \cup {Null}
        /\ writes' \subseteq Writes
    BY <2>1, <2>2, StartAllKeeps DEF JInv, JobsTypeOK
  <2>6. \A r \in RunIds : phase'[r] # "free" => job'[r] \in Jobs
    BY <1>5, <2>2, <2>5 DEF JInv, JobsTypeOK
  <2>7. JobsTypeOK'
    BY <1>5, <2>4, <2>5, <2>6 DEF JInv, JobsTypeOK
  <2>8. Phases'
    BY <2>1, <2>2, <2>3, StartAllKeeps DEF JInv, JobsTypeOK, Phases
  <2>. QED  BY <2>7, <2>8 DEF JInv
<1>6. CASE drain
  BY <1>5, <1>6 DEF drain, settings, JInv, JobsTypeOK
<1>7. ASSUME NEW on \in BOOLEAN, setOneRunAtATime(on)
      PROVE  JInv'
  <2>1. CASE on
    <3>1. UNCHANGED <<phase, job, parent, pending, ahead, admitted, runs, focused, writes, draining,
                      leanMode, rows, gone, checked, startup, restarts>> /\ oneAtATime' \in BOOLEAN
      BY <1>7, <2>1 DEF setOneRunAtATime
    <3>. QED  BY <3>1 DEF JInv, JobsTypeOK, Phases
  <2>2. CASE ~on
    BY <1>5, <1>7, <2>2 DEF setOneRunAtATime, JInv, JobsTypeOK
  <2>. QED  BY <2>1, <2>2
<1>8. ASSUME NEW on \in BOOLEAN, setLeanMode(on)
      PROVE  JInv'
  BY <1>8 DEF setLeanMode, runner, database, JInv, JobsTypeOK, Phases
<1>9. ASSUME NEW r \in RunIds, focusRun(r)
      PROVE  JInv'
  BY <1>9 DEF focusRun, getActiveRuns, settings, database, JInv, JobsTypeOK, Phases
<1>10. CASE clearCurrentRun
  <2>1. runs' \subseteq runs /\ focused' \in runs' \cup {Null}
    BY <1>10 DEF clearCurrentRun, getActiveRuns
  <2>. QED  BY <1>10, <2>1 DEF clearCurrentRun, settings, database, JInv, JobsTypeOK, Phases
<1>11. ASSUME NEW ws, ws \subseteq Writes, \A w \in ws : w[1] # "create",
              writes' \subseteq writes \cup ws,
              UNCHANGED <<pending, ahead>> \/ \E S : Unqueue(S),
              UNCHANGED <<phase, job, parent, admitted, runs, focused, draining, settings, rows, gone,
                          startup, restarts>>,
              checked' \in RunIds \cup {Null}
       PROVE  JInv'
  <2>1. /\ pending' \subseteq pending
        /\ ahead' \subseteq pending' \X pending'
        /\ \A q, r \in pending' : q # r => (<<q, r>> \in ahead' <=> <<r, q>> \notin ahead')
    BY <1>11, UnqueueKeeps DEF JInv, JobsTypeOK
  <2>2. \A r \in RunIds : <<"create", r>> \in writes' => <<"create", r>> \in writes
    BY <1>11
  <2>3. JobsTypeOK'
    BY <1>11, <2>1 DEF settings, JInv, JobsTypeOK
  <2>4. Phases'
    BY <1>11, <2>1, <2>2 DEF JInv, Phases
  <2>. QED  BY <2>3, <2>4 DEF JInv
<1>12. ASSUME NEW r \in RunIds, CancelQueued(r) \/ DeleteRun(r)
       PROVE  JInv'
  <2>1. PICK k \in {"finished", "delete"} : writes' = writes \cup {<<k, r>>}
    BY <1>12 DEF CancelQueued, DeleteRun, Send
  <2>2. {<<k, r>>} \subseteq Writes /\ k # "create"
    BY DEF Writes
  <2>3. Unqueue({r})
    BY <1>12 DEF CancelQueued, DeleteRun
  <2>4. /\ UNCHANGED <<phase, job, parent, admitted, runs, focused, draining, settings, rows, gone,
                      startup, restarts>>
        /\ checked' \in RunIds \cup {Null}
    BY <1>12 DEF CancelQueued, DeleteRun, JInv, JobsTypeOK
  <2>5. (\A w \in {<<k, r>>} : w[1] # "create") /\ writes' \subseteq writes \cup {<<k, r>>}
    BY <2>1, <2>2
  <2>. QED  BY <1>11, <2>2, <2>3, <2>4, <2>5
<1>13. ASSUME NEW r \in RunIds, CheckRun(r)
       PROVE  JInv'
  BY <1>13 DEF CheckRun, runner, settings, database, JInv, JobsTypeOK, Phases
<1>14. ASSUME NEW r \in RunIds, DeleteChecked(r)
       PROVE  JInv'
  <2>1. writes' \subseteq writes \cup {<<"delete", r>>}
    BY <1>14 DEF DeleteChecked, Send
  <2>2. {<<"delete", r>>} \subseteq Writes
    BY DEF Writes
  <2>. QED  BY <1>11, <1>14, <2>1, <2>2 DEF DeleteChecked
<1>15. ASSUME NEW j \in Jobs, NEW way, DeleteAllRuns(j) \/ DeleteJob(j, way)
       PROVE  JInv'
  <2>1. PICK k \in {"clear", "deleteJob"} : writes' = writes \cup {<<k, j>>}
    BY <1>15 DEF DeleteAllRuns, DeleteJob, Send
  <2>2. {<<k, j>>} \subseteq Writes /\ k # "create"
    BY DEF Writes
  <2>3. UNCHANGED <<pending, ahead>> \/ \E S : Unqueue(S)
    BY <1>15 DEF DeleteAllRuns, DeleteJob
  <2>4. /\ UNCHANGED <<phase, job, parent, admitted, runs, focused, draining, settings, rows, gone,
                      startup, restarts>>
        /\ checked' \in RunIds \cup {Null}
    BY <1>15 DEF DeleteAllRuns, DeleteJob, JInv, JobsTypeOK
  <2>5. (\A w \in {<<k, j>>} : w[1] # "create") /\ writes' \subseteq writes \cup {<<k, j>>}
    BY <2>1, <2>2
  <2>. QED  BY <1>11, <2>2, <2>3, <2>4, <2>5
<1>16. ASSUME NEW r \in RunIds, Create(r)
       PROVE  JInv'
  <2>1. phase[r] \in {"saving", "lost"}
    BY <1>16 DEF Create, JInv, Phases
  <2>2. \E p \in {"failed", "saved", "lost"} : phase' = [phase EXCEPT ![r] = p]
    BY <1>16, <2>1 DEF Create, JInv, JobsTypeOK
  <2>3. /\ phase' \in [RunIds -> Phase]
        /\ \A q \in RunIds : q # r => phase'[q] = phase[q]
        /\ \A q \in RunIds : phase'[q] # "free" => job[q] \in Jobs
    BY <2>1, <2>2 DEF JInv, JobsTypeOK, Phase
  <2>4. rows' \in [RunIds -> Row]
    BY <1>16 DEF Create, JInv, JobsTypeOK, Row
  <2>5. writes' = writes \ {<<"create", r>>}
    BY <1>16 DEF Create
  <2>6. JobsTypeOK'
    BY <1>16, <2>3, <2>4, <2>5 DEF Create, settings, JInv, JobsTypeOK
  <2>7. r \notin pending /\ r \notin admitted
    BY <2>1 DEF JInv, Phases
  <2>8. Phases'
    BY <1>16, <2>3, <2>5, <2>7 DEF Create, JInv, JobsTypeOK, Phases
  <2>. QED  BY <2>6, <2>8 DEF JInv
<1>17. ASSUME NEW w \in writes, Write(w)
       PROVE  JInv'
  <2>1. \A r \in RunIds : rows[r] \in Row
    BY DEF JInv, JobsTypeOK
  <2>2. ASSUME NEW r \in RunIds
        PROVE  Written(w)[r] \in Row
    BY <2>1 DEF Written, mark_run_started, mark_run_finished, Deleted, recover_orphan_runs, Row
  <2>3. rows' \in [RunIds -> Row]
    BY <1>17, <2>2 DEF Write, Written
  <2>4. gone' \subseteq Jobs
    BY <1>17 DEF Write, Writes, JInv, JobsTypeOK
  <2>5. JobsTypeOK'
    BY <1>17, <2>3, <2>4 DEF Write, runner, settings, JInv, JobsTypeOK
  <2>6. Phases'
    BY <1>17 DEF Write, runner, JInv, Phases
  <2>. QED  BY <2>5, <2>6 DEF JInv
<1>18. CASE Forget /\ writes' \in {writes, {}}
  <2>1. phase' = [r \in RunIds |-> IF phase[r] = "free" THEN "free" ELSE "lost"]
    BY <1>18 DEF Forget
  <2>2. phase' \in [RunIds -> Phase] /\ \A q \in RunIds : phase'[q] # "free" => job[q] \in Jobs
    BY <2>1 DEF JInv, JobsTypeOK, Phase
  <2>3. restarts' \in 0..MaxRestarts
    BY <1>18 DEF Forget, JInv, JobsTypeOK
  <2>4. JobsTypeOK'
    BY <1>18, <2>2, <2>3 DEF Forget, settings, JInv, JobsTypeOK
  <2>5. Phases'
    BY <1>18, <2>1 DEF Forget, JInv, JobsTypeOK, Phases
  <2>. QED  BY <2>4, <2>5 DEF JInv
<1>19. CASE Load
  <2>1. writes' = writes \cup {<<"sweep", Null>>} /\ writes' \subseteq Writes
    BY <1>19 DEF Load, Send, JInv, JobsTypeOK, Writes
  <2>. QED  BY <1>19, <2>1 DEF Load, runner, settings, JInv, JobsTypeOK, Phases
<1>20. CASE Ready
  BY <1>20 DEF Ready, runner, settings, database, JInv, JobsTypeOK, Phases
<1>21. CASE UNCHANGED jobVars
  BY <1>21 DEF jobVars, runner, settings, database, JInv, JobsTypeOK, Phases
<1>. QED  BY <1>1, <1>2, <1>3, <1>4, <1>6, <1>7, <1>8, <1>9, <1>10, <1>12, <1>13, <1>14, <1>15,
             <1>16, <1>17, <1>18, <1>19, <1>20, <1>21, StepCases

\* The runner's state keeps its type, `focused` among the runs held and the
\* queue in one order, whatever the user, the pipelines and the database do.
THEOREM TypeCorrect == JobsSpec => []JobsTypeOK
<1>1. JInv => JobsTypeOK
  BY DEF JInv
<1>. QED  BY <1>1, JInvInit, JInvStep, PTL DEF JobsSpec

\* What JInv says of every state.
LEMMA JInvAlways == JobsSpec => []JInv
BY JInvInit, JInvStep, PTL DEF JobsSpec

-----------------------------------------------------------------------------
(* The queue. *)

\* With nothing going, drain starts every run nothing started stands before;
\* so it starts one unless the queue is empty.
LEMMA DrainStartsOne ==
    ASSUME JInv, NEW alone \in BOOLEAN, StartQueued(alone), pending # {}
    PROVE  admitted' # {}
<1>1. PICK S \in SUBSET pending : Drained(S, alone) /\ StartAll(S)
  BY StartQueuedKeeps
<1>2. admitted' = admitted \cup S
  BY <1>1 DEF StartAll
<1>3. CASE S = {} /\ admitted = {}
  <2>1. PICK r \in pending : TRUE
    OBVIOUS
  <2>2. admitted \cup {q \in S : <<q, r>> \in ahead} = {}
    BY <1>3
  <2>3. CanStart(admitted \cup {q \in S : <<q, r>> \in ahead}, r, alone)
    BY <2>2 DEF CanStart
  <2>4. r \in S
    BY <1>1, <2>3 DEF Drained
  <2>. QED  BY <1>3, <2>4
<1>. QED  BY <1>2, <1>3

LEMMA NoStuckQueueStep == JInv /\ NoStuckQueue /\ [JobsNext]_jobVars => NoStuckQueue'
<1>. SUFFICES ASSUME JInv, NoStuckQueue, [JobsNext]_jobVars PROVE NoStuckQueue'
  OBVIOUS
<1>1. ASSUME NEW r \in RunIds, Place(r)
      PROVE  NoStuckQueue'
  <2>1. CASE CanStart(admitted, r, oneAtATime \/ leanMode)
    BY <1>1, <2>1 DEF Place, StartAll, NoStuckQueue
  <2>2. CASE ~CanStart(admitted, r, oneAtATime \/ leanMode)
    <3>1. admitted # {} /\ admitted' = admitted
      BY <1>1, <2>2 DEF Place, CanStart
    <3>. QED  BY <3>1 DEF NoStuckQueue
  <2>. QED  BY <2>1, <2>2
<1>2. ASSUME NEW r \in RunIds, onSettled(r)
      PROVE  NoStuckQueue'
  BY <1>2 DEF onSettled, NoStuckQueue
<1>3. ASSUME NEW alone \in BOOLEAN, StartQueued(alone)
      PROVE  NoStuckQueue'
  <2>1. pending' \subseteq pending
    BY <1>3, StartQueuedKeeps
  <2>. QED  BY <1>3, <2>1, DrainStartsOne DEF NoStuckQueue
<1>4. CASE drain
  BY <1>3, <1>4 DEF drain, JInv, JobsTypeOK
<1>5. ASSUME NEW on \in BOOLEAN, setOneRunAtATime(on)
      PROVE  NoStuckQueue'
  <2>1. CASE on
    BY <1>5, <2>1 DEF setOneRunAtATime, NoStuckQueue
  <2>2. CASE ~on
    BY <1>3, <1>5, <2>2 DEF setOneRunAtATime, JInv, JobsTypeOK
  <2>. QED  BY <2>1, <2>2
<1>6. ASSUME pending' \subseteq pending, UNCHANGED <<admitted, draining>>
      PROVE  NoStuckQueue'
  BY <1>6 DEF NoStuckQueue
<1>7. ASSUME NEW S, Unqueue(S)
      PROVE  pending' \subseteq pending
  BY <1>7 DEF Unqueue
<1>8. ASSUME NEW r \in RunIds, CancelQueued(r) \/ DeleteRun(r) \/ DeleteChecked(r)
      PROVE  NoStuckQueue'
  <2>1. pending' \subseteq pending
    BY <1>7, <1>8 DEF CancelQueued, DeleteRun, DeleteChecked
  <2>. QED  BY <1>6, <1>8, <2>1 DEF CancelQueued, DeleteRun, DeleteChecked
<1>9. ASSUME NEW j \in Jobs, NEW way, DeleteAllRuns(j) \/ DeleteJob(j, way)
      PROVE  NoStuckQueue'
  <2>1. pending' \subseteq pending
    BY <1>7, <1>9 DEF DeleteAllRuns, DeleteJob
  <2>. QED  BY <1>6, <1>9, <2>1 DEF DeleteAllRuns, DeleteJob
<1>10. ASSUME NEW r \in RunIds,
              (\E j \in Jobs, from \in RunIds \cup {Null} : Enqueue(r, j, from))
                \/ finalizeRun(r) \/ focusRun(r) \/ CheckRun(r) \/ Create(r)
       PROVE  NoStuckQueue'
  BY <1>6, <1>10 DEF Enqueue, finalizeRun, focusRun, CheckRun, Create, runner
<1>11. ASSUME \/ \E on \in BOOLEAN : setLeanMode(on)
              \/ clearCurrentRun \/ Load \/ Ready \/ UNCHANGED jobVars
              \/ \E w \in writes : Write(w)
       PROVE  NoStuckQueue'
  BY <1>6, <1>11 DEF setLeanMode, clearCurrentRun, Load, Ready, Write, jobVars, runner
<1>12. CASE Forget
  BY <1>12 DEF Forget, NoStuckQueue
<1>. QED  BY <1>1, <1>2, <1>4, <1>5, <1>8, <1>9, <1>10, <1>11, <1>12, StepCases

\* The queue is never left to itself, however many runs there are and however
\* they end: a queued run always has a run going or a drain on its way.
THEOREM QueueNeverStuck == JobsSpec => []NoStuckQueue
<1>1. JobsInit => NoStuckQueue
  BY DEF JobsInit, NoStuckQueue
<1>. QED  BY <1>1, JInvAlways, NoStuckQueueStep, PTL DEF JobsSpec

-----------------------------------------------------------------------------
(* Who goes beside whom. *)

LEMMA BesideSymmetric ==
    ASSUME NEW j, NEW k, Beside(j, k)
    PROVE  Beside(k, j)
BY DEF Beside

\* A run that may start suits every run it is weighed against.
LEMMA CanStartBeside ==
    ASSUME NEW others, NEW r, NEW alone \in BOOLEAN, CanStart(others, r, alone)
    PROVE  \A o \in others : Beside(job[r], job[o])
BY DEF CanStart

\* Of two runs a drain starts, the later one was weighed against the earlier.
LEMMA DrainGoesTogether ==
    ASSUME JInv, GoTogether, NEW alone \in BOOLEAN, StartQueued(alone), job' = job
    PROVE  GoTogether'
<1>1. PICK S \in SUBSET pending : Drained(S, alone) /\ StartAll(S)
  BY StartQueuedKeeps
<1>2. admitted' = admitted \cup S
  BY <1>1 DEF StartAll
<1>3. ASSUME NEW r \in S
      PROVE  \A o \in admitted \cup {q \in S : <<q, r>> \in ahead} : Beside(job[r], job[o])
  <2>1. CanStart(admitted \cup {q \in S : <<q, r>> \in ahead}, r, alone)
    BY <1>1 DEF Drained
  <2>. QED  BY <2>1, CanStartBeside
<1>4. ASSUME NEW q \in S, NEW r \in S, q # r
      PROVE  Beside(job[q], job[r])
  <2>1. <<q, r>> \in ahead \/ <<r, q>> \in ahead
    BY <1>4 DEF JInv, JobsTypeOK
  <2>. QED  BY <1>3, <2>1, BesideSymmetric
<1>5. ASSUME NEW q \in admitted', NEW r \in admitted', q # r
      PROVE  Beside(job[q], job[r])
  <2>1. CASE q \in admitted /\ r \in admitted
    BY <1>5, <2>1 DEF GoTogether
  <2>2. CASE q \in S /\ r \in admitted
    BY <1>3, <2>2
  <2>3. CASE q \in admitted /\ r \in S
    BY <1>3, <2>3, BesideSymmetric
  <2>. QED  BY <1>2, <1>4, <1>5, <2>1, <2>2, <2>3
<1>. QED  BY <1>5 DEF GoTogether

LEMMA GoTogetherStep == JInv /\ GoTogether /\ [JobsNext]_jobVars => GoTogether'
<1>. SUFFICES ASSUME JInv, GoTogether, [JobsNext]_jobVars PROVE GoTogether'
  OBVIOUS
<1>1. ASSUME NEW r \in RunIds, NEW j \in Jobs, NEW from \in RunIds \cup {Null}, Enqueue(r, j, from)
      PROVE  GoTogether'
  <2>1. r \notin admitted /\ admitted' = admitted
    BY <1>1 DEF Enqueue, JInv, Phases
  <2>2. \A q \in admitted : job'[q] = job[q]
    BY <1>1, <2>1 DEF Enqueue, JInv, JobsTypeOK
  <2>. QED  BY <2>1, <2>2 DEF GoTogether
<1>2. ASSUME NEW r \in RunIds, Place(r)
      PROVE  GoTogether'
  <2>1. job' = job
    BY <1>2 DEF Place
  <2>2. CASE CanStart(admitted, r, oneAtATime \/ leanMode)
    <3>1. admitted' = admitted \cup {r}
      BY <1>2, <2>2 DEF Place, StartAll
    <3>2. \A o \in admitted : Beside(job[r], job[o])
      BY <2>2 DEF CanStart
    <3>3. \A o \in admitted : Beside(job[o], job[r])
      BY <3>2, BesideSymmetric
    <3>. QED  BY <2>1, <3>1, <3>2, <3>3 DEF GoTogether
  <2>3. CASE ~CanStart(admitted, r, oneAtATime \/ leanMode)
    BY <1>2, <2>1, <2>3 DEF Place, GoTogether
  <2>. QED  BY <2>2, <2>3
<1>3. ASSUME admitted' \subseteq admitted, job' = job
      PROVE  GoTogether'
  BY <1>3 DEF GoTogether
<1>4. CASE drain
  BY <1>4, DrainGoesTogether DEF drain, JInv, JobsTypeOK
<1>5. ASSUME NEW on \in BOOLEAN, setOneRunAtATime(on)
      PROVE  GoTogether'
  <2>1. CASE on
    BY <1>3, <1>5, <2>1 DEF setOneRunAtATime
  <2>2. CASE ~on
    BY <1>5, <2>2, DrainGoesTogether DEF setOneRunAtATime, JInv, JobsTypeOK
  <2>. QED  BY <2>1, <2>2
<1>6. ASSUME NEW r \in RunIds,
             \/ finalizeRun(r) \/ onSettled(r) \/ focusRun(r) \/ CancelQueued(r)
             \/ DeleteRun(r) \/ CheckRun(r) \/ DeleteChecked(r) \/ Create(r)
      PROVE  GoTogether'
  BY <1>3, <1>6 DEF finalizeRun, onSettled, focusRun, CancelQueued, DeleteRun, CheckRun,
                    DeleteChecked, Create, runner
<1>7. ASSUME \/ \E on \in BOOLEAN : setLeanMode(on)
             \/ \E j \in Jobs : DeleteAllRuns(j)
             \/ \E j \in Jobs, way \in {"jobs.delete", "editor"} : DeleteJob(j, way)
             \/ \E w \in writes : Write(w)
             \/ clearCurrentRun \/ Forget \/ Load \/ Ready \/ UNCHANGED jobVars
      PROVE  GoTogether'
  BY <1>3, <1>7 DEF setLeanMode, DeleteAllRuns, DeleteJob, Write, clearCurrentRun, Forget, Load, Ready,
                    jobVars, runner
<1>. QED  BY <1>1, <1>2, <1>4, <1>5, <1>6, <1>7, StepCases

\* Whichever of enqueue, drain and setOneRunAtATime starts them, two runs that
\* go at the same time never share a job, a folder or the user's attention.
THEOREM RunsGoTogether == JobsSpec => []GoTogether
<1>1. JobsInit => GoTogether
  BY DEF JobsInit, GoTogether
<1>. QED  BY <1>1, JInvAlways, GoTogetherStep, PTL DEF JobsSpec

-----------------------------------------------------------------------------
(* The run view. *)

\* With no run going in the view, none is going.
LEMMA ViewEmpty ==
    ASSUME JInv, RunViewShowsWork, focused \notin runs
    PROVE  getActiveRuns = {}
BY DEF RunViewShowsWork, getCurrentRun

LEMMA RunViewStep == JInv /\ RunViewShowsWork /\ [JobsNext]_jobVars => RunViewShowsWork'
<1>. SUFFICES ASSUME JInv, RunViewShowsWork, [JobsNext]_jobVars PROVE RunViewShowsWork'
  OBVIOUS
<1>0. JInv'
  BY JInvStep
<1>1. ASSUME getActiveRuns' \subseteq getActiveRuns, focused \in runs => focused' \in runs'
      PROVE  RunViewShowsWork'
  BY <1>0, <1>1, ViewEmpty, JobsAssumption DEF RunViewShowsWork, getCurrentRun, JInv, JobsTypeOK
<1>2. ASSUME NEW S, S \subseteq RunIds, StartAll(S)
      PROVE  RunViewShowsWork'
  <2>1. CASE S = {}
    <3>1. getActiveRuns' = getActiveRuns /\ UNCHANGED <<runs, focused>>
      BY <1>2, <2>1, StartAllKeeps DEF getActiveRuns, JInv, JobsTypeOK
    <3>. QED  BY <1>1, <3>1
  <2>2. CASE S # {}
    <3>1. focused' \in runs'
      BY <1>2, <2>2, StartAllKeeps
    <3>. QED  BY <1>0, <3>1, JobsAssumption DEF RunViewShowsWork, getCurrentRun, JInv, JobsTypeOK
  <2>. QED  BY <2>1, <2>2
<1>3. ASSUME NEW alone \in BOOLEAN, StartQueued(alone)
      PROVE  RunViewShowsWork'
  BY <1>2, <1>3, StartQueuedKeeps DEF JInv, JobsTypeOK
<1>4. ASSUME UNCHANGED <<runs, focused>>,
             \A r \in RunIds : phase'[r] = "running" => phase[r] = "running"
      PROVE  RunViewShowsWork'
  BY <1>1, <1>4 DEF getActiveRuns, JInv, JobsTypeOK
<1>5. ASSUME NEW r \in RunIds, NEW j \in Jobs, NEW from \in RunIds \cup {Null}, Enqueue(r, j, from)
      PROVE  RunViewShowsWork'
  BY <1>4, <1>5 DEF Enqueue, JInv, JobsTypeOK
<1>6. ASSUME NEW r \in RunIds, Place(r)
      PROVE  RunViewShowsWork'
  <2>1. CASE CanStart(admitted, r, oneAtATime \/ leanMode)
    BY <1>2, <1>6, <2>1 DEF Place
  <2>2. CASE ~CanStart(admitted, r, oneAtATime \/ leanMode)
    BY <1>4, <1>6, <2>2 DEF Place, JInv, JobsTypeOK
  <2>. QED  BY <2>1, <2>2
<1>7. ASSUME NEW r \in RunIds, finalizeRun(r) \/ Create(r)
      PROVE  RunViewShowsWork'
  BY <1>4, <1>7 DEF finalizeRun, Create, JInv, JobsTypeOK
<1>8. ASSUME NEW r \in RunIds, onSettled(r)
      PROVE  RunViewShowsWork'
  BY <1>1, <1>8 DEF onSettled, getActiveRuns
<1>9. ASSUME NEW r \in RunIds, focusRun(r)
      PROVE  RunViewShowsWork'
  BY <1>1, <1>9 DEF focusRun, getActiveRuns
<1>10. CASE clearCurrentRun
  <2>1. CASE getActiveRuns = {}
    BY <1>10, <2>1, <1>0 DEF clearCurrentRun, getActiveRuns, RunViewShowsWork
  <2>2. CASE getActiveRuns # {}
    <3>1. focused' \in runs'
      BY <1>10, <2>2 DEF clearCurrentRun, getActiveRuns
    <3>. QED  BY <1>0, <3>1, JobsAssumption DEF RunViewShowsWork, getCurrentRun, JInv, JobsTypeOK
  <2>. QED  BY <2>1, <2>2
<1>11. CASE drain
  BY <1>3, <1>11 DEF drain, JInv, JobsTypeOK
<1>12. ASSUME NEW on \in BOOLEAN, setOneRunAtATime(on)
       PROVE  RunViewShowsWork'
  <2>1. CASE on
    BY <1>4, <1>12, <2>1 DEF setOneRunAtATime
  <2>2. CASE ~on
    BY <1>3, <1>12, <2>2 DEF setOneRunAtATime, JInv, JobsTypeOK
  <2>. QED  BY <2>1, <2>2
<1>13. CASE Forget
  BY <1>13 DEF Forget, RunViewShowsWork, getActiveRuns
<1>14. ASSUME NEW r \in RunIds, CancelQueued(r) \/ DeleteRun(r) \/ CheckRun(r) \/ DeleteChecked(r)
       PROVE  RunViewShowsWork'
  BY <1>4, <1>14 DEF CancelQueued, DeleteRun, CheckRun, DeleteChecked, runner
<1>15. ASSUME \/ \E on \in BOOLEAN : setLeanMode(on)
              \/ \E j \in Jobs : DeleteAllRuns(j)
              \/ \E j \in Jobs, way \in {"jobs.delete", "editor"} : DeleteJob(j, way)
              \/ \E w \in writes : Write(w)
              \/ Load \/ Ready \/ UNCHANGED jobVars
       PROVE  RunViewShowsWork'
  BY <1>4, <1>15 DEF setLeanMode, DeleteAllRuns, DeleteJob, Write, Load, Ready, jobVars, runner
<1>. QED  BY <1>5, <1>6, <1>7, <1>8, <1>9, <1>10, <1>11, <1>12, <1>13, <1>14, <1>15, StepCases

\* The run view shows a run whenever one is going, however runs start, settle,
\* are picked and are closed.
THEOREM RunViewAlwaysShowsWork == JobsSpec => []RunViewShowsWork
<1>1. JobsInit => RunViewShowsWork
  BY DEF JobsInit, RunViewShowsWork, getActiveRuns
<1>. QED  BY <1>1, JInvAlways, RunViewStep, PTL DEF JobsSpec

-----------------------------------------------------------------------------
(* The rows. *)

\* A run that is not made yet has no row.
Unmade == \A r \in RunIds : phase[r] = "free" \/ <<"create", r>> \in writes => rows[r] = "none"

LEMMA UnmadeStep == JInv /\ Unmade /\ [JobsNext]_jobVars => Unmade'
<1>. SUFFICES ASSUME JInv, Unmade, [JobsNext]_jobVars PROVE Unmade'
  OBVIOUS
<1>1. ASSUME UNCHANGED rows,
             \A r \in RunIds : phase'[r] = "free" => phase[r] = "free",
             \A r \in RunIds : <<"create", r>> \in writes' => phase[r] = "free" \/ <<"create", r>> \in writes
      PROVE  Unmade'
  BY <1>1 DEF Unmade
<1>2. ASSUME NEW r \in RunIds, NEW j \in Jobs, NEW from \in RunIds \cup {Null}, Enqueue(r, j, from)
      PROVE  Unmade'
  BY <1>1, <1>2 DEF Enqueue, Send, JInv, JobsTypeOK
<1>3. ASSUME NEW S, S \subseteq RunIds, StartAll(S), UNCHANGED rows
      PROVE  Unmade'
  BY <1>1, <1>3, StartAllKeeps DEF JInv, JobsTypeOK
<1>4. ASSUME NEW alone \in BOOLEAN, StartQueued(alone), UNCHANGED rows
      PROVE  Unmade'
  BY <1>3, <1>4, StartQueuedKeeps DEF JInv, JobsTypeOK
<1>5. ASSUME NEW r \in RunIds, Place(r)
      PROVE  Unmade'
  <2>1. CASE CanStart(admitted, r, oneAtATime \/ leanMode)
    BY <1>3, <1>5, <2>1 DEF Place
  <2>2. CASE ~CanStart(admitted, r, oneAtATime \/ leanMode)
    BY <1>1, <1>5, <2>2 DEF Place, JInv, JobsTypeOK
  <2>. QED  BY <2>1, <2>2
<1>6. CASE drain
  BY <1>4, <1>6 DEF drain, JInv, JobsTypeOK
<1>7. ASSUME NEW on \in BOOLEAN, setOneRunAtATime(on)
      PROVE  Unmade'
  <2>1. CASE on
    BY <1>1, <1>7, <2>1 DEF setOneRunAtATime
  <2>2. CASE ~on
    BY <1>4, <1>7, <2>2 DEF setOneRunAtATime, JInv, JobsTypeOK
  <2>. QED  BY <2>1, <2>2
<1>8. ASSUME NEW r \in RunIds, finalizeRun(r)
      PROVE  Unmade'
  BY <1>1, <1>8 DEF finalizeRun, Send, JInv, JobsTypeOK
<1>9. ASSUME NEW r \in RunIds, \/ onSettled(r) \/ focusRun(r) \/ CheckRun(r)
      PROVE  Unmade'
  BY <1>1, <1>9 DEF onSettled, focusRun, CheckRun, database, runner
<1>10. ASSUME NEW r \in RunIds, CancelQueued(r) \/ DeleteRun(r) \/ DeleteChecked(r)
       PROVE  Unmade'
  BY <1>1, <1>10 DEF CancelQueued, DeleteRun, DeleteChecked, Send
<1>11. ASSUME NEW j \in Jobs, NEW way, DeleteAllRuns(j) \/ DeleteJob(j, way)
       PROVE  Unmade'
  BY <1>1, <1>11 DEF DeleteAllRuns, DeleteJob, Send
<1>12. ASSUME NEW r \in RunIds, Create(r)
       PROVE  Unmade'
  <2>1. writes' = writes \ {<<"create", r>>} /\ phase[r] \in {"saving", "lost"}
    BY <1>12 DEF Create, JInv, Phases
  <2>2. phase'[r] # "free" /\ \A q \in RunIds : q # r => phase'[q] = phase[q] /\ rows'[q] = rows[q]
    BY <1>12, <2>1 DEF Create, JInv, JobsTypeOK
  <2>. QED  BY <2>1, <2>2 DEF Unmade
<1>13. ASSUME NEW w \in writes, Write(w)
       PROVE  Unmade'
  <2>1. \A r \in RunIds : rows[r] = "none" => rows'[r] = "none"
    BY <1>13 DEF Write, Written, mark_run_started, mark_run_finished, Deleted, recover_orphan_runs, HasRow
  <2>. QED  BY <1>13, <2>1 DEF Write, runner, Unmade
<1>14. ASSUME Forget, writes' \in {writes, {}}
       PROVE  Unmade'
  BY <1>1, <1>14 DEF Forget
<1>15. CASE Load
  BY <1>1, <1>15 DEF Load, Send, runner
<1>16. ASSUME \/ \E on \in BOOLEAN : setLeanMode(on)
              \/ clearCurrentRun \/ Ready \/ UNCHANGED jobVars
       PROVE  Unmade'
  BY <1>1, <1>16 DEF setLeanMode, clearCurrentRun, Ready, jobVars, runner, database
<1>. QED  BY <1>2, <1>5, <1>6, <1>7, <1>8, <1>9, <1>10, <1>11, <1>12, <1>13, <1>14, <1>15, <1>16,
             StepCases

\* Only the host changes rows.
LEMMA RowsWrittenByHost ==
    ASSUME [JobsNext]_jobVars, rows' # rows
    PROVE  (\E w \in writes : Write(w)) \/ (\E q \in RunIds : Create(q))
BY StepCases DEF Enqueue, Place, finalizeRun, onSettled, drain, setOneRunAtATime, setLeanMode,
     focusRun, clearCurrentRun, CancelQueued, DeleteRun, CheckRun, DeleteChecked, DeleteAllRuns,
     DeleteJob, Forget, Load, Ready, jobVars, database

\* A finished row changes only when it is deleted.
LEMMA FinishedRowKept ==
    ASSUME JInv, Unmade, [JobsNext]_jobVars, NEW r \in RunIds, rows[r] = "finished"
    PROVE  rows'[r] \in {"finished", "deleted"}
<1>1. ASSUME NEW w \in writes, Write(w)
      PROVE  rows'[r] \in {"finished", "deleted"}
  BY <1>1 DEF Write, Written, mark_run_started, mark_run_finished, Deleted, recover_orphan_runs, HasRow
<1>2. ASSUME NEW q \in RunIds, Create(q)
      PROVE  rows'[r] = "finished"
  BY <1>2 DEF Create, Unmade, JInv, JobsTypeOK
<1>3. rows' # rows => (\E w \in writes : Write(w)) \/ (\E q \in RunIds : Create(q))
  BY RowsWrittenByHost
<1>. QED  BY <1>1, <1>2, <1>3

\* A finished run's row stays finished until it is deleted, in whichever order
\* markRunStarted, markRunFinished and the sweep reach the database.
THEOREM FinishedRowsStay == JobsSpec => FinishedStays
<1>1. JobsInit => Unmade
  BY DEF JobsInit, Unmade
<1>2. JInv /\ Unmade /\ [JobsNext]_jobVars
        => [\A r \in RunIds : rows[r] = "finished" => rows'[r] \in {"finished", "deleted"}]_jobVars
  BY FinishedRowKept
<1>. QED  BY <1>1, <1>2, JInvAlways, UnmadeStep, PTL DEF JobsSpec, FinishedStays

-----------------------------------------------------------------------------
(* The lanes. *)


\* Of the runs of S, the ones that stand before r.
Before(S, r) == {q \in S : <<q, r>> \in ahead}

\* A run never stands before itself, and who stands before one that stands
\* before r stands before r.
InOrder ==
    /\ \A r \in pending : <<r, r>> \notin ahead
    /\ \A p, q, r \in pending :
         <<p, q>> \in ahead /\ <<q, r>> \in ahead => <<p, r>> \in ahead

\* A run put before those it goes ahead of, and after the rest, leaves the queue in
\* order.
LEMMA PlacedInOrder ==
    ASSUME JInv, InOrder, NEW r \in RunIds, Place(r)
    PROVE  InOrder'
<1>1. CASE CanStart(admitted, r, oneAtATime \/ leanMode)
  BY <1>1 DEF Place, InOrder
<1>2. CASE ~CanStart(admitted, r, oneAtATime \/ leanMode)
  <2> DEFINE G == GoesAheadOf(r)
  <2>1. /\ pending' = pending \cup {r}
        /\ ahead' = ahead \cup ((pending \ G) \X {r}) \cup ({r} \X G)
    BY <1>2 DEF Place
  <2>2. r \notin pending
    BY DEF Place, JInv, Phases
  <2>3. G \subseteq pending
    BY DEF GoesAheadOf
  <2>4. \A p \in G, q \in pending : <<p, q>> \in ahead => q \in G
    BY DEF GoesAheadOf, InOrder
  <2> HIDE DEF G
  <2>5. \A p, q \in pending :
          /\ <<p, q>> \in ahead' <=> <<p, q>> \in ahead
          /\ <<p, r>> \in ahead' <=> p \notin G
          /\ <<r, q>> \in ahead' <=> q \in G
    BY <2>1, <2>2, <2>3 DEF JInv, JobsTypeOK
  <2>6. <<r, r>> \notin ahead'
    BY <2>1, <2>2, <2>3 DEF JInv, JobsTypeOK
  <2>7. \A p \in pending \ G, q \in G : <<p, q>> \in ahead
    BY <2>3, <2>4 DEF JInv, JobsTypeOK
  <2>8. ASSUME NEW p \in pending', NEW q \in pending', NEW s \in pending',
               <<p, q>> \in ahead', <<q, s>> \in ahead'
        PROVE  <<p, s>> \in ahead'
    <3>1. CASE p = r
      BY <2>1, <2>3, <2>4, <2>5, <2>6, <2>8, <3>1
    <3>2. CASE q = r
      BY <2>1, <2>3, <2>5, <2>6, <2>7, <2>8, <3>2
    <3>3. CASE s = r
      BY <2>1, <2>4, <2>5, <2>6, <2>8, <3>3
    <3>4. CASE p # r /\ q # r /\ s # r
      BY <2>1, <2>5, <2>8, <3>4 DEF InOrder
    <3>. QED  BY <3>1, <3>2, <3>3, <3>4
  <2>. QED  BY <2>1, <2>5, <2>6, <2>8 DEF InOrder
<1>. QED  BY <1>1, <1>2

\* What leaves the queue leaves the order of the rest alone.
LEMMA InOrderStep == JInv /\ InOrder /\ [JobsNext]_jobVars => InOrder'
<1>. SUFFICES ASSUME JInv, InOrder, [JobsNext]_jobVars PROVE InOrder'
  OBVIOUS
<1>1. ASSUME pending' \subseteq pending,
             \A q, r \in pending' : <<q, r>> \in ahead' <=> <<q, r>> \in ahead
      PROVE  InOrder'
  BY <1>1 DEF InOrder
<1>2. ASSUME NEW S, Unqueue(S)
      PROVE  InOrder'
  BY <1>1, <1>2 DEF Unqueue
<1>3. ASSUME NEW alone \in BOOLEAN, StartQueued(alone)
      PROVE  InOrder'
  BY <1>2, <1>3 DEF StartQueued
<1>4. CASE drain
  BY <1>3, <1>4 DEF drain, JInv, JobsTypeOK
<1>5. ASSUME UNCHANGED <<pending, ahead>>
      PROVE  InOrder'
  BY <1>1, <1>5
<1>6. ASSUME NEW on \in BOOLEAN, setOneRunAtATime(on)
      PROVE  InOrder'
  <2>1. CASE on
    BY <1>5, <1>6, <2>1 DEF setOneRunAtATime
  <2>2. CASE ~on
    BY <1>3, <1>6, <2>2 DEF setOneRunAtATime, JInv, JobsTypeOK
  <2>. QED  BY <2>1, <2>2
<1>7. ASSUME NEW r \in RunIds, CancelQueued(r) \/ DeleteRun(r) \/ DeleteChecked(r)
      PROVE  InOrder'
  BY <1>2, <1>5, <1>7 DEF CancelQueued, DeleteRun, DeleteChecked
<1>8. ASSUME NEW j \in Jobs, NEW way, DeleteAllRuns(j) \/ DeleteJob(j, way)
      PROVE  InOrder'
  BY <1>2, <1>5, <1>8 DEF DeleteAllRuns, DeleteJob
<1>9. CASE Forget
  BY <1>9 DEF Forget, InOrder
<1>10. ASSUME \/ \E r \in RunIds, j \in Jobs, from \in RunIds \cup {Null} : Enqueue(r, j, from)
              \/ \E r \in RunIds : \/ finalizeRun(r) \/ onSettled(r) \/ focusRun(r)
                                   \/ CheckRun(r) \/ Create(r)
              \/ \E on \in BOOLEAN : setLeanMode(on)
              \/ \E w \in writes : Write(w)
              \/ clearCurrentRun \/ Load \/ Ready \/ UNCHANGED jobVars
       PROVE  InOrder'
  <2>1. UNCHANGED <<pending, ahead>>
    BY <1>10 DEF Enqueue, finalizeRun, onSettled, focusRun, CheckRun, Create, setLeanMode, Write,
                 clearCurrentRun, Load, Ready, jobVars, runner
  <2>. QED  BY <1>5, <2>1
<1>. QED  BY <1>4, <1>6, <1>7, <1>8, <1>9, <1>10, PlacedInOrder, StepCases

\* Of queued runs there is one that the others stand before.
LEMMA LastOne ==
    ASSUME JInv, InOrder, NEW T \in SUBSET pending, T # {}
    PROVE  \E r \in T : \A q \in T : q # r => <<q, r>> \in ahead
<1> DEFINE rank(r) == Cardinality(Before(T, r))
<1>1. IsFiniteSet(T)
  BY JobsAssumption, FS_Subset DEF JInv, JobsTypeOK
<1>2. \A r \in T : IsFiniteSet(Before(T, r)) /\ rank(r) \in Nat /\ rank(r) <= Cardinality(T)
  BY <1>1, FS_Subset, FS_CardinalityType DEF Before
<1>3. Cardinality(T) \in Nat
  BY <1>1, FS_CardinalityType
<1>4. ASSUME NEW q \in T, NEW r \in T, <<q, r>> \in ahead
      PROVE  rank(q) < rank(r)
  <2>1. q \notin Before(T, q) /\ Before(T, q) \cup {q} \subseteq Before(T, r)
    BY <1>4 DEF Before, InOrder
  <2>2. Cardinality(Before(T, q) \cup {q}) = rank(q) + 1
    BY <1>2, <2>1, FS_AddElement
  <2>3. Cardinality(Before(T, q) \cup {q}) <= rank(r)
    BY <1>2, <2>1, FS_Subset
  <2>. QED  BY <1>2, <2>2, <2>3
<1> DEFINE left == {n \in Nat : \E r \in T : n = Cardinality(T) - rank(r)}
<1> HIDE DEF rank
<1>5. left # {} /\ left \subseteq Nat
  BY <1>2, <1>3
<1>6. PICK n \in left : \A k \in left : ~(<<k, n>> \in OpToRel(<, Nat))
  BY <1>5, NatLessThanWellFounded, WFMin
<1>7. PICK r \in T : n = Cardinality(T) - rank(r)
  BY <1>6
<1>8. ASSUME NEW q \in T, <<r, q>> \in ahead
      PROVE  FALSE
  <2>1. rank(r) < rank(q) BY <1>4, <1>8
  <2>2. Cardinality(T) - rank(q) \in left /\ Cardinality(T) - rank(q) < n
    BY <1>2, <1>3, <1>7, <2>1
  <2>. QED  BY <1>5, <1>6, <2>2 DEF OpToRel
<1>9. \A q \in T : q # r => <<q, r>> \in ahead
  BY <1>8 DEF JInv, JobsTypeOK
<1>. QED  BY <1>9

\* Those a run was weighed against leave it a slot of its lane.
LEMMA WeighedFits ==
    ASSUME NEW others \in SUBSET RunIds, NEW s \in RunIds, job[s] \in Jobs,
           NEW alone \in BOOLEAN, CanStart(others, s, alone),
           NEW L, \A o \in L : o = s \/ (o \in others /\ JobLane[job[o]] = JobLane[job[s]])
    PROVE  Cardinality(L) <= LaneSlots[JobLane[job[s]]]
<1> DEFINE mates == {o \in others : JobLane[job[o]] = JobLane[job[s]]}
<1>1. LaneSlots[JobLane[job[s]]] \in Nat \ {0}
  BY JobsAssumption
<1>2. IsFiniteSet(mates) /\ Cardinality(mates) \in Nat
  BY JobsAssumption, FS_Subset, FS_CardinalityType
<1>3. others = {} \/ Cardinality(mates) < LaneSlots[JobLane[job[s]]]
  BY DEF CanStart
<1>4. others = {} => Cardinality(mates) = 0
  BY FS_EmptySet
<1>5. L \subseteq mates \cup {s}
  OBVIOUS
<1> HIDE DEF mates
<1>6. /\ IsFiniteSet(mates \cup {s})
      /\ Cardinality(mates \cup {s}) \in {Cardinality(mates), Cardinality(mates) + 1}
  BY <1>2, FS_AddElement
<1>7. IsFiniteSet(L) /\ Cardinality(L) <= Cardinality(mates \cup {s})
  BY <1>5, <1>6, FS_Subset
<1>8. Cardinality(L) \in Nat /\ Cardinality(mates \cup {s}) \in Nat
  BY <1>6, <1>7, FS_CardinalityType
<1>9. Cardinality(mates) + 1 <= LaneSlots[JobLane[job[s]]]
  BY <1>1, <1>2, <1>3, <1>4
<1>. QED  BY <1>1, <1>2, <1>6, <1>7, <1>8, <1>9

\* Of the runs of a lane that a drain starts, the last was weighed against the
\* others, and those going before: they all fit.
LEMMA DrainFits ==
    ASSUME JInv, InOrder, LanesWithinSlots, NEW alone \in BOOLEAN, StartQueued(alone), job' = job
    PROVE  LanesWithinSlots'
<1>1. PICK S \in SUBSET pending : Drained(S, alone) /\ StartAll(S)
  BY StartQueuedKeeps
<1>2. admitted' = admitted \cup S
  BY <1>1 DEF StartAll
<1>3. S \subseteq RunIds /\ \A r \in S : job[r] \in Jobs
  BY DEF JInv, JobsTypeOK, Phases
<1>. SUFFICES ASSUME NEW r \in admitted'
              PROVE  Cardinality({o \in admitted' : JobLane[job[o]] = JobLane[job[r]]})
                       <= LaneSlots[JobLane[job[r]]]
  BY DEF LanesWithinSlots
<1> DEFINE T == {q \in S : JobLane[job[q]] = JobLane[job[r]]}
           L == {o \in admitted' : JobLane[job[o]] = JobLane[job[r]]}
<1>4. CASE T = {}
  <2>1. r \in admitted /\ L = {o \in admitted : JobLane[job[o]] = JobLane[job[r]]}
    BY <1>2, <1>4
  <2>. QED  BY <2>1 DEF LanesWithinSlots
<1>5. CASE T # {}
  <2>1. PICK s \in T : \A q \in T : q # s => <<q, s>> \in ahead
    BY <1>5, LastOne
  <2> DEFINE others == admitted \cup {q \in S : <<q, s>> \in ahead}
  <2>2. CanStart(others, s, alone)
    BY <1>1, <2>1 DEF Drained
  <2>3. \A o \in L : o = s \/ (o \in others /\ JobLane[job[o]] = JobLane[job[s]])
    BY <1>2, <2>1
  <2>4. others \in SUBSET RunIds
    BY <1>3 DEF JInv, JobsTypeOK
  <2> HIDE DEF others, L
  <2>5. Cardinality(L) <= LaneSlots[JobLane[job[s]]]
    BY <1>3, <2>1, <2>2, <2>3, <2>4, WeighedFits
  <2>. QED  BY <2>1, <2>5 DEF L
<1>. QED  BY <1>4, <1>5

\* Only a run that starts can fill a lane.
LEMMA LanesStep == JInv /\ InOrder /\ LanesWithinSlots /\ [JobsNext]_jobVars => LanesWithinSlots'
<1>. SUFFICES ASSUME JInv, InOrder, LanesWithinSlots, [JobsNext]_jobVars PROVE LanesWithinSlots'
  OBVIOUS
<1>1. ASSUME admitted' \subseteq admitted, \A q \in admitted : job'[q] = job[q]
      PROVE  LanesWithinSlots'
  <2>. SUFFICES ASSUME NEW r \in admitted'
                PROVE  Cardinality({o \in admitted' : JobLane[job'[o]] = JobLane[job'[r]]})
                         <= LaneSlots[JobLane[job'[r]]]
    BY DEF LanesWithinSlots
  <2> DEFINE Old == {o \in admitted : JobLane[job[o]] = JobLane[job[r]]}
             New == {o \in admitted' : JobLane[job'[o]] = JobLane[job'[r]]}
  <2>1. New \subseteq Old /\ job'[r] = job[r] /\ r \in admitted
    BY <1>1
  <2>2. IsFiniteSet(Old)
    BY JobsAssumption, FS_Subset DEF JInv, JobsTypeOK
  <2>3. Cardinality(Old) <= LaneSlots[JobLane[job[r]]]
    BY <2>1 DEF LanesWithinSlots
  <2>4. LaneSlots[JobLane[job[r]]] \in Nat
    BY <2>1, JobsAssumption DEF JInv, JobsTypeOK, Phases
  <2> HIDE DEF Old, New
  <2>5. IsFiniteSet(New) /\ Cardinality(New) <= Cardinality(Old)
    BY <2>1, <2>2, FS_Subset
  <2>6. Cardinality(New) \in Nat /\ Cardinality(Old) \in Nat
    BY <2>2, <2>5, FS_CardinalityType
  <2>7. Cardinality(New) <= LaneSlots[JobLane[job'[r]]]
    BY <2>1, <2>3, <2>4, <2>5, <2>6
  <2>. QED  BY <2>7 DEF New
<1>2. ASSUME NEW r \in RunIds, NEW j \in Jobs, NEW from \in RunIds \cup {Null}, Enqueue(r, j, from)
      PROVE  LanesWithinSlots'
  <2>1. r \notin admitted /\ admitted' = admitted
    BY <1>2 DEF Enqueue, JInv, Phases
  <2>2. \A q \in admitted : job'[q] = job[q]
    BY <1>2, <2>1 DEF Enqueue, JInv, JobsTypeOK
  <2>. QED  BY <1>1, <2>1, <2>2
<1>3. ASSUME NEW r \in RunIds, Place(r)
      PROVE  LanesWithinSlots'
  <2>1. job' = job /\ job[r] \in Jobs
    BY <1>3 DEF Place, JInv, JobsTypeOK
  <2>2. CASE CanStart(admitted, r, oneAtATime \/ leanMode)
    <3>1. admitted' = admitted \cup {r}
      BY <1>3, <2>2 DEF Place, StartAll
    <3>2. (oneAtATime \/ leanMode) \in BOOLEAN /\ admitted \in SUBSET RunIds
      BY DEF JInv, JobsTypeOK
    <3>. SUFFICES ASSUME NEW q \in admitted'
                  PROVE  Cardinality({o \in admitted' : JobLane[job[o]] = JobLane[job[q]]})
                           <= LaneSlots[JobLane[job[q]]]
      BY <2>1 DEF LanesWithinSlots
    <3> DEFINE L == {o \in admitted' : JobLane[job[o]] = JobLane[job[q]]}
    <3>3. CASE JobLane[job[q]] = JobLane[job[r]]
      <4>1. \A o \in L : o = r \/ (o \in admitted /\ JobLane[job[o]] = JobLane[job[r]])
        BY <3>1, <3>3
      <4> HIDE DEF L
      <4>2. Cardinality(L) <= LaneSlots[JobLane[job[r]]]
        BY <2>1, <2>2, <3>2, <4>1, WeighedFits
      <4>. QED  BY <3>3, <4>2 DEF L
    <3>4. CASE JobLane[job[q]] # JobLane[job[r]]
      <4>1. q \in admitted /\ L = {o \in admitted : JobLane[job[o]] = JobLane[job[q]]}
        BY <3>1, <3>4
      <4>. QED  BY <4>1 DEF LanesWithinSlots
    <3>. QED  BY <3>3, <3>4
  <2>3. CASE ~CanStart(admitted, r, oneAtATime \/ leanMode)
    BY <1>1, <1>3, <2>1, <2>3 DEF Place
  <2>. QED  BY <2>2, <2>3
<1>4. CASE drain
  BY <1>4, DrainFits DEF drain, JInv, JobsTypeOK
<1>5. ASSUME NEW on \in BOOLEAN, setOneRunAtATime(on)
      PROVE  LanesWithinSlots'
  <2>1. CASE on
    BY <1>1, <1>5, <2>1 DEF setOneRunAtATime
  <2>2. CASE ~on
    BY <1>5, <2>2, DrainFits DEF setOneRunAtATime, JInv, JobsTypeOK
  <2>. QED  BY <2>1, <2>2
<1>6. ASSUME \/ \E r \in RunIds : \/ finalizeRun(r) \/ onSettled(r) \/ focusRun(r) \/ CancelQueued(r)
                                  \/ DeleteRun(r) \/ CheckRun(r) \/ DeleteChecked(r) \/ Create(r)
             \/ \E on \in BOOLEAN : setLeanMode(on)
             \/ \E j \in Jobs : DeleteAllRuns(j)
             \/ \E j \in Jobs, way \in {"jobs.delete", "editor"} : DeleteJob(j, way)
             \/ \E w \in writes : Write(w)
             \/ clearCurrentRun \/ Forget \/ Load \/ Ready \/ UNCHANGED jobVars
      PROVE  LanesWithinSlots'
  <2>1. admitted' \subseteq admitted /\ job' = job
    BY <1>6 DEF finalizeRun, onSettled, focusRun, CancelQueued, DeleteRun, CheckRun, DeleteChecked,
                Create, setLeanMode, DeleteAllRuns, DeleteJob, Write, clearCurrentRun, Forget, Load,
                Ready, jobVars, runner
  <2>. QED  BY <1>1, <2>1
<1>. QED  BY <1>2, <1>3, <1>4, <1>5, <1>6, StepCases

\* The runs going at a time never outnumber the slots of their lane, although one
\* drain starts several of the queue.
THEOREM LanesNeverOverfilled == JobsSpec => []LanesWithinSlots
<1>1. JobsInit => InOrder /\ LanesWithinSlots
  BY DEF JobsInit, InOrder, LanesWithinSlots
<1>. QED  BY <1>1, JInvAlways, InOrderStep, LanesStep, PTL DEF JobsSpec

-----------------------------------------------------------------------------
(* What the loop over the queue decides. *)

\* Of queued runs there is one that stands before the others.
LEMMA FirstOne ==
    ASSUME JInv, InOrder, NEW T \in SUBSET pending, T # {}
    PROVE  \E r \in T : \A q \in T : q # r => <<r, q>> \in ahead
<1> DEFINE others(r) == {q \in T : <<r, q>> \notin ahead}
           left == {n \in Nat : \E r \in T : n = Cardinality(others(r))}
<1>1. IsFiniteSet(T)
  BY JobsAssumption, FS_Subset DEF JInv, JobsTypeOK
<1>2. \A r \in T : IsFiniteSet(others(r)) /\ Cardinality(others(r)) \in Nat
  BY <1>1, FS_Subset, FS_CardinalityType
<1>3. left # {} /\ left \subseteq Nat
  BY <1>2
<1>4. PICK n \in left : \A k \in left : ~(<<k, n>> \in OpToRel(<, Nat))
  BY <1>3, NatLessThanWellFounded, WFMin
<1>5. PICK r \in T : n = Cardinality(others(r))
  BY <1>4
\* One that stands before r has fewer it does not stand before.
<1>6. ASSUME NEW q \in T, <<q, r>> \in ahead
      PROVE  FALSE
  <2>1. r \in others(r) /\ r \notin others(q)
    BY <1>6 DEF InOrder
  <2>2. others(q) \subseteq others(r) \ {r}
    <3>1. ASSUME NEW p \in others(q), <<r, p>> \in ahead
          PROVE  FALSE
      BY <1>6, <3>1 DEF InOrder
    <3>. QED  BY <2>1, <3>1
  <2>. HIDE DEF others
  <2>3. IsFiniteSet(others(r) \ {r}) /\ Cardinality(others(r) \ {r}) = n - 1
    BY <1>2, <1>5, <2>1, FS_RemoveElement
  <2>4. Cardinality(others(q)) <= n - 1
    BY <2>2, <2>3, FS_Subset
  <2>5. Cardinality(others(q)) \in left /\ Cardinality(others(q)) < n
    BY <1>2, <1>5, <2>4
  <2>. QED  BY <1>3, <1>4, <2>5 DEF OpToRel
<1>. QED  BY <1>6 DEF JInv, JobsTypeOK

\* Each run of D is weighed against those of S that stand before it.
Weighed(D, S, alone) ==
    \A r \in D : r \in S <=> CanStart(admitted \cup Before(S, r), r, alone)

\* Two results of the loop differ at no first run, hence nowhere.
LEMMA OneResult ==
    ASSUME JInv, InOrder, NEW alone \in BOOLEAN,
           NEW S \in SUBSET pending, NEW T \in SUBSET pending,
           Weighed(pending, S, alone), Weighed(pending, T, alone)
    PROVE  S = T
<1> DEFINE D == (S \ T) \cup (T \ S)
<1>1. SUFFICES ASSUME D # {} PROVE FALSE
  OBVIOUS
<1>2. PICK r \in D : \A q \in D : q # r => <<r, q>> \in ahead
  <2>1. D \in SUBSET pending
    OBVIOUS
  <2>. HIDE DEF D
  <2>. QED  BY <1>1, <2>1, FirstOne
<1>3. Before(S, r) = Before(T, r)
  <2>1. ASSUME NEW q \in D, <<q, r>> \in ahead
        PROVE  FALSE
    BY <1>2, <2>1 DEF InOrder
  <2>. QED  BY <2>1 DEF Before
<1>4. r \in S <=> r \in T
  BY <1>3 DEF Weighed
<1>. QED  BY <1>4

\* The loop has been over the runs of D, the head of the queue, and started S.
FrontOf(D) ==
    /\ D \in SUBSET pending
    /\ \A r \in D : \A q \in pending : <<q, r>> \in ahead => q \in D

LEMMA NextWeighed ==
    ASSUME JInv, InOrder, NEW alone \in BOOLEAN, NEW D, FrontOf(D), D # pending,
           NEW S \in SUBSET D, Weighed(D, S, alone)
    PROVE  \E r \in pending \ D : /\ FrontOf(D \cup {r})
                                  /\ \E T \in SUBSET (D \cup {r}) : Weighed(D \cup {r}, T, alone)
<1>1. PICK r \in pending \ D : \A q \in pending \ D : q # r => <<r, q>> \in ahead
  BY FirstOne DEF FrontOf
<1>2. FrontOf(D \cup {r})
  <2>1. ASSUME NEW q \in pending \ D, <<q, r>> \in ahead
        PROVE  q = r
    BY <1>1, <2>1 DEF InOrder
  <2>. QED  BY <2>1 DEF FrontOf
<1> DEFINE T == IF CanStart(admitted \cup Before(S, r), r, alone) THEN S \cup {r} ELSE S
<1>3. T \in SUBSET (D \cup {r}) /\ \A q \in D : q \in T <=> q \in S
  OBVIOUS
<1>4. Before(T, r) = Before(S, r)
  BY DEF Before, InOrder
<1>5. r \in T <=> CanStart(admitted \cup Before(T, r), r, alone)
  BY <1>4
<1>6. ASSUME NEW q \in D
      PROVE  Before(T, q) = Before(S, q)
  BY DEF Before, FrontOf
<1>. HIDE DEF T
<1>7. Weighed(D \cup {r}, T, alone)
  BY <1>3, <1>5, <1>6 DEF Weighed
<1>. QED  BY <1>2, <1>3, <1>7

\* The loop gets to the end of the queue.
LEMMA SomeResult ==
    ASSUME JInv, InOrder, NEW alone \in BOOLEAN
    PROVE  \E S \in SUBSET pending : Weighed(pending, S, alone)
<1> DEFINE Good(D) == FrontOf(D) /\ \E S \in SUBSET D : Weighed(D, S, alone)
           left == {n \in Nat : \E D \in SUBSET pending : Good(D) /\ n = Cardinality(pending \ D)}
<1>1. IsFiniteSet(pending)
  BY JobsAssumption, FS_Subset DEF JInv, JobsTypeOK
<1>2. \A D : IsFiniteSet(pending \ D) /\ Cardinality(pending \ D) \in Nat
  BY <1>1, FS_Subset, FS_CardinalityType
<1>3. Good({})
  BY DEF FrontOf, Weighed
<1>. HIDE DEF Good
<1>4. left # {} /\ left \subseteq Nat
  BY <1>2, <1>3
<1>5. PICK n \in left : \A k \in left : ~(<<k, n>> \in OpToRel(<, Nat))
  BY <1>4, NatLessThanWellFounded, WFMin
<1>6. PICK D \in SUBSET pending : Good(D) /\ n = Cardinality(pending \ D)
  BY <1>5
<1>7. D = pending
  <2>1. SUFFICES ASSUME D # pending PROVE FALSE
    OBVIOUS
  <2>2. PICK r \in pending \ D : Good(D \cup {r})
    BY <1>6, <2>1, NextWeighed DEF Good
  <2>3. Cardinality((pending \ D) \ {r}) = n - 1
    BY <1>2, <1>6, FS_RemoveElement
  <2>4. (pending \ D) \ {r} = pending \ (D \cup {r}) /\ D \cup {r} \in SUBSET pending
    OBVIOUS
  <2>5. n - 1 \in left
    <3>1. n - 1 = Cardinality(pending \ (D \cup {r}))
      BY <2>3, <2>4
    <3>. QED  BY <1>2, <2>2, <2>4, <3>1
  <2>. HIDE DEF left
  <2>6. n - 1 < n
    BY <1>4
  <2>. QED  BY <1>4, <1>5, <2>5, <2>6 DEF OpToRel
<1>. QED  BY <1>6, <1>7 DEF Good

\* drain's loop starts one set of queued runs: the equation that stands for it
\* has a solution in every state, and no second one.
DrainDecides ==
    \A alone \in BOOLEAN :
        \E S \in SUBSET pending :
            /\ Drained(S, alone)
            /\ \A T \in SUBSET pending : Drained(T, alone) => T = S

\* drain, and turning One run at a time off, can always be carried out, and what
\* they start is settled by the queue, its order and the runs going.
THEOREM DrainIsDecided == JobsSpec => []DrainDecides
<1>1. JobsInit => InOrder
  BY DEF JobsInit, InOrder
<1>2. ASSUME NEW S, NEW alone
      PROVE  Drained(S, alone) <=> Weighed(pending, S, alone)
  BY DEF Drained, Weighed, Before
<1>3. JInv /\ InOrder => DrainDecides
  BY <1>2, OneResult, SomeResult DEF DrainDecides
<1>. QED  BY <1>1, <1>3, JInvAlways, InOrderStep, PTL DEF JobsSpec

-----------------------------------------------------------------------------
(* No run waits without a reason. *)

\* While no drain is on its way, each queued run is held back by the runs going.
WaitsForReason == ~draining => \A r \in pending : ~CanStart(admitted, r, oneAtATime \/ leanMode)

\* What may start beside many may start beside some of them.
LEMMA CanStartFewer ==
    ASSUME NEW more \in SUBSET RunIds, NEW others \in SUBSET more, NEW r,
           LaneSlots[JobLane[job[r]]] \in Nat, NEW alone, NEW any, any => alone,
           CanStart(more, r, alone)
    PROVE  CanStart(others, r, any)
<1> DEFINE mates(S) == {o \in S : JobLane[job[o]] = JobLane[job[r]]}
<1>1. CASE more = {}
  BY <1>1 DEF CanStart
<1>2. CASE more # {}
  <2>1. ~alone /\ (\A o \in more : Beside(job[r], job[o]))
        /\ Cardinality(mates(more)) < LaneSlots[JobLane[job[r]]]
    BY <1>2 DEF CanStart
  <2>2. IsFiniteSet(mates(more)) /\ mates(others) \subseteq mates(more)
    BY JobsAssumption, FS_Subset
  <2>3. /\ Cardinality(mates(others)) \in Nat /\ Cardinality(mates(more)) \in Nat
        /\ Cardinality(mates(others)) <= Cardinality(mates(more))
    BY <2>2, FS_Subset, FS_CardinalityType
  <2>4. Cardinality(mates(others)) < LaneSlots[JobLane[job[r]]]
    BY <2>1, <2>3
  <2>. QED  BY <2>1, <2>4 DEF CanStart
<1>. QED  BY <1>1, <1>2

\* A drain leaves no run in the queue that could start.
LEMMA DrainLeavesNone ==
    ASSUME JInv, NEW alone \in BOOLEAN, StartQueued(alone)
    PROVE  /\ admitted' \in SUBSET RunIds /\ pending' \subseteq pending
           /\ \A r \in pending' : ~CanStart(admitted', r, alone)
<1>1. PICK S \in SUBSET pending :
        /\ Drained(S, alone) /\ admitted' = admitted \cup S /\ pending' = pending \ S
  BY DEF StartQueued, StartAll, Unqueue
<1>2. admitted' \in SUBSET RunIds
  BY <1>1 DEF JInv, JobsTypeOK
<1>3. ASSUME NEW r \in pending', CanStart(admitted', r, alone)
      PROVE  FALSE
  <2>1. ~CanStart(admitted \cup {q \in S : <<q, r>> \in ahead}, r, alone)
    BY <1>1 DEF Drained
  <2>2. admitted \cup {q \in S : <<q, r>> \in ahead} \in SUBSET admitted'
    BY <1>1
  <2>3. LaneSlots[JobLane[job[r]]] \in Nat
    BY <1>1, JobsAssumption DEF JInv, JobsTypeOK, Phases
  <2>. QED  BY <1>2, <1>3, <2>1, <2>2, <2>3, CanStartFewer
<1>. QED  BY <1>1, <1>2, <1>3

LEMMA WaitsStep ==
    ASSUME "leanMode" \notin Settings
    PROVE  JInv /\ WaitsForReason /\ [JobsNext]_jobVars => WaitsForReason'
<1>. SUFFICES ASSUME JInv, WaitsForReason, [JobsNext]_jobVars, ~draining',
                     NEW r \in pending', CanStart(admitted, r, oneAtATime \/ leanMode)'
              PROVE  FALSE
  BY DEF WaitsForReason
<1> DEFINE alone == oneAtATime \/ leanMode
<1>0. /\ admitted' \in SUBSET RunIds /\ r \in RunIds
      /\ \A q \in pending \cup admitted : q \in RunIds /\ phase[q] # "free" /\ LaneSlots[JobLane[job[q]]] \in Nat
  BY JInvStep, JobsAssumption DEF JInv, JobsTypeOK, Phases
\* Steps after which there are no more queued and no fewer going.
<1>1. ASSUME draining' = draining, r \in pending, admitted \subseteq admitted', job' = job,
             alone => alone'
      PROVE  FALSE
  <2>1. CanStart(admitted', r, alone')
    BY <1>1 DEF CanStart
  <2>2. LaneSlots[JobLane[job[r]]] \in Nat
    BY <1>0, <1>1
  <2>3. CanStart(admitted, r, alone)
    BY <1>0, <1>1, <2>1, <2>2, CanStartFewer
  <2>. QED  BY <1>1, <2>3 DEF WaitsForReason
<1>2. ASSUME NEW q \in RunIds, NEW j \in Jobs, NEW from \in RunIds \cup {Null}, Enqueue(q, j, from)
      PROVE  FALSE
  <2>1. /\ job' = [job EXCEPT ![q] = j] /\ phase[q] = "free"
        /\ UNCHANGED <<draining, pending, admitted, oneAtATime, leanMode>>
    BY <1>2 DEF Enqueue, settings
  <2>2. job'[r] = job[r] /\ \A o \in admitted : job'[o] = job[o]
    BY <1>0, <2>1 DEF JInv, JobsTypeOK
  <2>3. {o \in admitted : JobLane[job'[o]] = JobLane[job'[r]]}
          = {o \in admitted : JobLane[job[o]] = JobLane[job[r]]}
    BY <2>2
  <2>4. CanStart(admitted, r, alone)
    BY <2>1, <2>2, <2>3 DEF CanStart
  <2>. QED  BY <2>1, <2>4 DEF WaitsForReason
<1>3. ASSUME NEW any \in BOOLEAN, StartQueued(any), job' = job, any => alone'
      PROVE  FALSE
  <2>1. CanStart(admitted', r, alone')
    BY <1>3 DEF CanStart
  <2>2. r \in pending /\ ~CanStart(admitted', r, any)
    BY <1>3, DrainLeavesNone
  <2>3. LaneSlots[JobLane[job[r]]] \in Nat
    BY <1>0, <2>2
  <2>. QED  BY <1>0, <1>3, <2>1, <2>2, <2>3, CanStartFewer
<1>4. CASE drain
  <2>1. StartQueued(alone) /\ alone \in BOOLEAN /\ job' = job /\ alone' = alone
    BY <1>4 DEF drain, settings, JInv, JobsTypeOK
  <2>. HIDE DEF alone
  <2>. QED  BY <1>3, <2>1
<1>5. ASSUME NEW on \in BOOLEAN, setOneRunAtATime(on)
      PROVE  FALSE
  <2>1. job' = job /\ draining' = draining /\ oneAtATime' = on /\ leanMode' = leanMode
    BY <1>5 DEF setOneRunAtATime
  <2>2. CASE on
    BY <1>1, <1>5, <2>1, <2>2 DEF setOneRunAtATime
  <2>3. CASE ~on
    <3>1. StartQueued(leanMode) /\ leanMode \in BOOLEAN /\ (leanMode => alone')
      BY <1>5, <2>1, <2>3 DEF setOneRunAtATime, JInv, JobsTypeOK
    <3>. HIDE DEF alone
    <3>. QED  BY <1>3, <2>1, <3>1
  <2>. QED  BY <2>2, <2>3
<1>6. ASSUME NEW q \in RunIds, Place(q)
      PROVE  FALSE
  <2>1. job' = job /\ draining' = draining /\ alone' = alone
    BY <1>6 DEF Place, settings
  <2>2. CASE CanStart(admitted, q, alone)
    <3>1. pending' = pending /\ admitted' = admitted \cup {q}
      BY <1>6, <2>2 DEF Place, StartAll
    <3>. QED  BY <1>1, <2>1, <3>1
  <2>3. CASE ~CanStart(admitted, q, alone)
    <3>1. pending' = pending \cup {q} /\ admitted' = admitted
      BY <1>6, <2>3 DEF Place
    <3>2. CASE r = q
      BY <2>1, <2>3, <3>1, <3>2 DEF CanStart
    <3>3. CASE r # q
      BY <1>1, <2>1, <3>1, <3>3
    <3>. QED  BY <3>2, <3>3
  <2>. QED  BY <2>2, <2>3
<1>7. ASSUME NEW q \in RunIds, onSettled(q)
      PROVE  FALSE
  BY <1>7 DEF onSettled
<1>8. ASSUME \/ \E q \in RunIds : \/ finalizeRun(q) \/ focusRun(q) \/ CancelQueued(q) \/ DeleteRun(q)
                                  \/ CheckRun(q) \/ DeleteChecked(q) \/ Create(q)
             \/ \E j \in Jobs : DeleteAllRuns(j)
             \/ \E j \in Jobs, way \in {"jobs.delete", "editor"} : DeleteJob(j, way)
             \/ \E w \in writes : Write(w)
             \/ clearCurrentRun \/ Load \/ Ready \/ UNCHANGED jobVars
      PROVE  FALSE
  <2>1. pending' \subseteq pending
    BY <1>8 DEF finalizeRun, focusRun, CancelQueued, DeleteRun, CheckRun, DeleteChecked, Create,
                DeleteAllRuns, DeleteJob, Write, clearCurrentRun, Load, Ready, jobVars, runner, Unqueue
  <2>2. UNCHANGED <<job, draining, admitted, oneAtATime, leanMode>>
    BY <1>8 DEF finalizeRun, focusRun, CancelQueued, DeleteRun, CheckRun, DeleteChecked, Create,
                DeleteAllRuns, DeleteJob, Write, clearCurrentRun, Load, Ready, jobVars, runner, settings
  <2>. QED  BY <1>1, <2>1, <2>2
<1>9. ASSUME Forget
      PROVE  FALSE
  BY <1>9 DEF Forget
<1>10. ASSUME NEW on \in BOOLEAN, setLeanMode(on)
       PROVE  FALSE
  BY <1>10 DEF setLeanMode
<1>. QED  BY <1>2, <1>4, <1>5, <1>6, <1>7, <1>8, <1>9, <1>10, StepCases

\* Whoever is enqueued, settles, is cancelled or deleted, a queued run is never
\* left waiting for runs it could go beside.  Lean mode is not switched: turning
\* it off drains nothing, and what it held back waits for the next run to settle.
THEOREM QueueWaitsForReason ==
    ASSUME "leanMode" \notin Settings
    PROVE  JobsSpec => []WaitsForReason
<1>1. JobsInit => WaitsForReason
  BY DEF JobsInit, WaitsForReason
<1>. QED  BY <1>1, JInvAlways, WaitsStep, PTL DEF JobsSpec

-----------------------------------------------------------------------------
(* Deleted runs. *)


\* Runs are deleted one at a time: from the history, or by runs.delete.
OwnDeletes == Deleters \subseteq {"run", "runs.delete"}

\* A run that is deleted, or looked at in order to be, was placed before, and a
\* deleted one has left the queue.
Deletion ==
    /\ \A r \in RunIds :
         rows[r] = "deleted" \/ <<"delete", r>> \in writes \/ checked = r
           => phase[r] \notin {"free", "saving", "saved"}
    /\ \A r \in RunIds : rows[r] = "deleted" \/ <<"delete", r>> \in writes => r \notin pending
    /\ \A w \in writes : w[1] \notin {"clear", "deleteJob"}

\* A run is deleted only after it was placed, and not while it is queued.
LEMMA DeletionStep ==
    ASSUME OwnDeletes
    PROVE  JInv /\ Deletion /\ [JobsNext]_jobVars => Deletion'
<1>. SUFFICES ASSUME JInv, Deletion, [JobsNext]_jobVars PROVE Deletion'
  OBVIOUS
\* Steps that delete nothing.
<1>1. ASSUME \A w \in writes' : w \in writes \/ w[1] \notin {"delete", "clear", "deleteJob"},
             \A r \in RunIds : rows'[r] = "deleted" => rows[r] = "deleted",
             checked' \in {checked, Null},
             \A r \in RunIds : phase'[r] \in {"free", "saving", "saved"}
                                 => phase[r] \in {"free", "saving", "saved"},
             \A r \in pending' : r \in pending \/ phase[r] \in {"free", "saving", "saved"}
      PROVE  Deletion'
  BY <1>1, JobsAssumption DEF Deletion, JInv, JobsTypeOK
<1>2. ASSUME NEW r \in RunIds, NEW j \in Jobs, NEW from \in RunIds \cup {Null}, Enqueue(r, j, from)
      PROVE  Deletion'
  <2>1. \A q \in RunIds : phase'[q] \in {"free", "saving", "saved"}
                            => phase[q] \in {"free", "saving", "saved"}
    BY <1>2 DEF Enqueue, JInv, JobsTypeOK
  <2>2. /\ writes' = writes \cup {<<"create", r>>}
        /\ UNCHANGED <<rows, checked, pending>>
    BY <1>2 DEF Enqueue, Send
  <2>. QED  BY <1>1, <2>1, <2>2
<1>3. ASSUME NEW S, S \subseteq RunIds, StartAll(S), UNCHANGED <<rows, checked>>, pending' \subseteq pending
      PROVE  Deletion'
  <2>1. \A q \in RunIds : phase'[q] \in {"free", "saving", "saved"}
                            => phase[q] \in {"free", "saving", "saved"}
    BY <1>3, StartAllKeeps
  <2>2. writes' = writes \cup {<<"started", r>> : r \in S}
    BY <1>3 DEF StartAll, Send
  <2>. QED  BY <1>1, <1>3, <2>1, <2>2
<1>4. ASSUME NEW alone \in BOOLEAN, StartQueued(alone), UNCHANGED <<rows, checked>>
      PROVE  Deletion'
  <2>1. PICK S \in SUBSET pending : StartAll(S) /\ pending' = pending \ S
    BY <1>4, StartQueuedKeeps
  <2>. QED  BY <1>3, <1>4, <2>1 DEF JInv, JobsTypeOK
<1>5. ASSUME NEW r \in RunIds, Place(r)
      PROVE  Deletion'
  <2>1. CASE CanStart(admitted, r, oneAtATime \/ leanMode)
    BY <1>3, <1>5, <2>1 DEF Place
  <2>2. CASE ~CanStart(admitted, r, oneAtATime \/ leanMode)
    <3>1. /\ phase' = [phase EXCEPT ![r] = "placed"] /\ phase[r] = "saved"
          /\ pending' = pending \cup {r} /\ UNCHANGED <<writes, rows, checked>>
      BY <1>5, <2>2 DEF Place
    <3>2. \A q \in RunIds : phase'[q] \in {"free", "saving", "saved"}
                              => phase[q] \in {"free", "saving", "saved"}
      BY <3>1 DEF JInv, JobsTypeOK
    <3>. QED  BY <1>1, <3>1, <3>2
  <2>. QED  BY <2>1, <2>2
<1>6. CASE drain
  BY <1>4, <1>6 DEF drain, JInv, JobsTypeOK
<1>7. ASSUME NEW on \in BOOLEAN, setOneRunAtATime(on)
      PROVE  Deletion'
  <2>1. CASE on
    BY <1>7, <2>1 DEF setOneRunAtATime, Deletion
  <2>2. CASE ~on
    BY <1>4, <1>7, <2>2 DEF setOneRunAtATime, JInv, JobsTypeOK
  <2>. QED  BY <2>1, <2>2
<1>8. ASSUME NEW r \in RunIds, finalizeRun(r) \/ CancelQueued(r)
      PROVE  Deletion'
  <2>1. /\ writes' = writes \cup {<<"finished", r>>}
        /\ UNCHANGED <<rows, checked>> /\ pending' \subseteq pending
    BY <1>8 DEF finalizeRun, CancelQueued, Unqueue, Send
  <2>2. \A q \in RunIds : phase'[q] \in {"free", "saving", "saved"}
                            => phase[q] \in {"free", "saving", "saved"}
    BY <1>8 DEF finalizeRun, CancelQueued, JInv, JobsTypeOK
  <2>. QED  BY <1>1, <2>1, <2>2
\* A run is deleted.
<1>9. ASSUME NEW r \in RunIds, phase[r] \notin {"free", "saving", "saved"},
             writes' \subseteq writes \cup {<<"delete", r>>}, r \notin pending', pending' \subseteq pending,
             UNCHANGED <<rows, phase>>, checked' \in {checked, Null}
      PROVE  Deletion'
  BY <1>9, JobsAssumption DEF Deletion, JInv, JobsTypeOK
<1>10. ASSUME NEW r \in RunIds, DeleteRun(r)
       PROVE  Deletion'
  BY <1>9, <1>10 DEF DeleteRun, Unqueue, Send
<1>11. ASSUME NEW r \in RunIds, DeleteChecked(r)
       PROVE  Deletion'
  <2>1. phase[r] \notin {"free", "saving", "saved"}
    BY <1>11 DEF DeleteChecked, Deletion
  <2>2. CASE HasRow(r)
    BY <1>9, <1>11, <2>1, <2>2 DEF DeleteChecked, Unqueue, Send
  <2>3. CASE ~HasRow(r)
    BY <1>11, <2>3, JobsAssumption DEF DeleteChecked, Deletion
  <2>. QED  BY <2>2, <2>3
<1>12. ASSUME NEW r \in RunIds, CheckRun(r)
       PROVE  Deletion'
  BY <1>12 DEF CheckRun, Deletion, runner, database
<1>13. ASSUME NEW j \in Jobs, NEW way \in {"jobs.delete", "editor"}, DeleteAllRuns(j) \/ DeleteJob(j, way)
       PROVE  FALSE
  BY <1>13 DEF DeleteAllRuns, DeleteJob, OwnDeletes
<1>14. ASSUME NEW r \in RunIds, Create(r)
       PROVE  Deletion'
  <2>1. /\ phase[r] \in {"saving", "lost"} /\ writes' \subseteq writes
        /\ UNCHANGED <<checked, pending>>
    BY <1>14 DEF Create, JInv, Phases
  <2>2. \A q \in RunIds : /\ rows'[q] = "deleted" => rows[q] = "deleted"
                          /\ phase'[q] \in {"free", "saving", "saved"}
                               => phase[q] \in {"free", "saving", "saved"}
    BY <1>14, <2>1 DEF Create, JInv, JobsTypeOK
  <2>. QED  BY <1>1, <2>1, <2>2
<1>15. ASSUME NEW w \in writes, Write(w)
       PROVE  Deletion'
  <2>1. \A r \in RunIds : rows'[r] = "deleted" => rows[r] = "deleted" \/ w = <<"delete", r>>
    BY <1>15 DEF Write, Written, mark_run_started, mark_run_finished, Deleted, recover_orphan_runs,
                 HasRow, Deletion
  <2>2. writes' \subseteq writes /\ UNCHANGED <<phase, pending, checked>>
    BY <1>15 DEF Write, runner
  <2>. QED  BY <2>1, <2>2 DEF Deletion
<1>16. ASSUME Forget, writes' \in {writes, {}}
       PROVE  Deletion'
  <2>1. \A q \in RunIds : phase'[q] \in {"free", "saving", "saved"} => phase[q] = "free"
    BY <1>16 DEF Forget
  <2>. QED  BY <1>1, <1>16, <2>1 DEF Forget
<1>17. CASE Load
  <2>1. writes' = writes \cup {<<"sweep", Null>>} /\ UNCHANGED <<rows, checked, phase, pending>>
    BY <1>17 DEF Load, Send, runner
  <2>. QED  BY <1>1, <2>1
<1>18. ASSUME \/ \E r \in RunIds : onSettled(r) \/ focusRun(r)
              \/ \E on \in BOOLEAN : setLeanMode(on)
              \/ clearCurrentRun \/ Ready \/ UNCHANGED jobVars
       PROVE  Deletion'
  <2>1. UNCHANGED <<rows, writes, checked, phase, pending>>
    BY <1>18 DEF onSettled, focusRun, setLeanMode, clearCurrentRun, Ready, jobVars, runner, database
  <2>. QED  BY <2>1 DEF Deletion
<1>. QED  BY <1>2, <1>5, <1>6, <1>7, <1>8, <1>10, <1>11, <1>12, <1>13, <1>14, <1>15, <1>16, <1>17,
             <1>18, StepCases

\* What starts was queued or has just been saved.
LEMMA WhoStarts ==
    ASSUME JInv, [JobsNext]_jobVars, NEW r \in admitted' \ admitted
    PROVE  r \in pending \/ phase[r] = "saved"
<1>1. ASSUME NEW alone \in BOOLEAN, StartQueued(alone)
      PROVE  r \in pending
  BY <1>1 DEF StartQueued, StartAll
<1>2. CASE drain
  BY <1>1, <1>2 DEF drain, JInv, JobsTypeOK
<1>3. ASSUME NEW on \in BOOLEAN, setOneRunAtATime(on)
      PROVE  r \in pending
  <2>1. ~on
    BY <1>3 DEF setOneRunAtATime
  <2>. QED  BY <1>1, <1>3, <2>1 DEF setOneRunAtATime, JInv, JobsTypeOK
<1>4. ASSUME NEW q \in RunIds, Place(q)
      PROVE  phase[r] = "saved"
  BY <1>4 DEF Place, StartAll
<1>5. ASSUME \/ \E q \in RunIds, j \in Jobs, from \in RunIds \cup {Null} : Enqueue(q, j, from)
             \/ \E q \in RunIds : \/ finalizeRun(q) \/ onSettled(q) \/ focusRun(q) \/ CancelQueued(q)
                                  \/ DeleteRun(q) \/ CheckRun(q) \/ DeleteChecked(q) \/ Create(q)
             \/ \E on \in BOOLEAN : setLeanMode(on)
             \/ \E j \in Jobs : DeleteAllRuns(j)
             \/ \E j \in Jobs, way \in {"jobs.delete", "editor"} : DeleteJob(j, way)
             \/ \E w \in writes : Write(w)
             \/ clearCurrentRun \/ Forget \/ Load \/ Ready \/ UNCHANGED jobVars
      PROVE  FALSE
  <2>1. admitted' \subseteq admitted
    BY <1>5 DEF Enqueue, finalizeRun, onSettled, focusRun, CancelQueued, DeleteRun, CheckRun,
                DeleteChecked, Create, setLeanMode, DeleteAllRuns, DeleteJob, Write, clearCurrentRun,
                Forget, Load, Ready, jobVars, runner
  <2>. QED  BY <2>1
<1>. QED  BY <1>2, <1>3, <1>4, <1>5, StepCases

\* A run that is deleted from the history or by runs.delete never starts, in
\* whichever order the deletion, the drain and the database commands run.  Clear
\* all and the deletion of a job, which empty the queue of a job while an enqueue
\* of it may be on its way, are excluded (OwnDeletes).
THEOREM DeletedRunsNeverStart == ASSUME OwnDeletes PROVE JobsSpec => DeletedNeverStarts
<1>1. JobsInit => Deletion
  BY JobsAssumption DEF JobsInit, Deletion
<1>2. JInv /\ Deletion /\ [JobsNext]_jobVars
        => [\A r \in admitted' \ admitted : rows[r] # "deleted" /\ <<"delete", r>> \notin writes]_jobVars
  <2>. SUFFICES ASSUME JInv, Deletion, [JobsNext]_jobVars, NEW r \in admitted' \ admitted
                PROVE  rows[r] # "deleted" /\ <<"delete", r>> \notin writes
    OBVIOUS
  <2>1. r \in pending \/ phase[r] = "saved"
    BY WhoStarts
  <2>2. r \in RunIds
    BY JInvStep DEF JInv, JobsTypeOK
  <2>. QED  BY <2>1, <2>2 DEF Deletion
<1>. QED  BY <1>1, <1>2, JInvAlways, DeletionStep, PTL DEF JobsSpec, DeletedNeverStarts

-----------------------------------------------------------------------------
(* The sweep. *)

\* Until the sweep is over nothing of this page load has been enqueued.
Startup ==
    /\ startup # "ready" => \A r \in RunIds : phase[r] \in {"free", "lost"}
    /\ <<"sweep", Null>> \in writes => startup # "ready"

\* Runs are enqueued, and nothing is done to them, once the sweep is over.
LEMMA StartupStep ==
    ASSUME ~EarlyUser
    PROVE  JInv /\ Startup /\ [JobsNext]_jobVars => Startup'
<1>. SUFFICES ASSUME JInv, Startup, [JobsNext]_jobVars PROVE Startup'
  OBVIOUS
\* Steps of a page that is not loading, and of the host.
<1>1. ASSUME startup' = startup, <<"sweep", Null>> \in writes' => <<"sweep", Null>> \in writes,
             startup = "ready" \/ \A r \in RunIds : phase'[r] = phase[r]
      PROVE  Startup'
  BY <1>1 DEF Startup
<1>2. ASSUME NEW r \in RunIds, phase[r] \notin {"free", "lost"}
      PROVE  startup = "ready" /\ <<"sweep", Null>> \notin writes
  BY <1>2 DEF Startup
<1>3. ASSUME NEW r \in RunIds, NEW j \in Jobs, NEW from \in RunIds \cup {Null}, Enqueue(r, j, from),
             startup = "ready"
      PROVE  Startup'
  BY <1>1, <1>3 DEF Enqueue, Send
<1>4. ASSUME NEW S, S \subseteq RunIds, StartAll(S), UNCHANGED startup, S = {} \/ startup = "ready"
      PROVE  Startup'
  <2>1. writes' = writes \cup {<<"started", r>> : r \in S}
    BY <1>4 DEF StartAll, Send
  <2>2. S = {} => \A r \in RunIds : phase'[r] = phase[r]
    BY <1>4, StartAllKeeps
  <2>. QED  BY <1>1, <1>4, <2>1, <2>2
<1>5. ASSUME NEW alone \in BOOLEAN, StartQueued(alone), UNCHANGED startup
      PROVE  Startup'
  <2>1. PICK S \in SUBSET pending : StartAll(S)
    BY <1>5 DEF StartQueued
  <2>2. S = {} \/ startup = "ready"
    BY <1>2 DEF JInv, JobsTypeOK, Phases
  <2>. QED  BY <1>4, <1>5, <2>1, <2>2 DEF JInv, JobsTypeOK
<1>6. CASE drain
  BY <1>5, <1>6 DEF drain, JInv, JobsTypeOK
<1>7. ASSUME NEW on \in BOOLEAN, setOneRunAtATime(on)
      PROVE  Startup'
  <2>1. CASE on
    BY <1>1, <1>7, <2>1 DEF setOneRunAtATime
  <2>2. CASE ~on
    BY <1>5, <1>7, <2>2 DEF setOneRunAtATime, JInv, JobsTypeOK
  <2>. QED  BY <2>1, <2>2
<1>8. ASSUME NEW r \in RunIds, Place(r)
      PROVE  Startup'
  <2>1. startup = "ready" /\ startup' = startup
    BY <1>2, <1>8 DEF Place
  <2>2. CASE CanStart(admitted, r, oneAtATime \/ leanMode)
    BY <1>4, <1>8, <2>1, <2>2 DEF Place
  <2>3. CASE ~CanStart(admitted, r, oneAtATime \/ leanMode)
    BY <1>1, <1>8, <2>1, <2>3 DEF Place
  <2>. QED  BY <2>2, <2>3
<1>9. ASSUME NEW r \in RunIds, Create(r)
      PROVE  Startup'
  <2>1. writes' \subseteq writes /\ startup' = startup
    BY <1>9 DEF Create
  <2>2. CASE phase[r] = "saving"
    BY <1>1, <1>2, <2>1, <2>2
  <2>3. CASE phase[r] = "lost"
    <3>1. \A q \in RunIds : phase'[q] = phase[q]
      BY <1>9, <2>3 DEF Create, JInv, JobsTypeOK
    <3>. QED  BY <1>1, <2>1, <3>1
  <2>. QED  BY <1>9, <2>2, <2>3 DEF Create, JInv, Phases
<1>10. ASSUME NEW r \in RunIds, finalizeRun(r)
       PROVE  Startup'
  <2>1. startup = "ready" /\ startup' = startup /\ writes' = writes \cup {<<"finished", r>>}
    BY <1>2, <1>10 DEF finalizeRun, Send
  <2>. QED  BY <1>1, <2>1
<1>11. ASSUME NEW r \in RunIds,
              \/ onSettled(r) \/ focusRun(r) \/ CancelQueued(r) \/ DeleteRun(r)
              \/ CheckRun(r) \/ DeleteChecked(r)
       PROVE  Startup'
  BY <1>1, <1>11 DEF onSettled, focusRun, CancelQueued, DeleteRun, CheckRun, DeleteChecked, Send,
                     runner, database
<1>12. ASSUME NEW j \in Jobs, NEW way, DeleteAllRuns(j) \/ DeleteJob(j, way)
       PROVE  Startup'
  BY <1>1, <1>12 DEF DeleteAllRuns, DeleteJob, Send
<1>13. ASSUME \/ \E on \in BOOLEAN : setLeanMode(on)
              \/ clearCurrentRun \/ UNCHANGED jobVars
       PROVE  Startup'
  BY <1>1, <1>13 DEF setLeanMode, clearCurrentRun, jobVars, runner, database
<1>14. ASSUME NEW w \in writes, Write(w)
       PROVE  Startup'
  BY <1>1, <1>14 DEF Write, runner
<1>15. ASSUME Forget, writes' \in {writes, {}}
       PROVE  Startup'
  <2>1. \A r \in RunIds : phase'[r] \in {"free", "lost"}
    BY <1>15 DEF Forget
  <2>2. startup' = "loading"
    BY <1>15 DEF Forget
  <2>. QED  BY <2>1, <2>2 DEF Startup
<1>16. CASE Load
  BY <1>16 DEF Load, runner, Startup
<1>17. CASE Ready
  BY <1>17 DEF Ready, runner, database, Startup
<1>18. MayEnqueue => startup = "ready"
  BY <1>2 DEF MayEnqueue
<1>. QED  BY <1>3, <1>5, <1>6, <1>7, <1>8, <1>9, <1>10, <1>11, <1>12, <1>13, <1>14, <1>15, <1>16, <1>17,
             <1>18, StepCases

\* The sweep interrupts a row of an earlier page load.
LEMMA SweptIsLost ==
    ASSUME JInv, Startup, Unmade, [JobsNext]_jobVars, NEW r \in RunIds,
           rows'[r] = "interrupted", rows[r] # "interrupted"
    PROVE  phase[r] = "lost"
<1>1. ASSUME NEW w \in writes, Write(w)
      PROVE  phase[r] = "lost"
  <2>1. w = <<"sweep", Null>> /\ rows[r] \in {"queued", "running"}
    BY <1>1 DEF Write, Written, mark_run_started, mark_run_finished, Deleted, recover_orphan_runs, HasRow
  <2>2. phase[r] \in {"free", "lost"}
    BY <2>1 DEF Startup
  <2>. QED  BY <2>1, <2>2 DEF Unmade
<1>2. ASSUME NEW q \in RunIds, Create(q)
      PROVE  FALSE
  BY <1>2 DEF Create, JInv, JobsTypeOK
<1>3. (\E w \in writes : Write(w)) \/ (\E q \in RunIds : Create(q))
  BY RowsWrittenByHost
<1>. QED  BY <1>1, <1>2, <1>3

\* As long as nothing is enqueued before the sweep is over, the sweep interrupts
\* no row of a run this page load made.
THEOREM SweepSparesTheLiving == ASSUME ~EarlyUser PROVE JobsSpec => SweepSparesLive
<1>1. JobsInit => Startup /\ Unmade
  BY DEF JobsInit, Startup, Unmade
<1>2. JInv /\ Startup /\ Unmade /\ [JobsNext]_jobVars
        => [\A r \in RunIds :
              rows'[r] = "interrupted" /\ rows[r] # "interrupted" => phase[r] = "lost"]_jobVars
  BY SweptIsLost
<1>. QED  BY <1>1, <1>2, JInvAlways, UnmadeStep, StartupStep, PTL DEF JobsSpec, SweepSparesLive
-----------------------------------------------------------------------------
(* Rows that say queued or running. *)

\* What may still change the row of r: its run, which has not ended; a command
\* on its way; or the sweep, when its page is gone.
Awaited(r) ==
    \/ phase[r] \in {"saved", "running"} \/ r \in pending
    \/ ({<<"finished", r>>} \cup Deletions(r)) \cap writes # {}
    \/ phase[r] = "lost" /\ (startup = "loading" \/ <<"sweep", Null>> \in writes)

\* No row says queued or running with nothing left to change it.
NoRowForgotten == \A r \in RunIds : rows[r] \in {"queued", "running"} => Awaited(r)

\* A row is made while its enqueue waits for it, or before the next page looks.
Creation ==
    \A r \in RunIds :
        /\ phase[r] = "saving" => <<"create", r>> \in writes
        /\ phase[r] = "failed" => rows[r] = "none"
        /\ phase[r] = "lost" /\ <<"create", r>> \in writes => startup = "loading"

LEMMA CreationStep == JInv /\ Unmade /\ Creation /\ [JobsNext]_jobVars => Creation'
<1>. SUFFICES ASSUME JInv, Unmade, Creation, [JobsNext]_jobVars PROVE Creation'
  OBVIOUS
\* Steps that neither ask for a row nor make one.
<1>1. ASSUME UNCHANGED <<rows, startup>>,
             \A r \in RunIds : <<"create", r>> \in writes' <=> <<"create", r>> \in writes,
             \A r \in RunIds : phase'[r] \in {"saving", "failed", "lost"} => phase'[r] = phase[r]
      PROVE  Creation'
  BY <1>1 DEF Creation
<1>2. ASSUME NEW r \in RunIds, NEW j \in Jobs, NEW from \in RunIds \cup {Null}, Enqueue(r, j, from)
      PROVE  Creation'
  <2>1. /\ phase' = [phase EXCEPT ![r] = "saving"] /\ writes' = writes \cup {<<"create", r>>}
        /\ UNCHANGED <<rows, startup>>
    BY <1>2 DEF Enqueue, Send
  <2>. QED  BY <2>1 DEF Creation, JInv, JobsTypeOK
<1>3. ASSUME NEW S, S \subseteq RunIds, StartAll(S), UNCHANGED <<rows, startup>>
      PROVE  Creation'
  <2>1. writes' = writes \cup {<<"started", r>> : r \in S}
    BY <1>3 DEF StartAll, Send
  <2>2. \A r \in RunIds : phase'[r] = IF r \in S THEN "running" ELSE phase[r]
    BY <1>3, StartAllKeeps
  <2>. QED  BY <1>1, <1>3, <2>1, <2>2
<1>4. ASSUME NEW alone \in BOOLEAN, StartQueued(alone), UNCHANGED <<rows, startup>>
      PROVE  Creation'
  BY <1>3, <1>4, StartQueuedKeeps DEF JInv, JobsTypeOK
<1>5. ASSUME NEW r \in RunIds, Place(r)
      PROVE  Creation'
  <2>1. CASE CanStart(admitted, r, oneAtATime \/ leanMode)
    BY <1>3, <1>5, <2>1 DEF Place
  <2>2. CASE ~CanStart(admitted, r, oneAtATime \/ leanMode)
    BY <1>1, <1>5, <2>2 DEF Place, JInv, JobsTypeOK
  <2>. QED  BY <2>1, <2>2
<1>6. CASE drain
  BY <1>4, <1>6 DEF drain, JInv, JobsTypeOK
<1>7. ASSUME NEW on \in BOOLEAN, setOneRunAtATime(on)
      PROVE  Creation'
  <2>1. CASE on
    BY <1>1, <1>7, <2>1 DEF setOneRunAtATime
  <2>2. CASE ~on
    BY <1>4, <1>7, <2>2 DEF setOneRunAtATime, JInv, JobsTypeOK
  <2>. QED  BY <2>1, <2>2
<1>8. ASSUME NEW r \in RunIds, finalizeRun(r)
      PROVE  Creation'
  <2>1. /\ phase' = [phase EXCEPT ![r] = "ended"] /\ writes' = writes \cup {<<"finished", r>>}
        /\ UNCHANGED <<rows, startup>>
    BY <1>8 DEF finalizeRun, Send
  <2>. QED  BY <1>1, <2>1 DEF JInv, JobsTypeOK
<1>9. ASSUME NEW r \in RunIds,
             \/ onSettled(r) \/ focusRun(r) \/ CheckRun(r)
             \/ CancelQueued(r) \/ DeleteRun(r) \/ DeleteChecked(r)
      PROVE  Creation'
  BY <1>1, <1>9 DEF onSettled, focusRun, CheckRun, CancelQueued, DeleteRun, DeleteChecked, Send,
                    runner, database
<1>10. ASSUME NEW j \in Jobs, NEW way, DeleteAllRuns(j) \/ DeleteJob(j, way)
       PROVE  Creation'
  BY <1>1, <1>10 DEF DeleteAllRuns, DeleteJob, Send
<1>11. ASSUME NEW r \in RunIds, Create(r)
       PROVE  Creation'
  <2>1. /\ writes' = writes \ {<<"create", r>>} /\ UNCHANGED startup /\ rows[r] = "none"
        /\ \A q \in RunIds : q # r => phase'[q] = phase[q] /\ rows'[q] = rows[q]
    BY <1>11 DEF Create, Unmade, JInv, JobsTypeOK
  <2>2. phase'[r] # "saving" /\ (phase'[r] = "failed" => rows'[r] = "none")
    BY <1>11, <2>1 DEF Create, JInv, JobsTypeOK, Phases
  <2>. QED  BY <2>1, <2>2 DEF Creation
<1>12. ASSUME NEW w \in writes, Write(w)
       PROVE  Creation'
  <2>1. \A r \in RunIds : rows[r] = "none" => rows'[r] = "none"
    BY <1>12 DEF Write, Written, mark_run_started, mark_run_finished, Deleted, recover_orphan_runs, HasRow
  <2>2. \A r \in RunIds : <<"create", r>> \in writes' <=> <<"create", r>> \in writes
    BY <1>12 DEF Write
  <2>. QED  BY <1>12, <2>1, <2>2 DEF Write, runner, Creation
<1>13. ASSUME Forget
       PROVE  Creation'
  BY <1>13 DEF Forget, Creation
<1>14. CASE Load
  BY <1>14 DEF Load, Send, runner, Creation
<1>15. ASSUME Ready
       PROVE  Creation'
  <2>1. startup # "loading" /\ UNCHANGED <<phase, rows, writes>>
    BY <1>15 DEF Ready, runner, database
  <2>. QED  BY <2>1 DEF Creation
<1>16. ASSUME \/ \E on \in BOOLEAN : setLeanMode(on)
              \/ clearCurrentRun \/ UNCHANGED jobVars
       PROVE  Creation'
  BY <1>1, <1>16 DEF setLeanMode, clearCurrentRun, jobVars, runner, database
<1>. QED  BY <1>2, <1>5, <1>6, <1>7, <1>8, <1>9, <1>10, <1>11, <1>12, <1>13, <1>14, <1>15, <1>16,
             StepCases

LEMMA NoRowForgottenStep ==
    JInv /\ Unmade /\ Creation /\ NoRowForgotten /\ [JobsNext]_jobVars => NoRowForgotten'
<1>. SUFFICES ASSUME JInv, Unmade, Creation, NoRowForgotten, [JobsNext]_jobVars,
                     NEW r \in RunIds, rows'[r] \in {"queued", "running"}
              PROVE  Awaited(r)'
  BY DEF NoRowForgotten
<1>0. rows[r] \in {"queued", "running"} => phase[r] # "free" /\ Awaited(r)
  BY DEF Unmade, NoRowForgotten
\* Steps of the page: what r waits for stays, or gives way to something else.
<1>1. ASSUME rows' = rows, startup' = startup, writes \subseteq writes',
             phase[r] # "free" => job'[r] = job[r] /\ (phase[r] = "lost" => phase'[r] = "lost"),
             phase[r] \in {"saved", "running"} =>
                \/ phase'[r] \in {"saved", "running"} \/ r \in pending'
                \/ <<"finished", r>> \in writes',
             r \in pending =>
                \/ phase'[r] = "running" \/ r \in pending'
                \/ ({<<"finished", r>>} \cup Deletions(r)) \cap writes' # {}
      PROVE  Awaited(r)'
  BY <1>0, <1>1 DEF Awaited, Deletions
<1>2. ASSUME NEW q \in RunIds, NEW j \in Jobs, NEW from \in RunIds \cup {Null}, Enqueue(q, j, from)
      PROVE  Awaited(r)'
  <2>1. /\ phase' = [phase EXCEPT ![q] = "saving"] /\ job' = [job EXCEPT ![q] = j]
        /\ phase[q] = "free" /\ UNCHANGED <<rows, startup, pending>> /\ writes \subseteq writes'
    BY <1>2 DEF Enqueue, Send
  <2>. QED  BY <1>1, <2>1 DEF JInv, JobsTypeOK
<1>3. ASSUME NEW S, S \subseteq RunIds, StartAll(S), UNCHANGED <<rows, startup, job>>,
             \A q \in S : phase[q] # "lost", pending \subseteq pending' \cup S
      PROVE  Awaited(r)'
  <2>1. writes \subseteq writes'
    BY <1>3 DEF StartAll, Send
  <2>2. phase'[r] = IF r \in S THEN "running" ELSE phase[r]
    BY <1>3, StartAllKeeps
  <2>. QED  BY <1>1, <1>3, <2>1, <2>2
<1>4. ASSUME NEW alone \in BOOLEAN, StartQueued(alone), UNCHANGED <<rows, startup, job>>
      PROVE  Awaited(r)'
  <2>1. PICK S \in SUBSET pending : StartAll(S) /\ pending' = pending \ S
    BY <1>4, StartQueuedKeeps
  <2>2. S \subseteq RunIds /\ \A q \in S : phase[q] # "lost"
    BY DEF JInv, JobsTypeOK, Phases
  <2>. QED  BY <1>3, <1>4, <2>1, <2>2
<1>5. ASSUME NEW q \in RunIds, Place(q)
      PROVE  Awaited(r)'
  <2>1. phase[q] = "saved" /\ UNCHANGED <<rows, startup, job>>
    BY <1>5 DEF Place
  <2>2. CASE CanStart(admitted, q, oneAtATime \/ leanMode)
    BY <1>3, <1>5, <2>1, <2>2 DEF Place
  <2>3. CASE ~CanStart(admitted, q, oneAtATime \/ leanMode)
    <3>1. /\ phase' = [phase EXCEPT ![q] = "placed"] /\ pending' = pending \cup {q}
          /\ UNCHANGED writes
      BY <1>5, <2>3 DEF Place
    <3>. QED  BY <1>1, <2>1, <3>1 DEF JInv, JobsTypeOK
  <2>. QED  BY <2>2, <2>3
<1>6. CASE drain
  BY <1>4, <1>6 DEF drain, JInv, JobsTypeOK
<1>7. ASSUME NEW on \in BOOLEAN, setOneRunAtATime(on)
      PROVE  Awaited(r)'
  <2>1. CASE on
    BY <1>1, <1>7, <2>1 DEF setOneRunAtATime
  <2>2. CASE ~on
    BY <1>4, <1>7, <2>2 DEF setOneRunAtATime, JInv, JobsTypeOK
  <2>. QED  BY <2>1, <2>2
<1>8. ASSUME NEW q \in RunIds, finalizeRun(q)
      PROVE  Awaited(r)'
  <2>1. /\ phase' = [phase EXCEPT ![q] = "ended"] /\ writes' = writes \cup {<<"finished", q>>}
        /\ phase[q] = "running" /\ UNCHANGED <<rows, startup, job, pending>>
    BY <1>8 DEF finalizeRun, Send
  <2>. QED  BY <1>1, <2>1 DEF JInv, JobsTypeOK
\* A run leaves the queue unstarted.
<1>9. ASSUME NEW Q, pending \subseteq pending' \cup Q, UNCHANGED <<rows, startup, job, phase>>,
             NEW W, writes' = writes \cup W,
             r \in Q => ({<<"finished", r>>} \cup Deletions(r)) \cap W # {}
      PROVE  Awaited(r)'
  BY <1>1, <1>9
<1>10. ASSUME NEW q \in RunIds, CancelQueued(q) \/ DeleteRun(q)
       PROVE  Awaited(r)'
  <2>1. /\ pending \subseteq pending' \cup {q} /\ UNCHANGED <<rows, startup, job, phase>>
        /\ \/ writes' = writes \cup {<<"finished", q>>}
           \/ writes' = writes \cup {<<"delete", q>>}
    BY <1>10 DEF CancelQueued, DeleteRun, Unqueue, Send, runner
  <2>. QED  BY <1>9, <2>1 DEF Deletions
<1>11. ASSUME NEW q \in RunIds, DeleteChecked(q)
       PROVE  Awaited(r)'
  <2>1. CASE HasRow(q)
    BY <1>9, <1>11, <2>1 DEF DeleteChecked, Unqueue, Send, Deletions
  <2>2. CASE ~HasRow(q)
    BY <1>1, <1>11, <2>2 DEF DeleteChecked
  <2>. QED  BY <2>1, <2>2
<1>12. ASSUME NEW j \in Jobs, NEW way, DeleteAllRuns(j) \/ DeleteJob(j, way)
       PROVE  Awaited(r)'
  <2>1. /\ pending' = pending \/ pending \subseteq pending' \cup QueuedOf(j)
        /\ UNCHANGED <<rows, startup, job, phase>>
        /\ writes' = writes \cup {<<"clear", j>>} \/ writes' = writes \cup {<<"deleteJob", j>>}
    BY <1>12 DEF DeleteAllRuns, DeleteJob, Unqueue, Send
  <2>. QED  BY <1>9, <2>1 DEF Deletions, QueuedOf
<1>13. ASSUME NEW q \in RunIds, onSettled(q) \/ focusRun(q) \/ CheckRun(q)
       PROVE  Awaited(r)'
  BY <1>1, <1>13 DEF onSettled, focusRun, CheckRun, runner, database
\* The host.
<1>14. ASSUME NEW q \in RunIds, Create(q)
       PROVE  Awaited(r)'
  <2>1. /\ writes' = writes \ {<<"create", q>>} /\ UNCHANGED <<startup, job, pending>>
        /\ \A p \in RunIds : p # q => phase'[p] = phase[p] /\ rows'[p] = rows[p]
        /\ <<"create", q>> \in writes /\ phase[q] \in {"saving", "lost"} /\ rows[q] = "none"
    BY <1>14 DEF Create, Unmade, JInv, JobsTypeOK, Phases
  <2>2. CASE r # q
    <3>1. \A w \in writes : w[1] # "create" => w \in writes'
      BY <2>1
    <3>. QED  BY <1>0, <2>1, <2>2, <3>1 DEF Awaited, Deletions
  <2>3. CASE r = q
    <3>1. job[q] \notin gone
      BY <1>14, <2>1, <2>3 DEF Create
    <3>2. phase'[q] = IF phase[q] = "saving" THEN "saved" ELSE phase[q]
      BY <1>14, <3>1 DEF Create, JInv, JobsTypeOK
    <3>3. phase[q] = "lost" => startup = "loading"
      BY <2>1 DEF Creation
    <3>. QED  BY <2>1, <2>3, <3>2, <3>3 DEF Awaited
  <2>. QED  BY <2>2, <2>3
<1>15. ASSUME NEW w \in writes, Write(w)
       PROVE  Awaited(r)'
  <2>1. writes' = writes \ {w} /\ UNCHANGED <<startup, job, pending, phase>>
    BY <1>15 DEF Write, runner
  <2>2. rows[r] \in {"queued", "running"}
    BY <1>15 DEF Write, Written, mark_run_started, mark_run_finished, Deleted, recover_orphan_runs, HasRow
  <2>3. w \notin {<<"finished", r>>, <<"sweep", Null>>} \cup Deletions(r)
    BY <1>15, <2>2 DEF Write, Written, mark_run_finished, Deleted, recover_orphan_runs, HasRow, Deletions
  <2>. QED  BY <1>0, <2>1, <2>2, <2>3 DEF Awaited, Deletions
\* The page goes, and the next one sweeps.
<1>16. ASSUME Forget
       PROVE  Awaited(r)'
  <2>1. rows' = rows /\ phase'[r] = (IF phase[r] = "free" THEN "free" ELSE "lost") /\ startup' = "loading"
    BY <1>16 DEF Forget
  <2>. QED  BY <1>0, <2>1 DEF Awaited
<1>17. CASE Load
  BY <1>0, <1>17 DEF Load, Send, runner, Awaited, Deletions
<1>18. CASE Ready
  BY <1>0, <1>18 DEF Ready, runner, database, Awaited, Deletions
<1>19. ASSUME \/ \E on \in BOOLEAN : setLeanMode(on)
              \/ clearCurrentRun \/ UNCHANGED jobVars
       PROVE  Awaited(r)'
  BY <1>1, <1>19 DEF setLeanMode, clearCurrentRun, jobVars, runner, database
<1>. QED  BY <1>2, <1>5, <1>6, <1>7, <1>8, <1>10, <1>11, <1>12, <1>13, <1>14, <1>15, <1>16, <1>17,
             <1>18, <1>19, StepCases

\* Whatever is cancelled, deleted, lost or overtaken, a row that says queued or
\* running has someone left to change it: the run, a command or the next sweep.
THEOREM NoRowIsForgotten == JobsSpec => []NoRowForgotten
<1>1. JobsInit => Unmade /\ Creation /\ NoRowForgotten
  BY DEF JobsInit, Unmade, Creation, NoRowForgotten
<1>. QED  BY <1>1, JInvAlways, UnmadeStep, CreationStep, NoRowForgottenStep, PTL DEF JobsSpec

-----------------------------------------------------------------------------
(* The runner and the sleep inhibitor together. *)

\* The inhibitor never makes the runner do what it would not do alone, so what
\* is proved of the runner holds of the two.
THEOREM AwakeRunsJobs == AwakeSpec => JobsSpec
<1>1. [AwakeNext]_allVars => [JobsNext]_jobVars
  BY DEF AwakeNext, allVars, Microtask, KeepAwakeEffect, JobsNext, PageLoad
<1>. QED  BY <1>1, PTL DEF AwakeSpec, JobsSpec

\* How far power.rs is with what reconcile asked of it.
Agree ==
    /\ invoke = "acquired" => held
    /\ invoke = "released" => ~held
    /\ invoke \notin {"acquired", "released"} => held = applied
    /\ invoke = "none" /\ ~warned => applied = desired

\* Until a page is ready its reconcile has nothing to do, and by then the
\* release at its start has settled.
Inhibit ==
    /\ KeepAwakeTypeOK
    /\ startup = "loading" => stale = "unsent"
    /\ startup = "ready" => stale = "settled"
    /\ startup # "ready" => ~desired /\ ~applied /\ ~warned /\ invoke = "none"
    /\ stale = "released" => ~held
    /\ stale = "settled" => Agree

\* Only loading a page moves `startup`.
LEMMA StartupStays ==
    ASSUME Task \/ drain \/ Host
    PROVE  startup' = startup
<1>1. CASE User
  BY <1>1 DEF User, EnqueueManual, Enqueue, setOneRunAtATime, setLeanMode, clearCurrentRun, focusRun,
              CancelQueued, DeleteRun, CheckRun, DeleteAllRuns, DeleteJob
<1>2. CASE Scheduler
  BY <1>2 DEF Scheduler, EnqueueScheduled, Enqueue
<1>3. ASSUME NEW r \in RunIds, Place(r) \/ Pipeline(r) \/ DeleteChecked(r)
      PROVE  startup' = startup
  BY <1>3 DEF Place, Pipeline, finalizeRun, onSettled, EnqueueChained, Enqueue, DeleteChecked
<1>4. CASE Task
  BY <1>1, <1>2, <1>3, <1>4 DEF Task
<1>5. CASE drain
  BY <1>5 DEF drain
<1>6. CASE Host
  BY <1>6 DEF Host, Create, Write
<1>. QED  BY <1>4, <1>5, <1>6

\* There is work only once the page is ready.
LEMMA BusyIsReady ==
    ASSUME JInv, Startup, Busy
    PROVE  startup = "ready"
<1>1. PICK r \in RunIds : phase[r] \in {"running", "placed"}
  BY DEF Busy, getActiveRuns, JInv, JobsTypeOK, Phases
<1>. QED  BY <1>1 DEF Startup

LEMMA InhibitStep == JInv /\ Startup /\ Inhibit /\ [AwakeNext]_allVars => Inhibit'
<1>. SUFFICES ASSUME JInv, Startup, Inhibit, [AwakeNext]_allVars PROVE Inhibit'
  OBVIOUS
\* Steps of one side only.
<1>1. ASSUME UNCHANGED awake, startup' = startup
      PROVE  Inhibit'
  BY <1>1 DEF awake, Inhibit, KeepAwakeTypeOK, Agree
<1>2. CASE KeepAwakeEffect
  <2>1. setKeepAwake(Busy) /\ startup' = startup
    BY <1>2 DEF KeepAwakeEffect, jobVars
  <2>2. Busy \in BOOLEAN
    BY DEF Busy
  <2>3. startup = "ready" /\ stale = "settled"
    <3>1. desired # Busy
      BY <2>1 DEF setKeepAwake
    <3>2. startup = "ready"
      BY <2>2, <3>1, BusyIsReady DEF Inhibit, KeepAwakeTypeOK
    <3>. QED  BY <3>2 DEF Inhibit
  <2>4. KeepAwakeTypeOK'
    BY <2>1, <2>2 DEF setKeepAwake, Pass, Inhibit, KeepAwakeTypeOK, Invoke
  <2>5. Agree'
    <3>1. CASE invoke = "none"
      BY <2>1, <2>2, <2>3, <3>1 DEF setKeepAwake, Pass, Inhibit, Agree, KeepAwakeTypeOK
    <3>2. CASE invoke # "none"
      BY <2>1, <2>3, <3>2 DEF setKeepAwake, Inhibit, Agree
    <3>. QED  BY <3>1, <3>2
  <2>. QED  BY <2>1, <2>3, <2>4, <2>5 DEF setKeepAwake, Inhibit
<1>3. ASSUME WorkerAcquire \/ WorkerRelease, startup' = startup
      PROVE  Inhibit'
  <2>1. startup = "ready" /\ stale = "settled" /\ Agree
    BY <1>3 DEF WorkerAcquire, WorkerRelease, Inhibit
  <2>2. KeepAwakeTypeOK'
    BY <1>3 DEF WorkerAcquire, WorkerRelease, Inhibit, KeepAwakeTypeOK, Invoke
  <2>3. Agree'
    BY <1>3, <2>1 DEF WorkerAcquire, WorkerRelease, Agree
  <2>. QED  BY <1>3, <2>1, <2>2, <2>3 DEF WorkerAcquire, WorkerRelease, Inhibit
<1>4. ASSUME Settled \/ Failed, startup' = startup
      PROVE  Inhibit'
  <2>1. startup = "ready" /\ stale = "settled" /\ Agree
    BY <1>4 DEF Settled, Failed, Inhibit
  <2>2. KeepAwakeTypeOK'
    BY <1>4 DEF Settled, Failed, Pass, Inhibit, KeepAwakeTypeOK, Invoke
  <2>3. Agree'
    BY <1>4, <2>1 DEF Settled, Failed, Pass, Agree, Inhibit, KeepAwakeTypeOK
  <2>. QED  BY <1>4, <2>1, <2>2, <2>3 DEF Settled, Failed, Inhibit
<1>5. ASSUME StaleReleased \/ StaleSettled, startup' = startup
      PROVE  Inhibit'
  <2>1. startup = "sweeping" /\ ~desired /\ ~applied /\ ~warned /\ invoke = "none"
    BY <1>5 DEF StaleReleased, StaleSettled, Inhibit, JInv, JobsTypeOK
  <2>2. KeepAwakeTypeOK'
    BY <1>5 DEF StaleReleased, StaleSettled, Inhibit, KeepAwakeTypeOK, Stale
  <2>3. stale' = "settled" => Agree'
    BY <1>5, <2>1 DEF StaleReleased, StaleSettled, Inhibit, Agree, KeepAwakeTypeOK
  <2>. QED  BY <1>5, <2>1, <2>2, <2>3 DEF StaleReleased, StaleSettled, Inhibit
<1>6. CASE Load /\ releaseStaleInhibit
  BY <1>6 DEF Load, releaseStaleInhibit, Inhibit, KeepAwakeTypeOK, Stale
<1>7. CASE Ready /\ stale = "settled" /\ UNCHANGED awake
  BY <1>7 DEF Ready, awake, Inhibit, KeepAwakeTypeOK, Agree
<1>8. CASE (ReloadPage /\ Reload) \/ (Quit /\ Exit)
  <2>1. startup' = "loading"
    BY <1>8 DEF ReloadPage, Quit, Forget
  <2>. QED  BY <1>8, <2>1 DEF Reload, Exit, Inhibit, KeepAwakeTypeOK, Invoke, Stale
<1>9. CASE UNCHANGED allVars
  BY <1>1, <1>9 DEF allVars, jobVars
<1>10. CASE Power /\ UNCHANGED jobVars
  BY <1>3, <1>5, <1>10 DEF Power, jobVars
<1>11. CASE Reconcile /\ UNCHANGED jobVars
  BY <1>4, <1>5, <1>11 DEF Reconcile, jobVars
<1>12. CASE (Task \/ drain \/ Host) /\ UNCHANGED awake
  BY <1>1, <1>12, StartupStays
<1>. QED  BY <1>2, <1>6, <1>7, <1>8, <1>9, <1>10, <1>11, <1>12 DEF AwakeNext, Microtask

\* As long as nothing is enqueued before the page is ready, the machine is held
\* awake exactly while a run is going or queued, whatever order the runner, the
\* loop of keepAwake.ts, the thread of power.rs and page loads interleave in.
THEOREM InhibitFollowsWork == ASSUME ~EarlyUser PROVE AwakeSpec => []InhibitAgrees
<1>1. JobsInit /\ KeepAwakeInit => Startup /\ Inhibit
  BY DEF JobsInit, KeepAwakeInit, Startup, Inhibit, KeepAwakeTypeOK, Invoke, Stale
<1>2. [AwakeNext]_allVars => [JobsNext]_jobVars
  BY DEF AwakeNext, allVars, Microtask, KeepAwakeEffect, JobsNext, PageLoad
<1>3. JInv /\ Startup /\ [AwakeNext]_allVars => Startup'
  BY <1>2, StartupStep
<1>4. Inhibit => InhibitAgrees
  BY DEF Inhibit, Agree, InhibitAgrees, Busy
<1>. QED  BY <1>1, <1>3, <1>4, InhibitStep, AwakeRunsJobs, JInvAlways, PTL DEF AwakeSpec
=============================================================================
