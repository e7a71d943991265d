------------------------- MODULE JobSchedulerProofs -------------------------
(***************************************************************************)
(* Theorems about the scheduler, for any number of jobs with any           *)
(* intervals, of runs, edits, failed saves and page loads.                 *)
(***************************************************************************)
EXTENDS JobScheduler, FiniteSetTheorems, TLAPS

Entry == [job : Jobs, schedule : {"interval", "unreadable"}, due : Nat]
Ahead(j, time) == time = Never \/ time > served[j]

\* A tick goes on in the page that began it, and nothing that was answered by
\* a run is later than its beginning.
TickInPage ==
    /\ \A j \in Jobs : served[j] <= clock
    /\ tick.at # "idle" =>
         startup = "ready" /\ tick.now <= clock /\ \A j \in Jobs : served[j] <= tick.now
    /\ tick.at \in {"saving", "saved", "waiting"} => tick.list # <<>>

\* A due time that is, or is about to be, saved was not answered by a run.
DuesAhead == \A j \in Jobs : j \in rewound \/ Ahead(j, due[j])
SavesAhead ==
    /\ \A w \in saves : Ahead(w.job, w.due)
    /\ tick.at = "saving" =>
         \A w \in saves : /\ w.job = listed.job /\ (w.due = Never \/ w.due > tick.now)
                         /\ saves = {w}
    /\ saves # {} => startup = "loading" \/ tick.at = "saving"
SavedAhead ==
    tick.at = "saved" /\ tick.saved =>
        LET j == listed.job IN j \in gone \cup rewound \/ due[j] = Never \/ due[j] > tick.now

\* Nor was an entry of the list that is not dealt with.
ListAhead ==
    \A i \in 1..Len(tick.list) :
        /\ \A k \in 1..Len(tick.list) : i # k => tick.list[i].job # tick.list[k].job
        /\ LET e == tick.list[i] IN
           (i = 1 /\ tick.at = "waiting") \/ e.job \in rewound \/ e.due > served[e.job]

Answered == TickInPage /\ DuesAhead /\ SavesAhead /\ SavedAhead /\ ListAhead

\* The inductive invariant.
SchedInv == SchedTypeOK /\ Answered

-----------------------------------------------------------------------------
\* The next due time lies ahead, however many were missed.
LEMMA NextIsAhead ==
    ASSUME NEW j \in Jobs, NEW prevDue \in Nat, NEW now \in Nat
    PROVE  computeNextDueAt(j, prevDue, now) \in Nat /\ computeNextDueAt(j, prevDue, now) > now
<1> DEFINE p == Period[j]
           d == now - prevDue
<1>1. p \in Nat /\ p > 0 /\ d \in Int
  BY SchedulerAssumption
<1>2. d \div p \in Int /\ d < (d \div p + 1) * p
  BY <1>1
<1>3. (d \div p + 1) * p \in Int
  BY <1>1, <1>2
<1>. HIDE DEF p
<1>4. prevDue + (d \div p + 1) * p > now
  BY <1>1, <1>2, <1>3
<1>. QED  BY <1>3, <1>4 DEF computeNextDueAt, p

\* The listed entries are a sequence.
LEMMA ListIs ==
    ASSUME SchedTypeOK, tick.at = "listing", list_due_jobs
    PROVE  /\ tick'.list \in Seq(Entry) /\ tick' = [tick EXCEPT !.at = "next", !.list = tick'.list]
           /\ \A i \in 1..Len(tick'.list) :
                LET e == tick'.list[i] IN
                /\ e.job \in Jobs \ gone /\ e.due = due[e.job] /\ e.due # Never
                /\ \A k \in 1..Len(tick'.list) : i # k => e.job # tick'.list[k].job
<1> DEFINE D == {k \in Jobs : IsDue(k, tick.now)}
           rec(j) == [job |-> j, schedule |-> schedule[j], due |-> due[j]]
           dues == {rec(j) : j \in D}
           n == Cardinality(dues)
<1>1. n \in Nat
  <2>1. IsFiniteSet(D)
    BY SchedulerAssumption, FS_Subset
  <2>2. [j \in D |-> rec(j)] \in Surjection(D, dues)
    BY DEF Surjection
  <2>. QED  BY <2>1, <2>2, FS_Surjection, FS_CardinalityType
<1>2. dues \subseteq Entry
  BY DEF IsDue, SchedTypeOK, Entry
<1>. HIDE DEF n
<1>3. PICK list \in [1..n -> dues] :
        /\ \A i, k \in DOMAIN list : i < k => list[i] # list[k] /\ list[i].due <= list[k].due
        /\ tick' = [tick EXCEPT !.at = "next", !.list = list]
  BY DEF list_due_jobs, n
<1>4. list \in Seq(Entry) /\ Len(list) = n
  BY <1>1, <1>2
<1>5. tick'.list = list
  BY <1>3 DEF SchedTypeOK, Tick
<1>6. ASSUME NEW i \in 1..n, NEW k \in 1..n, i # k PROVE list[i].job # list[k].job
  <2>1. list[i] # list[k]
    BY <1>1, <1>3, <1>6
  <2>. QED  BY <2>1
<1>7. ASSUME NEW i \in 1..n
      PROVE  LET e == list[i] IN
             e.job \in Jobs \ gone /\ e.due = due[e.job] /\ e.due # Never
  BY DEF IsDue
<1>. QED  BY <1>3, <1>4, <1>5, <1>6, <1>7

\* What a step of the runner, of the database or of a page load does to what the
\* scheduler sees.
LEMMA RunnerFrame ==
    ASSUME \/ RunnerTask /\ UNCHANGED scheduler
           \/ drain /\ UNCHANGED scheduler
           \/ Host /\ UNCHANGED scheduler
           \/ UNCHANGED schedVars
    PROVE  UNCHANGED scheduler /\ startup' = startup /\ gone \subseteq gone'
<1>1. CASE RunnerTask /\ UNCHANGED scheduler
  <2>1. ASSUME NEW r \in RunIds, Place(r) \/ finalizeRun(r) \/ onSettled(r)
        PROVE  startup' = startup /\ gone' = gone
    BY <2>1 DEF Place, finalizeRun, onSettled, database
  <2>2. ASSUME NEW j \in Jobs, DeleteAllRuns(j) \/ DeleteJob(j, "jobs.delete")
        PROVE  startup' = startup /\ gone' = gone
    BY <2>2 DEF DeleteAllRuns, DeleteJob
  <2>3. ASSUME NEW on \in BOOLEAN, setLeanMode(on) PROVE startup' = startup /\ gone' = gone
    BY <2>3 DEF setLeanMode, database
  <2>. QED  BY <1>1, <2>1, <2>2, <2>3 DEF RunnerTask
<1>2. CASE drain /\ UNCHANGED scheduler
  BY <1>2 DEF drain
<1>3. CASE Host /\ UNCHANGED scheduler
  <2>1. ASSUME NEW r \in RunIds, Create(r) PROVE startup' = startup /\ gone' = gone
    BY <2>1 DEF Create
  <2>2. ASSUME NEW w \in writes, Write(w) PROVE startup' = startup /\ gone \subseteq gone'
    BY <2>2 DEF Write
  <2>. QED  BY <1>3, <2>1, <2>2 DEF Host
<1>4. CASE UNCHANGED schedVars
  BY <1>4 DEF schedVars, jobVars, database
<1>. QED  BY <1>1, <1>2, <1>3, <1>4

-----------------------------------------------------------------------------
(* Types. *)

\* A tick under way is one, whatever its place and the rest of its list.
LEMMA TickTypes ==
    ASSUME tick \in Tick,
           NEW at \in {"idle", "listing", "next", "saving", "saved", "waiting"}
    PROVE  /\ [tick EXCEPT !.at = at] \in Tick
           /\ \A list \in Seq(Entry) : [tick EXCEPT !.at = at, !.list = list] \in Tick
           /\ \A b \in BOOLEAN : [tick EXCEPT !.at = at, !.saved = b] \in Tick
           /\ \A r \in RunIds : [tick EXCEPT !.at = at, !.run = r] \in Tick
  BY DEF Tick, Entry

LEMMA NextOneTypes ==
    ASSUME tick \in Tick, tick.list # <<>>, NextOne
    PROVE  tick' \in Tick
<1>1. Tail(tick.list) \in Seq(Entry)
  BY DEF Tick, Entry
<1>. QED  BY <1>1, TickTypes DEF NextOne

LEMMA NoTickTypes ==
    /\ NoTick \in Tick
    /\ \A t \in 0..MaxClock : [NoTick EXCEPT !.at = "listing", !.now = t] \in Tick
<1>1. 0 \in 0..MaxClock
  BY SchedulerAssumption
<1>2. <<>> \in Seq(Entry)
  OBVIOUS
<1>. QED  BY <1>1, <1>2 DEF NoTick, Tick, Entry

LEMMA TypesStep ==
    ASSUME SchedTypeOK, TickInPage, [SchedNext]_schedVars
    PROVE  SchedTypeOK'
<1>0. /\ clock \in 0..MaxClock /\ upsets \in 0..MaxUpsets
      /\ schedule \in [Jobs -> {"manual", "interval", "unreadable"}]
      /\ due \in [Jobs -> Nat] /\ served \in [Jobs -> 0..MaxClock]
      /\ saves \subseteq [job : Jobs, due : Nat] /\ rewound \subseteq Jobs
      /\ copies \subseteq [job : Jobs, schedule : {"manual", "interval", "unreadable"}, due : Nat]
      /\ tick \in Tick
  BY DEF SchedTypeOK
<1>l. tick.list # <<>> => listed \in Entry
  <2>1. tick.list \in Seq(Entry)
    BY <1>0 DEF Tick, Entry
  <2>. QED  BY <2>1 DEF listed
<1>1. CASE StartTick
  BY <1>0, <1>1, NoTickTypes DEF StartTick, SchedTypeOK
<1>2. CASE EndTick
  BY <1>0, <1>2, NoTickTypes DEF EndTick, SchedTypeOK
<1>3. CASE processDueJob
  <2>1. tick' \in Tick
    BY <1>0, <1>3, TickTypes DEF processDueJob, Moves
  <2>2. \A w \in saves' : w \in [job : Jobs, due : Nat]
    <3>1. computeNextDueAt(listed.job, listed.due, tick.now) \in Nat
      BY <1>0, <1>l, <1>3, NextIsAhead DEF processDueJob, Entry, Tick
    <3>. QED  BY <1>l, <1>3, <3>1 DEF processDueJob, Entry, Never
  <2>. QED  BY <1>0, <1>3, <2>1, <2>2 DEF processDueJob, SchedTypeOK
<1>4. CASE pausedWithHome \/ EnqueueRefused \/ Enqueued
  <2>1. tick.list # <<>> /\ NextOne
    BY <1>4 DEF pausedWithHome, EnqueueRefused, Enqueued, TickInPage
  <2>. QED  BY <1>0, <1>4, <2>1, NextOneTypes
            DEF pausedWithHome, EnqueueRefused, Enqueued, SchedTypeOK
<1>5. ASSUME NEW r \in RunIds, EnqueueDue(r) PROVE SchedTypeOK'
  <2>1. tick' \in Tick
    BY <1>0, <1>5, TickTypes DEF EnqueueDue
  <2>2. served' \in [Jobs -> 0..MaxClock]
    BY <1>0, <1>5 DEF EnqueueDue, Tick
  <2>. QED  BY <1>0, <1>5, <2>1, <2>2 DEF EnqueueDue, SchedTypeOK
<1>6. CASE list_due_jobs
  <2>1. tick' \in Tick
    <3>1. tick.at = "listing"
      BY <1>6 DEF list_due_jobs
    <3>2. PICK list \in Seq(Entry) : tick' = [tick EXCEPT !.at = "next", !.list = list]
      BY <1>6, <3>1, ListIs
    <3>. QED  BY <1>0, <3>2, TickTypes
  <2>. QED  BY <1>0, <1>6, <2>1 DEF list_due_jobs, SchedTypeOK
<1>7. ASSUME NEW w \in saves, set_job_next_due_at(w) PROVE SchedTypeOK'
  <2>1. upsets' \in 0..MaxUpsets
    BY <1>0, <1>7, SchedulerAssumption DEF set_job_next_due_at
  <2>2. due' \in [Jobs -> Nat]
    BY <1>0, <1>7 DEF set_job_next_due_at
  <2>3. tick' \in Tick
    <3>1. tick.at = "saving" => tick.list # <<>>
      BY DEF TickInPage
    <3>2. (upsets' = upsets) \in BOOLEAN
      OBVIOUS
    <3>. QED  BY <1>0, <1>7, <3>1, <3>2, NextOneTypes, TickTypes DEF set_job_next_due_at
  <2>. QED  BY <1>0, <1>7, <2>1, <2>2, <2>3 DEF set_job_next_due_at, SchedTypeOK
<1>8. ASSUME NEW j \in Jobs, NEW kind \in {"manual", "interval"}, SaveSchedule(j, kind)
      PROVE  SchedTypeOK'
  <2>1. upsets' \in 0..MaxUpsets
    BY <1>0, <1>8, SchedulerAssumption DEF SaveSchedule
  <2>2. clock + Period[j] \in Nat /\ Never \in Nat
    BY <1>0, SchedulerAssumption DEF Never
  <2>. QED  BY <1>0, <1>8, <2>1, <2>2 DEF SaveSchedule, SchedTypeOK
<1>9. ASSUME NEW j \in Jobs, mustGet(j) PROVE SchedTypeOK'
  <2>1. upsets' \in 0..MaxUpsets
    BY <1>0, <1>9, SchedulerAssumption DEF mustGet
  <2>. QED  BY <1>0, <1>9, <2>1 DEF mustGet, SchedTypeOK
<1>10. ASSUME NEW c \in copies, writeJob(c) PROVE SchedTypeOK'
  BY <1>0, <1>10 DEF writeJob, SchedTypeOK
<1>11. CASE Elapse
  <2>1. clock' \in 0..MaxClock
    BY <1>0, <1>11, SchedulerAssumption DEF Elapse
  <2>. QED  BY <1>0, <1>11, <2>1 DEF Elapse, SchedTypeOK
<1>12. ASSUME PageGone(saves) \/ PageGone({}) PROVE SchedTypeOK'
  BY <1>0, <1>12, NoTickTypes DEF PageGone, SchedTypeOK
<1>13. ASSUME UNCHANGED scheduler PROVE SchedTypeOK'
  BY <1>0, <1>13 DEF scheduler, SchedTypeOK
<1>. QED  BY <1>1, <1>2, <1>3, <1>4, <1>5, <1>6, <1>7, <1>8, <1>9, <1>10, <1>11, <1>12, <1>13,
             RunnerFrame DEF SchedNext, TickTask
-----------------------------------------------------------------------------
(* Every step keeps what the tick, the saves and the due times know. *)

LEMMA NextOneIs ==
    ASSUME SchedTypeOK, ListAhead, tick.list # <<>>, NextOne, served' = served, rewound' = rewound
    PROVE  ListAhead' /\ tick'.at = "next" /\ tick'.now = tick.now
<1>1. tick \in Tick /\ tick.list \in Seq(Entry)
  BY DEF SchedTypeOK, Tick, Entry
<1>2. tick'.at = "next" /\ tick'.now = tick.now /\ tick'.list = Tail(tick.list)
  BY <1>1 DEF NextOne, Tick
<1>3. /\ Len(Tail(tick.list)) = Len(tick.list) - 1
      /\ \A i \in 1..Len(Tail(tick.list)) : Tail(tick.list)[i] = tick.list[i + 1]
  BY <1>1
<1>4. Len(tick.list) \in Nat
  BY <1>1
<1>5. ASSUME NEW i \in 1..(Len(tick.list) - 1)
      PROVE  /\ i + 1 \in 1..Len(tick.list) /\ i + 1 # 1
             /\ \A k \in 1..(Len(tick.list) - 1) :
                  i # k => tick.list[i + 1].job # tick.list[k + 1].job
  BY <1>4 DEF ListAhead
<1>6. ListAhead'
  BY <1>2, <1>3, <1>5 DEF ListAhead
<1>. QED  BY <1>2, <1>6

\* The entry being dealt with is the first one.
LEMMA ListedIs ==
    ASSUME SchedTypeOK, tick.list # <<>>
    PROVE  listed = tick.list[1] /\ listed \in Entry /\ 1 \in 1..Len(tick.list)
<1>1. tick.list \in Seq(Entry)
  BY DEF SchedTypeOK, Tick, Entry
<1>. QED  BY <1>1 DEF listed

LEMMA AnsweredStep ==
    ASSUME SchedInv, [SchedNext]_schedVars
    PROVE  Answered'
<1>0. /\ SchedTypeOK /\ TickInPage /\ DuesAhead /\ SavesAhead /\ SavedAhead /\ ListAhead
  BY DEF SchedInv, Answered
<1>t. /\ clock \in Nat /\ due \in [Jobs -> Nat] /\ served \in [Jobs -> Nat]
      /\ saves \subseteq [job : Jobs, due : Nat] /\ tick \in Tick /\ tick.now \in Nat
      /\ copies \subseteq [job : Jobs, schedule : {"manual", "interval", "unreadable"}, due : Nat]
  BY <1>0, SchedulerAssumption DEF SchedTypeOK, Tick
<1>s. tick.at \notin {"idle", "saving"} => saves = {}
  BY <1>0 DEF TickInPage, SavesAhead
<1>1. CASE StartTick
  <2>1. /\ tick'.at = "listing" /\ tick'.now = clock /\ tick'.list = <<>>
        /\ startup' = "ready" /\ tick.at = "idle"
        /\ UNCHANGED <<clock, due, saves, served, rewound, gone>>
    BY <1>1 DEF StartTick, NoTick, jobVars, database
  <2>2. saves = {}
    BY <1>0, <1>1 DEF SavesAhead, StartTick
  <2>. QED  BY <1>0, <1>t, <2>1, <2>2
            DEF Answered, TickInPage, DuesAhead, SavesAhead, SavedAhead, ListAhead, Ahead
<1>2. CASE EndTick
  <2>1. /\ tick'.at = "idle" /\ tick'.list = <<>> /\ tick.at = "next"
        /\ UNCHANGED <<clock, due, saves, served, rewound, gone, startup>>
    BY <1>2 DEF EndTick, NoTick, jobVars, database
  <2>. QED  BY <1>0, <1>s, <2>1
            DEF Answered, TickInPage, DuesAhead, SavesAhead, SavedAhead, ListAhead, Ahead
<1>3. CASE processDueJob
  <2>1. /\ tick.at = "next" /\ tick.list # <<>> /\ tick'.at = "saving" /\ tick'.now = tick.now
        /\ tick'.list = tick.list
        /\ UNCHANGED <<clock, due, served, rewound, gone, startup>>
    BY <1>t, <1>3 DEF processDueJob, Moves, Tick, jobVars, database
  <2>2. listed' = listed /\ listed \in Entry
    BY <1>0, <2>1, ListedIs DEF listed
  <2>3. PICK time \in Nat : /\ saves' = {[job |-> listed.job, due |-> time]}
                            /\ time = Never \/ time > tick.now
    <3>1. /\ computeNextDueAt(listed.job, listed.due, tick.now) \in Nat
          /\ computeNextDueAt(listed.job, listed.due, tick.now) > tick.now
      BY <1>t, <2>2, NextIsAhead DEF Entry
    <3>. QED  BY <1>3, <3>1 DEF processDueJob, Never
  <2>4. SavesAhead'
    <3>1. \A j \in Jobs : served[j] <= tick.now
      BY <1>0, <2>1 DEF TickInPage
    <3>2. listed.job \in Jobs
      BY <2>2 DEF Entry
    <3>. QED  BY <1>t, <2>1, <2>2, <2>3, <3>1, <3>2 DEF SavesAhead, Ahead
  <2>5. ListAhead'
    BY <1>0, <2>1 DEF ListAhead
  <2>6. TickInPage' /\ DuesAhead' /\ SavedAhead'
    BY <1>0, <2>1 DEF TickInPage, DuesAhead, SavedAhead, Ahead
  <2>. QED  BY <2>4, <2>5, <2>6 DEF Answered
<1>4. ASSUME tick.at \in {"saved", "waiting"}, NextOne,
             UNCHANGED <<clock, due, saves, served, rewound, gone, startup>>
      PROVE  Answered'
  <2>1. tick.list # <<>>
    BY <1>0, <1>4 DEF TickInPage
  <2>2. ListAhead' /\ tick'.at = "next" /\ tick'.now = tick.now
    BY <1>0, <1>4, <2>1, NextOneIs
  <2>3. TickInPage' /\ DuesAhead' /\ SavedAhead' /\ SavesAhead'
    BY <1>0, <1>s, <1>4, <2>2 DEF TickInPage, DuesAhead, SavedAhead, SavesAhead, Ahead
  <2>. QED  BY <2>2, <2>3 DEF Answered
<1>5. CASE pausedWithHome \/ EnqueueRefused \/ Enqueued
  BY <1>4, <1>5 DEF pausedWithHome, EnqueueRefused, Enqueued, jobVars, database
<1>6. ASSUME NEW r \in RunIds, EnqueueDue(r) PROVE Answered'
  <2>1. /\ tick.at = "saved" /\ tick'.at = "waiting" /\ tick'.now = tick.now
        /\ tick'.list = tick.list /\ tick.list # <<>> /\ saves = {}
        /\ served' = IF tick.saved THEN [served EXCEPT ![listed.job] = tick.now] ELSE served
        /\ listed.job \notin gone
        /\ UNCHANGED <<clock, due, saves, rewound, gone, startup>>
    BY <1>0, <1>t, <1>s, <1>6 DEF EnqueueDue, EnqueueScheduled, Enqueue, Tick, TickInPage
  <2>2. listed = tick.list[1] /\ listed.job \in Jobs
    BY <1>0, <2>1, ListedIs DEF Entry
  <2>3. \A j \in Jobs : served'[j] = IF tick.saved /\ j = listed.job THEN tick.now ELSE served[j]
    BY <1>t, <2>1, <2>2
  <2>4. TickInPage'
    BY <1>0, <1>t, <2>1, <2>3 DEF TickInPage
  <2>5. DuesAhead'
    BY <1>0, <1>t, <2>1, <2>2, <2>3 DEF DuesAhead, SavedAhead, Ahead
  <2>6. SavesAhead' /\ SavedAhead'
    BY <2>1 DEF SavesAhead, SavedAhead
  <2>7. ListAhead'
    <3>1. tick.list \in Seq(Entry)
      BY <1>t DEF Tick, Entry
    <3>2. ASSUME NEW i \in 1..Len(tick.list), i # 1
          PROVE  tick.list[i].job \in Jobs /\ tick.list[i].job # listed.job
      <4>1. 1 \in 1..Len(tick.list) /\ tick.list[i] \in Entry
        BY <3>1, <3>2
      <4>. QED  BY <1>0, <2>2, <3>2, <4>1 DEF ListAhead, Entry
    <3>. QED  BY <1>0, <2>1, <2>3, <3>2 DEF ListAhead
  <2>. QED  BY <2>4, <2>5, <2>6, <2>7 DEF Answered
<1>7. CASE list_due_jobs
  <2>1. /\ tick.at = "listing" /\ UNCHANGED <<clock, due, saves, served, rewound, gone, startup>>
    BY <1>7 DEF list_due_jobs, jobVars, database
  <2>2. PICK list \in Seq(Entry) :
          /\ tick' = [tick EXCEPT !.at = "next", !.list = list]
          /\ \A i \in 1..Len(list) :
               /\ list[i].job \in Jobs /\ list[i].due = due[list[i].job] /\ list[i].due # Never
               /\ \A k \in 1..Len(list) : i # k => list[i].job # list[k].job
    BY <1>0, <1>7, <2>1, ListIs
  <2>3. tick'.at = "next" /\ tick'.now = tick.now /\ tick'.list = list
    BY <1>t, <2>2 DEF Tick
  <2>4. ListAhead'
    BY <1>0, <2>1, <2>2, <2>3 DEF ListAhead, DuesAhead, Ahead
  <2>5. TickInPage' /\ DuesAhead' /\ SavedAhead' /\ SavesAhead'
    BY <1>0, <1>s, <2>1, <2>3 DEF TickInPage, DuesAhead, SavedAhead, SavesAhead, Ahead
  <2>. QED  BY <2>4, <2>5 DEF Answered
<1>8. ASSUME NEW w \in saves, set_job_next_due_at(w) PROVE Answered'
  <2>1. /\ w.job \in Jobs /\ w.due \in Nat /\ saves' = saves \ {w}
        /\ UNCHANGED <<clock, served, rewound, gone, startup>>
    BY <1>t, <1>8 DEF set_job_next_due_at, jobVars, database
  <2>2. \A j \in Jobs : due'[j] = due[j] \/ (j = w.job /\ due'[j] = w.due)
    BY <1>t, <1>8 DEF set_job_next_due_at
  <2>3. DuesAhead'
    BY <1>0, <2>1, <2>2 DEF DuesAhead, SavesAhead, Ahead
  <2>4. CASE tick.at # "saving"
    <3>1. tick.at = "idle" /\ tick' = tick
      BY <1>s, <1>8, <2>4 DEF set_job_next_due_at
    <3>. QED  BY <1>0, <2>1, <2>3, <3>1
              DEF Answered, TickInPage, SavesAhead, SavedAhead, ListAhead, Ahead
  <2>5. CASE tick.at = "saving"
    <3>1. saves' = {} /\ w.job = listed.job /\ (w.due = Never \/ w.due > tick.now)
          /\ tick.list # <<>>
      <4>1. saves = {w} /\ w.job = listed.job /\ (w.due = Never \/ w.due > tick.now)
        BY <1>0, <2>5 DEF SavesAhead
      <4>. QED  BY <1>0, <2>1, <2>5, <4>1 DEF TickInPage
    <3>2. CASE w.job \in AsksUser
      <4>1. ListAhead' /\ tick'.at = "next" /\ tick'.now = tick.now
        BY <1>0, <1>8, <2>1, <2>5, <3>1, <3>2, NextOneIs DEF set_job_next_due_at
      <4>2. TickInPage' /\ SavedAhead' /\ SavesAhead'
        BY <1>0, <2>1, <2>5, <3>1, <4>1 DEF TickInPage, SavedAhead, SavesAhead
      <4>. QED  BY <2>3, <4>1, <4>2 DEF Answered
    <3>3. CASE w.job \notin AsksUser
      <4>1. /\ tick'.at = "saved" /\ tick'.now = tick.now /\ tick'.list = tick.list
            /\ tick'.saved = (upsets' = upsets)
        BY <1>t, <1>8, <2>5, <3>3 DEF set_job_next_due_at, Tick
      <4>2. upsets' = upsets => w.job \in gone \/ due'[w.job] = w.due
        <5>1. upsets + 1 # upsets
          BY <1>0 DEF SchedTypeOK
        <5>. QED  BY <1>t, <1>8, <2>1, <5>1 DEF set_job_next_due_at
      <4>3. SavedAhead'
        BY <2>1, <3>1, <4>1, <4>2 DEF SavedAhead, listed
      <4>4. TickInPage' /\ SavesAhead' /\ ListAhead'
        BY <1>0, <2>1, <2>5, <3>1, <4>1 DEF TickInPage, SavesAhead, ListAhead
      <4>. QED  BY <2>3, <4>3, <4>4 DEF Answered
    <3>. QED  BY <3>2, <3>3
  <2>. QED  BY <2>4, <2>5
<1>9. ASSUME UNCHANGED <<saves, tick, served, startup>>, clock <= clock', clock' \in Nat,
             gone \subseteq gone', rewound \subseteq rewound',
             \A j \in Jobs : due'[j] = due[j] \/ j \in rewound' \/ due'[j] = Never
                              \/ (due'[j] \in Nat /\ due'[j] > clock)
      PROVE  Answered'
  <2>0. listed' = listed /\ (tick.list # <<>> => listed.job \in Jobs)
    BY <1>0, <1>9, ListedIs DEF listed, Entry
  <2>1. TickInPage'
    BY <1>0, <1>t, <1>9 DEF TickInPage
  <2>2. DuesAhead'
    BY <1>0, <1>t, <1>9 DEF DuesAhead, TickInPage, Ahead
  <2>3. SavesAhead' /\ ListAhead'
    BY <1>0, <1>9, <2>0 DEF SavesAhead, ListAhead, Ahead
  <2>4. SavedAhead'
    BY <1>0, <1>t, <1>9, <2>0 DEF SavedAhead, TickInPage
  <2>. QED  BY <2>1, <2>2, <2>3, <2>4 DEF Answered
<1>10. ASSUME NEW j \in Jobs, NEW kind \in {"manual", "interval"}, SaveSchedule(j, kind)
       PROVE  Answered'
  <2>1. clock + Period[j] \in Nat /\ clock + Period[j] > clock
    BY <1>t, SchedulerAssumption
  <2>2. due' = [due EXCEPT ![j] = IF kind = "manual" THEN Never ELSE clock + Period[j]]
    BY <1>10 DEF SaveSchedule
  <2>3. \A k \in Jobs : due'[k] = due[k] \/ due'[k] = Never \/ (due'[k] \in Nat /\ due'[k] > clock)
    BY <1>t, <2>1, <2>2
  <2>. QED  BY <1>t, <1>9, <1>10, <2>3 DEF SaveSchedule, jobVars, database
<1>11. ASSUME NEW j \in Jobs, mustGet(j) PROVE Answered'
  BY <1>t, <1>9, <1>11 DEF mustGet, jobVars, database
<1>12. ASSUME NEW c \in copies, writeJob(c) PROVE Answered'
  <2>1. c.job \in Jobs
    BY <1>t
  <2>2. rewound \subseteq rewound' /\ \A j \in Jobs : due'[j] = due[j] \/ j \in rewound'
    BY <1>t, <1>12, <2>1 DEF writeJob
  <2>. QED  BY <1>t, <1>9, <1>12, <2>2 DEF writeJob, jobVars, database
<1>13. CASE Elapse
  BY <1>t, <1>9, <1>13 DEF Elapse, jobVars, database
<1>14. ASSUME UNCHANGED scheduler, startup' = startup, gone \subseteq gone' PROVE Answered'
  BY <1>t, <1>9, <1>14 DEF scheduler
<1>15. CASE (Load /\ saves = {} /\ UNCHANGED scheduler) \/ (Ready /\ UNCHANGED scheduler)
  <2>1. /\ UNCHANGED scheduler /\ gone' = gone /\ startup # "ready" /\ saves = {}
    <3>1. CASE Load /\ saves = {} /\ UNCHANGED scheduler
      BY <3>1 DEF Load
    <3>2. CASE Ready /\ UNCHANGED scheduler
      BY <1>0, <3>2 DEF Ready, database, SavesAhead, TickInPage
    <3>. QED  BY <1>15, <3>1, <3>2
  <2>2. tick.at = "idle"
    BY <1>0, <2>1 DEF TickInPage
  <2>. QED  BY <1>0, <2>1, <2>2
            DEF scheduler, Answered, TickInPage, DuesAhead, SavesAhead, SavedAhead, ListAhead, Ahead
<1>16. ASSUME Forget, PageGone(saves) \/ PageGone({}) PROVE Answered'
  <2>1. /\ tick'.at = "idle" /\ tick'.list = <<>> /\ saves' \subseteq saves /\ startup' = "loading"
        /\ UNCHANGED <<clock, due, served, rewound, gone>>
    BY <1>16 DEF Forget, PageGone, NoTick
  <2>. QED  BY <1>0, <2>1
            DEF Answered, TickInPage, DuesAhead, SavesAhead, SavedAhead, ListAhead, Ahead
<1>. QED
  BY <1>1, <1>2, <1>3, <1>5, <1>6, <1>7, <1>8, <1>10, <1>11, <1>12, <1>13, <1>14, <1>15, <1>16,
     RunnerFrame DEF SchedNext, TickTask, ReloadPage, Quit

-----------------------------------------------------------------------------
(* The theorems. *)

LEMMA SchedInvInit == ASSUME SchedInit PROVE SchedInv
<1>1. SchedTypeOK
  <2>1. 0 \in 0..MaxClock /\ 0 \in 0..MaxUpsets
    BY SchedulerAssumption
  <2>. QED  BY <2>1, NoTickTypes DEF SchedInit, SchedTypeOK
<1>2. Answered
  BY DEF SchedInit, Answered, NoTick, TickInPage, DuesAhead, SavesAhead, SavedAhead, ListAhead,
         Ahead
<1>. QED  BY <1>1, <1>2 DEF SchedInv

LEMMA SchedInvStep == ASSUME SchedInv, [SchedNext]_schedVars PROVE SchedInv'
  BY TypesStep, AnsweredStep DEF SchedInv, Answered

LEMMA SchedInvHolds == SchedSpec => []SchedInv
  BY SchedInvInit, SchedInvStep, PTL DEF SchedSpec

\* The scheduler's state is well formed.
THEOREM SchedulerTypes == SchedSpec => []SchedTypeOK
<1>1. SchedInv => SchedTypeOK
  BY DEF SchedInv
<1>. QED  BY <1>1, SchedInvHolds, PTL

\* The run that a tick starts answers every due time up to the tick, and no
\* later tick starts a run for one of these, whatever was missed, edited,
\* deleted or lost with its page in between (processDueJob, computeNextDueAt).
THEOREM DueTimesAnsweredOnce == SchedSpec => DueOnce
<1>1. ASSUME SchedInv, tick.at = "saved"
      PROVE  listed.job \in rewound \/ listed.due > served[listed.job]
  <2>1. tick.list # <<>>
    BY <1>1 DEF SchedInv, Answered, TickInPage
  <2>2. listed = tick.list[1] /\ 1 \in 1..Len(tick.list)
    BY <1>1, <2>1, ListedIs DEF SchedInv
  <2>. QED  BY <1>1, <2>2 DEF SchedInv, Answered, ListAhead
<1>2. SchedInv /\ [SchedNext]_schedVars
        => [tick.at = "saved" /\ tick'.at = "waiting" =>
              listed.job \in rewound \/ listed.due > served[listed.job]]_schedVars
  BY <1>1
<1>. QED  BY <1>2, SchedInvHolds, PTL DEF SchedSpec, DueOnce

\* What the ticker does to the runner, the runner allows: a due job is enqueued
\* as any scheduled job is, once the page is ready, and never one that interviews
\* (processDueJob, enqueue).  So what is proved of the runner holds of the two.
THEOREM SchedulerRunsJobs == SchedSpec => JobsSpec
<1>1. SchedInv /\ [SchedNext]_schedVars => [JobsNext]_jobVars
  <2>. SUFFICES ASSUME SchedInv, [SchedNext]_schedVars PROVE [JobsNext]_jobVars
    OBVIOUS
  <2>1. ASSUME NEW r \in RunIds, ~draining, EnqueueDue(r)
        PROVE  JobsNext
    <3>1. tick.list # <<>>
      BY <2>1 DEF EnqueueDue, SchedInv, Answered, TickInPage
    <3>2. listed.job \in Jobs
      BY <3>1, ListedIs DEF SchedInv, Entry
    <3>3. Scheduler
      BY <2>1, <3>2 DEF EnqueueDue, Scheduler
    <3>. QED  BY <2>1, <3>3 DEF Task, JobsNext
  <2>2. ASSUME ~draining, RunnerTask
        PROVE  JobsNext
    <3>1. ASSUME NEW r \in RunIds, Place(r) \/ finalizeRun(r) \/ onSettled(r)
          PROVE  Task
      BY <2>2, <3>1 DEF Task, Pipeline
    <3>2. ASSUME \/ \E j \in Jobs : DeleteAllRuns(j) \/ DeleteJob(j, "jobs.delete")
                 \/ \E on \in BOOLEAN : setLeanMode(on)
          PROVE  Task
      <4>1. User
        BY <3>2 DEF User
      <4>. QED  BY <2>2, <4>1 DEF Task
    <3>. QED  BY <2>2, <3>1, <3>2 DEF RunnerTask, JobsNext
  <2>3. CASE drain \/ Host \/ Load \/ Ready \/ ReloadPage \/ Quit
    BY <2>3 DEF JobsNext, PageLoad
  <2>4. ASSUME \/ StartTick \/ EndTick \/ processDueJob \/ pausedWithHome \/ EnqueueRefused \/ Enqueued
               \/ list_due_jobs \/ Elapse \/ UNCHANGED schedVars
        PROVE  UNCHANGED jobVars
    BY <2>4 DEF StartTick, EndTick, processDueJob, pausedWithHome, EnqueueRefused, Enqueued,
                list_due_jobs, Elapse, schedVars
  <2>5. ASSUME \/ \E w \in saves : set_job_next_due_at(w)
               \/ \E j \in Jobs, kind \in {"manual", "interval"} : SaveSchedule(j, kind)
               \/ \E j \in Jobs : mustGet(j)
               \/ \E c \in copies : writeJob(c)
        PROVE  UNCHANGED jobVars
    BY <2>5 DEF set_job_next_due_at, SaveSchedule, mustGet, writeJob
  <2>6. CASE ~draining /\ TickTask
    BY <2>1, <2>4, <2>6 DEF TickTask
  <2>. QED  BY <2>2, <2>3, <2>4, <2>5, <2>6 DEF SchedNext
<1>2. SchedInit => JobsInit
  BY DEF SchedInit
<1>. QED  BY <1>1, <1>2, SchedInvHolds, PTL DEF SchedSpec, JobsSpec
=============================================================================
