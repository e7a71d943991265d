-------------------------- MODULE McpServersProofs --------------------------
(***************************************************************************)
(* Theorems about McpServers, for any servers and calls and any number of  *)
(* starts and crashes.                                                     *)
(***************************************************************************)
EXTENDS McpServers, TLAPS

Recorded(a) == [id |-> start[a].server, pid |-> a] \in registry
Starting(a) == start[a].at \in {"checked", "spawned", "negotiating", "connected"}

\* Its server was stopped while a call used it.
Loose(a) == InCall(a) /\ handle[start[a].server].session # a

\* A handle, and a session, is its own server's.
HandlesOwn ==
    \A s \in Servers :
        /\ handle[s].of # None => /\ start[handle[s].of].server = s
                                  /\ start[handle[s].of].at \in {"negotiating", "connected", "done"}
        /\ handle[s].session # None => /\ start[handle[s].session].server = s
                                       /\ start[handle[s].session].at \in {"connected", "done"}

\* Starts of one server that overlap are excused.
StartsAlone ==
    \A a, b \in Starts :
        a # b /\ Starting(a) /\ Starting(b) /\ start[a].server = start[b].server => a \in excused

\* A child that lives, and what the handle and the registry say of it.
StartingKnown ==
    \A a \in Starts \ excused :
        LET h == handle[start[a].server] IN
        start[a].alive /\ Starting(a) =>
            /\ start[a].status = "Starting"
            /\ start[a].at \in {"negotiating", "connected"} => h.of = a
            /\ start[a].at = "connected" => h.session = a
            /\ Recorded(a)

ReadyKnown ==
    \A a \in Starts \ excused :
        LET h == handle[start[a].server] IN
        start[a].alive /\ start[a].at = "done" =>
            \/ /\ h.of = a /\ h.session = a /\ start[a].status = "Ready" /\ Recorded(a)
               /\ Under(start[a].server) = {}
            \/ Loose(a)
            \/ stopping = a /\ Recorded(a)

\* While a stop holds the lock, nobody but it changes its server's handle.
StopHolds ==
    stopping # None =>
        LET s == start[stopping].server IN
        /\ up /\ handle[s].session = None /\ Under(s) \subseteq excused
        /\ stopping \notin excused /\ start[stopping].alive => Under(s) = {}

\* A child lives from its spawn on, and while the app is down by the registry.
Lifetimes ==
    /\ \A a \in Starts : start[a].at \in {"none", "checked"} => ~start[a].alive
    /\ up => \A a \in Starts \ excused : start[a].at = "old" => ~start[a].alive
    /\ ~up => /\ \A s \in Servers : handle[s] = NoHandle
              /\ \A c \in Calls : call[c] = None
              /\ \A a \in Starts : start[a].at \in {"none", "old"}
              /\ \A a \in Starts \ excused : start[a].alive => Recorded(a)

\* What links the starts, the handles, the calls and the registry.
Links == HandlesOwn /\ StartsAlone /\ StartingKnown /\ ReadyKnown /\ StopHolds /\ Lifetimes

\* The inductive invariant.
McpInv == TypeOK /\ Links
-----------------------------------------------------------------------------
(* Types. *)

\* Only whether it lives is changed of a child by its killing.
LEMMA KilledIs ==
    ASSUME start \in [Starts -> Start], NEW A
    PROVE  /\ Killed(start, A) \in [Starts -> Start]
           /\ \A b \in Starts :
                /\ Killed(start, A)[b].at = start[b].at
                /\ Killed(start, A)[b].server = start[b].server
                /\ Killed(start, A)[b].status = start[b].status
                /\ Killed(start, A)[b].alive = (start[b].alive /\ b \notin A)
  BY DEF Killed, Start, Progress, Status

\* A start changes in some of its fields.
LEMMA ChangedIs ==
    ASSUME NEW st \in [Starts -> Start], NEW a \in Starts, NEW new \in Start
    PROVE  [st EXCEPT ![a] = new] \in [Starts -> Start]
  OBVIOUS

LEMMA StartTypes == ASSUME TypeOK, [Next]_vars PROVE start' \in [Starts -> Start]
<1>0. start \in [Starts -> Start] /\ handle \in [Servers -> Handle]
  BY DEF TypeOK
<1>1. ASSUME NEW s \in Servers, Check(s) PROVE start' \in [Starts -> Start]
  <2>1. PICK a \in Starts : start' = [start EXCEPT ![a].at = "checked", ![a].server = s]
    BY <1>1 DEF Check
  <2>2. [start[a] EXCEPT !.at = "checked", !.server = s] \in Start
    BY <1>0 DEF Start, Progress
  <2>3. start' = [start EXCEPT ![a] = [start[a] EXCEPT !.at = "checked", !.server = s]]
    BY <1>0, <2>1
  <2>. QED  BY <1>0, <2>2, <2>3, ChangedIs
<1>2. ASSUME NEW s \in Servers, stop(s) PROVE start' \in [Starts -> Start]
  <2>1. handle[s].of \in Starts /\ start' = [start EXCEPT ![handle[s].of].status = "Stopped"]
    BY <1>0, <1>2 DEF stop, Handle
  <2>2. [start[handle[s].of] EXCEPT !.status = "Stopped"] \in Start
    BY <1>0, <2>1 DEF Start, Status
  <2>3. start' = [start EXCEPT ![handle[s].of] = [start[handle[s].of] EXCEPT !.status = "Stopped"]]
    BY <1>0, <2>1
  <2>. QED  BY <1>0, <2>1, <2>2, <2>3, ChangedIs
<1>3. ASSUME NEW a \in Starts, Run(a) PROVE start' \in [Starts -> Start]
  <2>1. CASE Spawn(a)
    <3>1. \/ start' = [start EXCEPT ![a] = [start[a] EXCEPT !.at = "spawned", !.status = "Starting",
                                                            !.alive = TRUE]]
          \/ start' = [start EXCEPT ![a] = [start[a] EXCEPT !.at = "done"]]
      BY <1>0, <2>1 DEF Spawn
    <3>2. /\ [start[a] EXCEPT !.at = "spawned", !.status = "Starting", !.alive = TRUE] \in Start
          /\ [start[a] EXCEPT !.at = "done"] \in Start
      BY <1>0 DEF Start, Status, Progress
    <3>. QED  BY <1>0, <3>1, <3>2, ChangedIs
  <2>2. CASE Insert(a) \/ Connected(a)
    <3> DEFINE K == Killed(start, Unheld(handle[start[a].server].session))
    <3>1. K \in [Starts -> Start]
      BY <1>0, KilledIs
    <3>2. PICK at \in Progress : start' = [K EXCEPT ![a].at = at]
      BY <2>2 DEF Insert, Connected, Progress
    <3>3. [K[a] EXCEPT !.at = at] \in Start
      BY <3>1 DEF Start
    <3>4. start' = [K EXCEPT ![a] = [K[a] EXCEPT !.at = at]]
      BY <3>1, <3>2
    <3>. QED  BY <3>1, <3>3, <3>4, ChangedIs
  <2>3. CASE Settle(a)
    <3>1. start' = [start EXCEPT ![a] = [start[a] EXCEPT !.at = "done",
                      !.status = IF start[a].status = "Starting" THEN "Ready" ELSE start[a].status]]
      BY <1>0, <2>3 DEF Settle
    <3>2. [start[a] EXCEPT !.at = "done",
             !.status = IF start[a].status = "Starting" THEN "Ready" ELSE start[a].status] \in Start
      BY <1>0 DEF Start, Status, Progress
    <3>. QED  BY <1>0, <3>1, <3>2, ChangedIs
  <2>4. CASE Fail(a)
    <3>1. start' = [start EXCEPT ![a] = [start[a] EXCEPT !.at = "done", !.status = "Error",
                                                         !.alive = FALSE]]
      BY <1>0, <2>4 DEF Fail
    <3>2. [start[a] EXCEPT !.at = "done", !.status = "Error", !.alive = FALSE] \in Start
      BY <1>0 DEF Start, Status, Progress
    <3>. QED  BY <1>0, <3>1, <3>2, ChangedIs
  <2>5. CASE Exit(a)
    <3>1. start' = [start EXCEPT ![a] = [start[a] EXCEPT !.alive = FALSE]]
      BY <1>0, <2>5 DEF Exit
    <3>2. [start[a] EXCEPT !.alive = FALSE] \in Start
      BY <1>0 DEF Start
    <3>. QED  BY <1>0, <3>1, <3>2, ChangedIs
  <2>6. CASE stderr_reader(a)
    <3>1. start' = [start EXCEPT ![a] = [start[a] EXCEPT !.exited = TRUE,
             !.status = IF start[a].status \in {"Starting", "Ready"} THEN "Error"
                        ELSE start[a].status]]
      BY <1>0, <2>6 DEF stderr_reader
    <3>2. [start[a] EXCEPT !.exited = TRUE,
             !.status = IF start[a].status \in {"Starting", "Ready"} THEN "Error"
                        ELSE start[a].status] \in Start
      BY <1>0 DEF Start, Status
    <3>. QED  BY <1>0, <3>1, <3>2, ChangedIs
  <2>. QED  BY <1>3, <2>1, <2>2, <2>3, <2>4, <2>5, <2>6 DEF Run
<1>4. ASSUME NEW c \in Calls, call_tool(c) \/ Return(c) PROVE start' \in [Starts -> Start]
  BY <1>0, <1>4, KilledIs DEF call_tool, Return
<1>5. CASE StopEnds \/ sweep
  BY <1>0, <1>5, KilledIs DEF StopEnds, sweep
<1>6. CASE Crash
  <2>1. \A a \in Starts :
          [start[a] EXCEPT !.at = "old", !.status = "Stopped", !.exited = FALSE] \in Start
    BY <1>0 DEF Start, Status, Progress
  <2>. QED  BY <1>0, <1>6, <2>1 DEF Crash
<1>7. CASE UNCHANGED vars
  BY <1>0, <1>7 DEF vars
<1>. QED  BY <1>1, <1>2, <1>3, <1>4, <1>5, <1>6, <1>7 DEF Next

LEMMA TypesStep == ASSUME TypeOK, [Next]_vars PROVE TypeOK'
<1>0. /\ start \in [Starts -> Start] /\ handle \in [Servers -> Handle]
      /\ call \in [Calls -> Starts \cup {None}] /\ stopping \in Starts \cup {None}
      /\ registry \subseteq [id : Servers, pid : Starts]
      /\ up \in BOOLEAN /\ crashes \in Nat /\ excused \subseteq Starts
      /\ \A a \in Starts : start[a].server \in Servers
  BY DEF TypeOK, Start
<1>1. start' \in [Starts -> Start]
  BY StartTypes
<1>2. handle' \in [Servers -> Handle]
  <2>1. ASSUME NEW s \in Servers, Check(s) \/ stop(s) PROVE handle' \in [Servers -> Handle]
    BY <1>0, <2>1 DEF Check, stop, Handle
  <2>2. ASSUME NEW a \in Starts, Run(a) PROVE handle' \in [Servers -> Handle]
    <3>1. CASE Insert(a) \/ Connected(a)
      <4>1. PICK h \in Handle : handle' = [handle EXCEPT ![start[a].server] = h]
        <5>1. start[a].server \in Servers /\ handle[start[a].server] \in Handle
          BY <1>0
        <5>2. CASE Insert(a)
          <6>1. [of |-> a, session |-> None] \in Handle
            BY DEF Handle
          <6>. QED  BY <5>2, <6>1 DEF Insert
        <5>3. CASE Connected(a)
          <6>1. [handle[start[a].server] EXCEPT !.session = a] \in Handle
            BY <5>1 DEF Handle
          <6>2. handle' = [handle EXCEPT ![start[a].server] =
                             [handle[start[a].server] EXCEPT !.session = a]]
            BY <5>3 DEF Connected
          <6>. QED  BY <6>1, <6>2
        <5>. QED  BY <3>1, <5>2, <5>3
      <4>. QED  BY <1>0, <4>1
    <3>2. CASE handle' = handle
      BY <1>0, <3>2
    <3>. QED  BY <2>2, <3>1, <3>2 DEF Run, Spawn, Settle, Fail, Exit, stderr_reader
  <2>3. ASSUME NEW c \in Calls, call_tool(c) \/ Return(c) PROVE handle' \in [Servers -> Handle]
    BY <1>0, <2>3 DEF call_tool, Return
  <2>4. CASE StopEnds \/ sweep \/ UNCHANGED vars
    BY <1>0, <2>4 DEF StopEnds, sweep, vars
  <2>5. CASE Crash
    <3>1. NoHandle \in Handle /\ handle' = [s \in Servers |-> NoHandle]
      BY <2>5 DEF Crash, NoHandle, Handle
    <3>. QED  BY <3>1
  <2>. QED  BY <2>1, <2>2, <2>3, <2>4, <2>5 DEF Next
<1>3. registry' \subseteq [id : Servers, pid : Starts]
  <2>1. ASSUME NEW s \in Servers, NEW a \in Starts, register(s, a)
        PROVE  registry' \subseteq [id : Servers, pid : Starts]
    BY <1>0, <2>1 DEF register
  <2>2. ASSUME NEW s \in Servers, deregister(s)
        PROVE  registry' \subseteq [id : Servers, pid : Starts]
    BY <1>0, <2>2 DEF deregister
  <2>3. ASSUME NEW s \in Servers, Check(s) \/ stop(s)
        PROVE  registry' \subseteq [id : Servers, pid : Starts]
    BY <1>0, <2>2, <2>3 DEF Check, stop
  <2>4. ASSUME NEW a \in Starts, Run(a) PROVE registry' \subseteq [id : Servers, pid : Starts]
    BY <1>0, <2>1, <2>2, <2>4
       DEF Run, Spawn, Insert, Connected, Settle, Fail, Exit, stderr_reader
  <2>5. ASSUME NEW c \in Calls, call_tool(c) \/ Return(c)
        PROVE  registry' \subseteq [id : Servers, pid : Starts]
    BY <1>0, <2>5 DEF call_tool, Return
  <2>6. CASE StopEnds
    BY <1>0, <2>2, <2>6 DEF StopEnds
  <2>7. CASE Crash \/ sweep \/ UNCHANGED vars
    BY <1>0, <2>7 DEF Crash, sweep, vars
  <2>. QED  BY <2>3, <2>4, <2>5, <2>6, <2>7 DEF Next
<1> DEFINE Rest == /\ call \in [Calls -> Starts \cup {None}] /\ stopping \in Starts \cup {None}
                   /\ up \in BOOLEAN /\ crashes \in Nat /\ excused \subseteq Starts
<1>4. Rest'
  <2>1. ASSUME NEW s \in Servers, Check(s) \/ stop(s) PROVE Rest'
    BY <1>0, <2>1 DEF Check, stop, Under, Handle
  <2>2. ASSUME NEW a \in Starts, Run(a) PROVE Rest'
    BY <1>0, <2>2 DEF Run, Spawn, Insert, Connected, Settle, Fail, Exit, stderr_reader
  <2>3. ASSUME NEW c \in Calls, call_tool(c) \/ Return(c) PROVE Rest'
    BY <1>0, <2>3 DEF call_tool, Return, Handle
  <2>4. CASE StopEnds \/ sweep \/ UNCHANGED vars
    BY <1>0, <2>4 DEF StopEnds, sweep, vars
  <2>5. CASE Crash
    <3>0. call' = [c \in Calls |-> None] /\ stopping' = None
      BY <2>5 DEF Crash
    <3>1. call' \in [Calls -> Starts \cup {None}] /\ stopping' \in Starts \cup {None}
      BY <3>0
    <3>2. up' = FALSE /\ crashes' = crashes + 1
      BY <2>5 DEF Crash
    <3>3. excused' \subseteq Starts
      BY <1>0, <2>5 DEF Crash
    <3>4. up' \in BOOLEAN
      BY <3>2
    <3>5. crashes' \in Nat
      BY <1>0, <3>2
    <3>. QED  BY <3>1, <3>3, <3>4, <3>5
  <2>. QED  BY <2>1, <2>2, <2>3, <2>4, <2>5 DEF Next
<1>. QED  BY <1>1, <1>2, <1>3, <1>4 DEF TypeOK

-----------------------------------------------------------------------------
(* Every action keeps what links the starts, the handles, the calls and the
   registry. *)

LEMMA CheckKeeps == ASSUME McpInv, NEW s \in Servers, Check(s) PROVE Links'
<1>. USE McpAssumption
     DEF Links, HandlesOwn, StartsAlone, StartingKnown, ReadyKnown, StopHolds, Lifetimes,
         Starting, Recorded, Loose, InCall, Under, Unlocked, Unheld, status, register,
         deregister, Start, Handle, NoHandle, Status, Progress, None, Starts
<1>0. TypeOK /\ TypeOK' /\ Links
  BY TypesStep DEF McpInv, Next, Run
<1>t. /\ start \in [Starts -> Start] /\ handle \in [Servers -> Handle]
      /\ call \in [Calls -> Starts \cup {None}] /\ stopping \in Starts \cup {None}
  BY <1>0 DEF TypeOK
<1>1. HandlesOwn'
  BY <1>0, <1>t DEF Check
<1>2. StartsAlone'
  BY <1>0, <1>t DEF Check
<1>3. StartingKnown'
  BY <1>0, <1>t DEF Check
<1>4. ReadyKnown'
  BY <1>0, <1>t DEF Check
<1>5. StopHolds'
  BY <1>0, <1>t DEF Check
<1>6. Lifetimes'
  BY <1>0, <1>t DEF Check
<1>. QED  BY <1>1, <1>2, <1>3, <1>4, <1>5, <1>6

LEMMA SpawnKeeps == ASSUME McpInv, NEW a \in Starts, Spawn(a) PROVE Links'
<1>. USE McpAssumption
     DEF Links, HandlesOwn, StartsAlone, StartingKnown, ReadyKnown, StopHolds, Lifetimes,
         Starting, Recorded, Loose, InCall, Under, Unlocked, Unheld, status, register,
         deregister, Start, Handle, NoHandle, Status, Progress, None, Starts
<1>0. TypeOK /\ TypeOK' /\ Links
  BY TypesStep DEF McpInv, Next, Run
<1>t. /\ start \in [Starts -> Start] /\ handle \in [Servers -> Handle]
      /\ call \in [Calls -> Starts \cup {None}] /\ stopping \in Starts \cup {None}
  BY <1>0 DEF TypeOK
<1>1. /\ up /\ start[a].at = "checked"
      /\ UNCHANGED <<handle, call, stopping, up, excused>>
  BY DEF Spawn
<1>2. CASE start' = [start EXCEPT ![a].at = "done"] /\ UNCHANGED registry
  <2>1. \A b \in Starts :
          /\ start'[b].at = IF b = a THEN "done" ELSE start[b].at
          /\ start'[b].server = start[b].server /\ start'[b].status = start[b].status
          /\ start'[b].alive = start[b].alive
    BY <1>t, <1>2
  <2>u. \A r \in Servers : Under(r)' \subseteq Under(r)
    BY <1>1, <2>1
  <2>2. HandlesOwn'
    BY <1>0, <1>t, <1>1, <2>1, <1>2
  <2>3. StartsAlone'
    BY <1>0, <1>t, <1>1, <2>1, <1>2
  <2>4. StartingKnown'
    BY <1>0, <1>t, <1>1, <2>1, <1>2
  <2>5. ReadyKnown'
    BY <1>0, <1>t, <1>1, <2>1, <2>u, <1>2
  <2>6. StopHolds'
    BY <1>0, <1>t, <1>1, <2>1, <1>2
  <2>7. Lifetimes'
    BY <1>0, <1>t, <1>1, <2>1, <1>2
  <2>. QED  BY <2>2, <2>3, <2>4, <2>5, <2>6, <2>7
<1>3. CASE /\ start' = [start EXCEPT ![a].at = "spawned", ![a].status = "Starting",
                                    ![a].alive = TRUE]
           /\ register(start[a].server, a)
  <2>1. \A b \in Starts :
          /\ start'[b].at = IF b = a THEN "spawned" ELSE start[b].at
          /\ start'[b].server = start[b].server
          /\ start'[b].status = IF b = a THEN "Starting" ELSE start[b].status
          /\ start'[b].alive = (b = a \/ start[b].alive)
    BY <1>t, <1>3
  <2>r. registry' = {e \in registry : e.id # start[a].server}
                       \cup {[id |-> start[a].server, pid |-> a]}
    BY <1>3
  <2>u. \A r \in Servers : Under(r)' = Under(r)
    BY <1>1, <2>1
  <2>2. HandlesOwn'
    BY <1>0, <1>t, <1>1, <2>1, <2>r
  <2>3. StartsAlone'
    BY <1>0, <1>t, <1>1, <2>1, <2>r
  <2>4. StartingKnown'
    BY <1>0, <1>t, <1>1, <2>1, <2>r
  <2>5. ReadyKnown'
    BY <1>0, <1>t, <1>1, <2>1, <2>u, <2>r
  <2>6. StopHolds'
    <3>1. stopping' = stopping /\ handle' = handle /\ up' = up /\ excused' = excused
      BY <1>1
    <3>. SUFFICES ASSUME stopping # None, stopping \notin excused, start'[stopping].alive
                  PROVE  Under(start[stopping].server) = {}
      BY <1>0, <1>t, <2>1, <2>u, <3>1
    <3>2. a \in Under(start[a].server)
      BY <1>1
    <3>3. stopping # a
      BY <1>0, <3>2
    <3>. QED  BY <1>0, <1>t, <2>1, <3>3
  <2>7. Lifetimes'
    BY <1>0, <1>t, <1>1, <2>1, <2>r
  <2>. QED  BY <2>2, <2>3, <2>4, <2>5, <2>6, <2>7
<1>. QED  BY <1>2, <1>3 DEF Spawn

LEMMA InsertKeeps == ASSUME McpInv, NEW a \in Starts, Insert(a) PROVE Links'
<1>. USE McpAssumption
     DEF Links, HandlesOwn, StartsAlone, StartingKnown, ReadyKnown, StopHolds, Lifetimes,
         Starting, Recorded, Loose, InCall, Under, Unlocked, Unheld, status, register,
         deregister, Start, Handle, NoHandle, Status, Progress, None, Starts
<1>0. TypeOK /\ TypeOK' /\ Links
  BY TypesStep DEF McpInv, Next, Run
<1>t. /\ start \in [Starts -> Start] /\ handle \in [Servers -> Handle]
      /\ call \in [Calls -> Starts \cup {None}] /\ stopping \in Starts \cup {None}
  BY <1>0 DEF TypeOK
<1> DEFINE K == Unheld(handle[start[a].server].session)
<1>1. \A b \in Starts :
          /\ start'[b].at = IF b = a THEN "negotiating" ELSE start[b].at
          /\ start'[b].server = start[b].server /\ start'[b].status = start[b].status
          /\ start'[b].alive = (start[b].alive /\ b \notin K)
  <2> DEFINE L == Killed(start, K)
  <2>1. L \in [Starts -> Start] /\ start' = [L EXCEPT ![a].at = "negotiating"]
    BY <1>t, KilledIs DEF Insert
  <2>2. \A b \in Starts :
          /\ L[b].at = start[b].at /\ L[b].server = start[b].server
          /\ L[b].status = start[b].status /\ L[b].alive = (start[b].alive /\ b \notin K)
    BY <1>t, KilledIs
  <2>. HIDE DEF L, K
  <2>. QED  BY <2>1, <2>2
<1>2. \A r \in Servers :
          /\ handle'[r].of = IF r = start[a].server THEN a ELSE handle[r].of
          /\ handle'[r].session = IF r = start[a].server THEN None ELSE handle[r].session
  BY <1>t DEF Insert
<1>3. /\ start[a].at = "spawned" /\ up /\ stopping = None
      /\ UNCHANGED <<call, stopping, registry, up, excused>>
  BY DEF Insert
<1>4. HandlesOwn'
  BY <1>0, <1>t, <1>1, <1>2, <1>3
<1>5. StartsAlone'
  BY <1>0, <1>t, <1>1, <1>2, <1>3
<1>6. StartingKnown'
  BY <1>0, <1>t, <1>1, <1>2, <1>3
<1>7. ReadyKnown'
  <2>1. \A r \in Servers : Under(r)' = Under(r)
    BY <1>1, <1>3
  <2>2. ASSUME NEW b \in Starts \ excused, start[b].alive, start[b].at = "done"
        PROVE  \/ /\ start[b].server # start[a].server /\ Under(start[b].server) = {}
                  /\ handle[start[b].server].of = b /\ handle[start[b].server].session = b
                  /\ start[b].status = "Ready" /\ Recorded(b)
               \/ Loose(b)
    <3>1. a \in Under(start[a].server)
      BY <1>3
    <3>. QED  BY <1>0, <1>3, <2>2, <3>1
  <2>. QED  BY <1>0, <1>t, <1>1, <1>2, <1>3, <2>1, <2>2
<1>8. StopHolds'
  BY <1>0, <1>t, <1>1, <1>2, <1>3
<1>9. Lifetimes'
  BY <1>0, <1>t, <1>1, <1>2, <1>3
<1>. QED  BY <1>4, <1>5, <1>6, <1>7, <1>8, <1>9

LEMMA ConnectedKeeps == ASSUME McpInv, NEW a \in Starts, Connected(a) PROVE Links'
<1>. USE McpAssumption
     DEF Links, HandlesOwn, StartsAlone, StartingKnown, ReadyKnown, StopHolds, Lifetimes,
         Starting, Recorded, Loose, InCall, Under, Unlocked, Unheld, status, register,
         deregister, Start, Handle, NoHandle, Status, Progress, None, Starts
<1>0. TypeOK /\ TypeOK' /\ Links
  BY TypesStep DEF McpInv, Next, Run
<1>t. /\ start \in [Starts -> Start] /\ handle \in [Servers -> Handle]
      /\ call \in [Calls -> Starts \cup {None}] /\ stopping \in Starts \cup {None}
  BY <1>0 DEF TypeOK
<1> DEFINE K == Unheld(handle[start[a].server].session)
<1>1. \A b \in Starts :
          /\ start'[b].at = IF b = a THEN "connected" ELSE start[b].at
          /\ start'[b].server = start[b].server /\ start'[b].status = start[b].status
          /\ start'[b].alive = (start[b].alive /\ b \notin K)
  <2> DEFINE L == Killed(start, K)
  <2>1. L \in [Starts -> Start] /\ start' = [L EXCEPT ![a].at = "connected"]
    BY <1>t, KilledIs DEF Connected
  <2>2. \A b \in Starts :
          /\ L[b].at = start[b].at /\ L[b].server = start[b].server
          /\ L[b].status = start[b].status /\ L[b].alive = (start[b].alive /\ b \notin K)
    BY <1>t, KilledIs
  <2>. HIDE DEF L, K
  <2>. QED  BY <2>1, <2>2
<1>2. \A r \in Servers :
          /\ handle'[r].of = handle[r].of
          /\ handle'[r].session = IF r = start[a].server THEN a ELSE handle[r].session
  BY <1>t DEF Connected
<1>3. /\ start[a].at = "negotiating" /\ up /\ stopping = None
      /\ start[a].alive
      /\ UNCHANGED <<call, stopping, registry, up, excused>>
  BY DEF Connected
<1>4. HandlesOwn'
  BY <1>0, <1>t, <1>1, <1>2, <1>3
<1>5. StartsAlone'
  BY <1>0, <1>t, <1>1, <1>2, <1>3
<1>6. StartingKnown'
  BY <1>0, <1>t, <1>1, <1>2, <1>3
<1>7. ReadyKnown'
  <2>1. \A r \in Servers : Under(r)' = Under(r)
    BY <1>1, <1>3
  <2>2. ASSUME NEW b \in Starts \ excused, start[b].alive, start[b].at = "done"
        PROVE  \/ /\ start[b].server # start[a].server /\ Under(start[b].server) = {}
                  /\ handle[start[b].server].of = b /\ handle[start[b].server].session = b
                  /\ start[b].status = "Ready" /\ Recorded(b)
               \/ Loose(b)
    <3>1. a \in Under(start[a].server)
      BY <1>3
    <3>. QED  BY <1>0, <1>3, <2>2, <3>1
  <2>. QED  BY <1>0, <1>t, <1>1, <1>2, <1>3, <2>1, <2>2
<1>8. StopHolds'
  BY <1>0, <1>t, <1>1, <1>2, <1>3
<1>9. Lifetimes'
  BY <1>0, <1>t, <1>1, <1>2, <1>3
<1>. QED  BY <1>4, <1>5, <1>6, <1>7, <1>8, <1>9

LEMMA SettleKeeps == ASSUME McpInv, NEW a \in Starts, Settle(a) PROVE Links'
<1>. USE McpAssumption
     DEF Links, HandlesOwn, StartsAlone, StartingKnown, ReadyKnown, StopHolds, Lifetimes,
         Starting, Recorded, Loose, InCall, Under, Unlocked, Unheld, status, register,
         deregister, Start, Handle, NoHandle, Status, Progress, None, Starts
<1>0. TypeOK /\ TypeOK' /\ Links
  BY TypesStep DEF McpInv, Next, Run
<1>t. /\ start \in [Starts -> Start] /\ handle \in [Servers -> Handle]
      /\ call \in [Calls -> Starts \cup {None}] /\ stopping \in Starts \cup {None}
  BY <1>0 DEF TypeOK
<1>1. HandlesOwn'
  BY <1>0, <1>t DEF Settle
<1>2. StartsAlone'
  BY <1>0, <1>t DEF Settle
<1>3. StartingKnown'
  BY <1>0, <1>t DEF Settle
<1>4. ReadyKnown'
  BY <1>0, <1>t DEF Settle
<1>5. StopHolds'
  BY <1>0, <1>t DEF Settle
<1>6. Lifetimes'
  BY <1>0, <1>t DEF Settle
<1>. QED  BY <1>1, <1>2, <1>3, <1>4, <1>5, <1>6

LEMMA FailKeeps == ASSUME McpInv, NEW a \in Starts, Fail(a) PROVE Links'
<1>. USE McpAssumption
     DEF Links, HandlesOwn, StartsAlone, StartingKnown, ReadyKnown, StopHolds, Lifetimes,
         Starting, Recorded, Loose, InCall, Under, Unlocked, Unheld, status, register,
         deregister, Start, Handle, NoHandle, Status, Progress, None, Starts
<1>0. TypeOK /\ TypeOK' /\ Links
  BY TypesStep DEF McpInv, Next, Run
<1>t. /\ start \in [Starts -> Start] /\ handle \in [Servers -> Handle]
      /\ call \in [Calls -> Starts \cup {None}] /\ stopping \in Starts \cup {None}
  BY <1>0 DEF TypeOK
<1>1. HandlesOwn'
  BY <1>0, <1>t DEF Fail
<1>2. StartsAlone'
  BY <1>0, <1>t DEF Fail
<1>3. StartingKnown'
  BY <1>0, <1>t DEF Fail
<1>4. ReadyKnown'
  BY <1>0, <1>t DEF Fail
<1>5. StopHolds'
  BY <1>0, <1>t DEF Fail
<1>6. Lifetimes'
  BY <1>0, <1>t DEF Fail
<1>. QED  BY <1>1, <1>2, <1>3, <1>4, <1>5, <1>6

LEMMA ExitKeeps == ASSUME McpInv, NEW a \in Starts, Exit(a) PROVE Links'
<1>. USE McpAssumption
     DEF Links, HandlesOwn, StartsAlone, StartingKnown, ReadyKnown, StopHolds, Lifetimes,
         Starting, Recorded, Loose, InCall, Under, Unlocked, Unheld, status, register,
         deregister, Start, Handle, NoHandle, Status, Progress, None, Starts
<1>0. TypeOK /\ TypeOK' /\ Links
  BY TypesStep DEF McpInv, Next, Run
<1>t. /\ start \in [Starts -> Start] /\ handle \in [Servers -> Handle]
      /\ call \in [Calls -> Starts \cup {None}] /\ stopping \in Starts \cup {None}
  BY <1>0 DEF TypeOK
<1>1. HandlesOwn'
  BY <1>0, <1>t DEF Exit
<1>2. StartsAlone'
  BY <1>0, <1>t DEF Exit
<1>3. StartingKnown'
  BY <1>0, <1>t DEF Exit
<1>4. ReadyKnown'
  BY <1>0, <1>t DEF Exit
<1>5. StopHolds'
  BY <1>0, <1>t DEF Exit
<1>6. Lifetimes'
  BY <1>0, <1>t DEF Exit
<1>. QED  BY <1>1, <1>2, <1>3, <1>4, <1>5, <1>6

LEMMA stderr_readerKeeps == ASSUME McpInv, NEW a \in Starts, stderr_reader(a) PROVE Links'
<1>. USE McpAssumption
     DEF Links, HandlesOwn, StartsAlone, StartingKnown, ReadyKnown, StopHolds, Lifetimes,
         Starting, Recorded, Loose, InCall, Under, Unlocked, Unheld, status, register,
         deregister, Start, Handle, NoHandle, Status, Progress, None, Starts
<1>0. TypeOK /\ TypeOK' /\ Links
  BY TypesStep DEF McpInv, Next, Run
<1>t. /\ start \in [Starts -> Start] /\ handle \in [Servers -> Handle]
      /\ call \in [Calls -> Starts \cup {None}] /\ stopping \in Starts \cup {None}
  BY <1>0 DEF TypeOK
<1>1. HandlesOwn'
  BY <1>0, <1>t DEF stderr_reader
<1>2. StartsAlone'
  BY <1>0, <1>t DEF stderr_reader
<1>3. StartingKnown'
  BY <1>0, <1>t DEF stderr_reader
<1>4. ReadyKnown'
  BY <1>0, <1>t DEF stderr_reader
<1>5. StopHolds'
  BY <1>0, <1>t DEF stderr_reader
<1>6. Lifetimes'
  BY <1>0, <1>t DEF stderr_reader
<1>. QED  BY <1>1, <1>2, <1>3, <1>4, <1>5, <1>6

LEMMA call_toolKeeps == ASSUME McpInv, NEW c \in Calls, call_tool(c) PROVE Links'
<1>. USE McpAssumption
     DEF Links, HandlesOwn, StartsAlone, StartingKnown, ReadyKnown, StopHolds, Lifetimes,
         Starting, Recorded, Loose, InCall, Under, Unlocked, Unheld, status, register,
         deregister, Start, Handle, NoHandle, Status, Progress, None, Starts
<1>0. TypeOK /\ TypeOK' /\ Links
  BY TypesStep DEF McpInv, Next, Run
<1>t. /\ start \in [Starts -> Start] /\ handle \in [Servers -> Handle]
      /\ call \in [Calls -> Starts \cup {None}] /\ stopping \in Starts \cup {None}
  BY <1>0 DEF TypeOK
<1>1. HandlesOwn'
  BY <1>0, <1>t DEF call_tool
<1>2. StartsAlone'
  BY <1>0, <1>t DEF call_tool
<1>3. StartingKnown'
  BY <1>0, <1>t DEF call_tool
<1>4. ReadyKnown'
  BY <1>0, <1>t DEF call_tool
<1>5. StopHolds'
  BY <1>0, <1>t DEF call_tool
<1>6. Lifetimes'
  BY <1>0, <1>t DEF call_tool
<1>. QED  BY <1>1, <1>2, <1>3, <1>4, <1>5, <1>6

LEMMA ReturnKeeps == ASSUME McpInv, NEW c \in Calls, Return(c) PROVE Links'
<1>. USE McpAssumption
     DEF Links, HandlesOwn, StartsAlone, StartingKnown, ReadyKnown, StopHolds, Lifetimes,
         Starting, Recorded, Loose, InCall, Under, Unlocked, Unheld, status, register,
         deregister, Start, Handle, NoHandle, Status, Progress, None, Starts
<1>0. TypeOK /\ TypeOK' /\ Links
  BY TypesStep DEF McpInv, Next, Run
<1>t. /\ start \in [Starts -> Start] /\ handle \in [Servers -> Handle]
      /\ call \in [Calls -> Starts \cup {None}] /\ stopping \in Starts \cup {None}
  BY <1>0 DEF TypeOK
<1>1. HandlesOwn'
  BY <1>0, <1>t, KilledIs DEF Return
<1>2. StartsAlone'
  BY <1>0, <1>t, KilledIs DEF Return
<1>3. StartingKnown'
  BY <1>0, <1>t, KilledIs DEF Return
<1>4. ReadyKnown'
  <2>1. \A b \in Starts :
          /\ start'[b].at = start[b].at /\ start'[b].server = start[b].server
          /\ start'[b].status = start[b].status
          /\ start'[b].alive =>
               /\ start[b].alive
               /\ b = call[c] => \/ \E s \in Servers : handle[s].session = b
                                 \/ \E d \in Calls \ {c} : call[d] = b
    BY <1>t, KilledIs DEF Return
  <2>2. /\ call' = [call EXCEPT ![c] = None]
        /\ UNCHANGED <<handle, stopping, registry, excused>>
    BY DEF Return
  <2>3. \A r \in Servers : Under(r)' = Under(r)
    BY <2>1, <2>2
  <2>4. \A b \in Starts : start'[b].alive /\ Loose(b) => Loose(b)'
    <3>. SUFFICES ASSUME NEW b \in Starts, start'[b].alive, Loose(b) PROVE Loose(b)'
      OBVIOUS
    <3>1. ~\E s \in Servers : handle[s].session = b
      BY <1>0, <1>t
    <3>2. PICK d \in Calls : call[d] = b /\ d # c
      BY <2>1, <3>1
    <3>. QED  BY <1>t, <2>1, <2>2, <3>2
  <2>. QED  BY <1>0, <2>1, <2>2, <2>3, <2>4
<1>5. StopHolds'
  BY <1>0, <1>t, KilledIs DEF Return
<1>6. Lifetimes'
  BY <1>0, <1>t, KilledIs DEF Return
<1>. QED  BY <1>1, <1>2, <1>3, <1>4, <1>5, <1>6

LEMMA stopKeeps == ASSUME McpInv, NEW s \in Servers, stop(s) PROVE Links'
<1>. USE McpAssumption
     DEF Links, HandlesOwn, StartsAlone, StartingKnown, ReadyKnown, StopHolds, Lifetimes,
         Starting, Recorded, Loose, InCall, Under, Unlocked, Unheld, status, register,
         deregister, Start, Handle, NoHandle, Status, Progress, None, Starts
<1>0. TypeOK /\ TypeOK' /\ Links
  BY TypesStep DEF McpInv, Next, Run
<1>t. /\ start \in [Starts -> Start] /\ handle \in [Servers -> Handle]
      /\ call \in [Calls -> Starts \cup {None}] /\ stopping \in Starts \cup {None}
  BY <1>0 DEF TypeOK
<1>1. HandlesOwn'
  BY <1>0, <1>t DEF stop
<1>2. StartsAlone'
  BY <1>0, <1>t DEF stop
<1>3. StartingKnown'
  BY <1>0, <1>t DEF stop
<1>4. ReadyKnown'
  BY <1>0, <1>t DEF stop
<1>5. StopHolds'
  <2> DEFINE a == handle[s].session
  <2>1. /\ stopping = None /\ up /\ up' = up /\ call' = call
        /\ stopping' # None => stopping' = a
        /\ handle' = [handle EXCEPT ![s].session = None]
        /\ excused' = excused \cup Under(s)
    BY DEF stop
  <2>2. \A b \in Starts :
          /\ start'[b].at = start[b].at /\ start'[b].server = start[b].server
          /\ start'[b].alive = start[b].alive
    BY <1>t DEF stop
  <2>3. Under(s)' = Under(s) /\ handle'[s].session = None
    BY <1>t, <2>1, <2>2
  <2>. SUFFICES ASSUME stopping' # None
                PROVE  /\ a \in Starts /\ start[a].server = s
                       /\ a \notin excused /\ a \notin Under(s) /\ start[a].alive => Under(s) = {}
    BY <2>1, <2>2, <2>3
  <2>4. a \in Starts /\ start[a].server = s /\ start[a].at \in {"connected", "done"}
    BY <1>0, <1>t, <2>1
  <2>5. a \notin Under(s) => start[a].at = "done"
    BY <2>4
  <2>6. a \notin excused /\ a \notin Under(s) /\ start[a].alive =>
          \/ Under(s) = {}
          \/ handle[s].session # a
          \/ stopping = a
    <3>. SUFFICES ASSUME a \notin excused, a \notin Under(s), start[a].alive
                  PROVE  Under(s) = {} \/ handle[s].session # a \/ stopping = a
      OBVIOUS
    <3>1. a \in Starts \ excused /\ start[a].at = "done" /\ start[a].server = s
      BY <2>4, <2>5
    <3>2. ReadyKnown
      BY <1>0
    <3>. HIDE DEF a
    <3>. QED  BY <3>1, <3>2
  <2>. QED  BY <2>1, <2>4, <2>6
<1>6. Lifetimes'
  BY <1>0, <1>t DEF stop
<1>. QED  BY <1>1, <1>2, <1>3, <1>4, <1>5, <1>6

LEMMA StopEndsKeeps == ASSUME McpInv, StopEnds PROVE Links'
<1>. USE McpAssumption
     DEF Links, HandlesOwn, StartsAlone, StartingKnown, ReadyKnown, StopHolds, Lifetimes,
         Starting, Recorded, Loose, InCall, Under, Unlocked, Unheld, status, register,
         deregister, Start, Handle, NoHandle, Status, Progress, None, Starts
<1>0. TypeOK /\ TypeOK' /\ Links
  BY TypesStep DEF McpInv, Next, Run
<1>t. /\ start \in [Starts -> Start] /\ handle \in [Servers -> Handle]
      /\ call \in [Calls -> Starts \cup {None}] /\ stopping \in Starts \cup {None}
  BY <1>0 DEF TypeOK
<1>1. HandlesOwn'
  BY <1>0, <1>t, KilledIs DEF StopEnds
<1>2. StartsAlone'
  BY <1>0, <1>t, KilledIs DEF StopEnds
<1>3. StartingKnown'
  <2>1. \A b \in Starts :
          /\ start'[b].at = start[b].at /\ start'[b].server = start[b].server
          /\ start'[b].status = start[b].status
          /\ start'[b].alive = (start[b].alive /\ b # stopping)
    BY <1>t, KilledIs DEF StopEnds
  <2>2. /\ stopping # None /\ UNCHANGED <<handle, excused>>
        /\ registry' = {e \in registry : e.id # start[stopping].server}
    BY DEF StopEnds
  <2>3. \A b \in Starts \ excused : Starting(b) => start[b].server # start[stopping].server
    BY <1>0, <2>2
  <2>4. \A b \in Starts : Recorded(b) /\ start[b].server # start[stopping].server => Recorded(b)'
    BY <2>1, <2>2
  <2>. SUFFICES ASSUME NEW b \in Starts, b \notin excused', start'[b].alive, Starting(b)'
                PROVE  /\ start'[b].status = "Starting" /\ Recorded(b)'
                       /\ start'[b].at \in {"negotiating", "connected"} =>
                            handle'[start'[b].server].of = b
                       /\ start'[b].at = "connected" => handle'[start'[b].server].session = b
    OBVIOUS
  <2>5. b \notin excused /\ start[b].alive /\ Starting(b)
    BY <2>1, <2>2
  <2>6. /\ start[b].status = "Starting" /\ Recorded(b)
        /\ start[b].at \in {"negotiating", "connected"} => handle[start[b].server].of = b
        /\ start[b].at = "connected" => handle[start[b].server].session = b
    BY <1>0, <2>5
  <2>. QED  BY <2>1, <2>2, <2>3, <2>4, <2>5, <2>6
<1>4. ReadyKnown'
  BY <1>0, <1>t, KilledIs DEF StopEnds
<1>5. StopHolds'
  BY <1>0, <1>t, KilledIs DEF StopEnds
<1>6. Lifetimes'
  BY <1>0, <1>t, KilledIs DEF StopEnds
<1>. QED  BY <1>1, <1>2, <1>3, <1>4, <1>5, <1>6

LEMMA CrashKeeps == ASSUME McpInv, Crash PROVE Links'
<1>. USE McpAssumption
     DEF Links, HandlesOwn, StartsAlone, StartingKnown, ReadyKnown, StopHolds, Lifetimes,
         Starting, Recorded, Loose, InCall, Under, Unlocked, Unheld, status, register,
         deregister, Start, Handle, NoHandle, Status, Progress, None, Starts
<1>0. TypeOK /\ TypeOK' /\ Links
  BY TypesStep DEF McpInv, Next, Run
<1>t. /\ start \in [Starts -> Start] /\ handle \in [Servers -> Handle]
      /\ call \in [Calls -> Starts \cup {None}] /\ stopping \in Starts \cup {None}
  BY <1>0 DEF TypeOK
<1>1. \A b \in Starts :
          /\ start'[b].at = IF start[b].at = "none" THEN "none" ELSE "old"
          /\ start'[b].server = start[b].server /\ start'[b].alive = start[b].alive
  BY <1>t DEF Crash
<1>2. /\ up /\ ~up' /\ stopping' = None /\ registry' = registry
      /\ excused' = excused \cup
           {b \in Starts : InCall(b) /\ \A s \in Servers : handle[s].session # b}
      /\ \A s \in Servers : handle'[s] = NoHandle
      /\ \A c \in Calls : call'[c] = None
  BY DEF Crash
<1>3. HandlesOwn'
  BY <1>0, <1>t, <1>1, <1>2
<1>4. StartsAlone'
  BY <1>0, <1>t, <1>1, <1>2
<1>5. StartingKnown'
  BY <1>0, <1>t, <1>1, <1>2
<1>6. ReadyKnown'
  BY <1>0, <1>t, <1>1, <1>2
<1>7. StopHolds'
  BY <1>0, <1>t, <1>1, <1>2
<1>8. Lifetimes'
  BY <1>0, <1>t, <1>1, <1>2
<1>. QED  BY <1>3, <1>4, <1>5, <1>6, <1>7, <1>8

LEMMA sweepKeeps == ASSUME McpInv, sweep PROVE Links'
<1>. USE McpAssumption
     DEF Links, HandlesOwn, StartsAlone, StartingKnown, ReadyKnown, StopHolds, Lifetimes,
         Starting, Recorded, Loose, InCall, Under, Unlocked, Unheld, status, register,
         deregister, Start, Handle, NoHandle, Status, Progress, None, Starts
<1>0. TypeOK /\ TypeOK' /\ Links
  BY TypesStep DEF McpInv, Next, Run
<1>t. /\ start \in [Starts -> Start] /\ handle \in [Servers -> Handle]
      /\ call \in [Calls -> Starts \cup {None}] /\ stopping \in Starts \cup {None}
  BY <1>0 DEF TypeOK
<1>1. HandlesOwn'
  BY <1>0, <1>t, KilledIs DEF sweep
<1>2. StartsAlone'
  BY <1>0, <1>t, KilledIs DEF sweep
<1>3. StartingKnown'
  BY <1>0, <1>t, KilledIs DEF sweep
<1>4. ReadyKnown'
  BY <1>0, <1>t, KilledIs DEF sweep
<1>5. StopHolds'
  BY <1>0, <1>t, KilledIs DEF sweep
<1>6. Lifetimes'
  <2>1. \A b \in Starts : Recorded(b) => b \in {e.pid : e \in registry}
    <3>. SUFFICES ASSUME NEW b \in Starts, Recorded(b) PROVE \E e \in registry : e.pid = b
      OBVIOUS
    <3>1. [id |-> start[b].server, pid |-> b].pid = b
      OBVIOUS
    <3>. QED  BY <3>1
  <2>2. \A b \in Starts :
          /\ start'[b].at = start[b].at
          /\ start'[b].alive = (start[b].alive /\ b \notin {e.pid : e \in registry})
    <3> DEFINE P == {e.pid : e \in registry}
    <3>1. start' = Killed(start, P)
      BY DEF sweep
    <3>. HIDE DEF P
    <3>2. \A b \in Starts : /\ start'[b].at = start[b].at
                          /\ start'[b].alive = (start[b].alive /\ b \notin P)
      BY <1>t, <3>1, KilledIs
    <3>. QED  BY <3>2 DEF P
  <2>3. ~up /\ up' /\ excused' = excused
    BY DEF sweep
  <2>. HIDE DEF Recorded
  <2>. QED  BY <1>0, <2>1, <2>2, <2>3 DEF Lifetimes
<1>. QED  BY <1>1, <1>2, <1>3, <1>4, <1>5, <1>6

-----------------------------------------------------------------------------
(* The theorems. *)

LEMMA StutterKeeps == ASSUME McpInv, UNCHANGED vars PROVE Links'
<1>0. Links
  BY DEF McpInv
<1>. QED
  BY <1>0 DEF vars, Links, HandlesOwn, StartsAlone, StartingKnown, ReadyKnown, StopHolds,
     Lifetimes, Starting, Recorded, Loose, InCall, Under

LEMMA McpInvInit == ASSUME Init PROVE McpInv
<1>1. \A a \in Starts : /\ start[a] \in Start /\ start[a].at = "none" /\ ~start[a].alive
  <2>. TAKE a \in Starts
  <2>1. PICK s \in Servers : start[a] = [at |-> "none", server |-> s, status |-> "Stopped",
                                        alive |-> FALSE, exited |-> FALSE]
    BY DEF Init
  <2>. QED  BY <2>1 DEF Start, Progress, Status
<1>2. /\ handle = [s \in Servers |-> NoHandle] /\ call = [c \in Calls |-> None]
      /\ stopping = None /\ registry = {} /\ up = TRUE /\ crashes = 0 /\ excused = {}
  BY DEF Init
<1>3. TypeOK
  <2>1. start \in [Starts -> Start]
    BY <1>1 DEF Init
  <2>2. handle \in [Servers -> Handle]
    BY <1>2 DEF NoHandle, Handle, None
  <2>3. up \in BOOLEAN
    BY <1>2
  <2>4. /\ call \in [Calls -> Starts \cup {None}] /\ stopping \in Starts \cup {None}
        /\ registry \subseteq [id : Servers, pid : Starts]
        /\ crashes \in Nat /\ excused \subseteq Starts
    BY <1>2
  <2>. QED  BY <2>1, <2>2, <2>3, <2>4 DEF TypeOK
<1>4. Links
  BY <1>1, <1>2 DEF Links, HandlesOwn, StartsAlone, StartingKnown, ReadyKnown, StopHolds,
     Lifetimes, Starting, NoHandle
<1>. QED  BY <1>3, <1>4 DEF McpInv

LEMMA McpInvStep == ASSUME McpInv, [Next]_vars PROVE McpInv'
<1>1. TypeOK'
  BY TypesStep DEF McpInv
<1>2. Links'
  BY CheckKeeps, SpawnKeeps, InsertKeeps, ConnectedKeeps, SettleKeeps, FailKeeps, ExitKeeps,
     stderr_readerKeeps, call_toolKeeps, ReturnKeeps, stopKeeps, StopEndsKeeps, CrashKeeps,
     sweepKeeps, StutterKeeps DEF Next, Run
<1>. QED  BY <1>1, <1>2 DEF McpInv

LEMMA McpInvHolds == Spec => []McpInv
  BY McpInvInit, McpInvStep, PTL DEF Spec

\* The state of the supervisor and of the registry is well formed.
THEOREM ServersTypes == Spec => []TypeOK
<1>1. McpInv => TypeOK
  BY DEF McpInv
<1>. QED  BY <1>1, McpInvHolds, PTL

\* A server that says Stopped has no child left but one in a call, or one that
\* its stop is still ending, or one disturbed by an overlapping command (stop,
\* call_tool, start_within).
THEOREM StoppedServersAreDown == Spec => []StoppedMeansDown
<1>1. ASSUME McpInv PROVE StoppedMeansDown
  <2>. SUFFICES ASSUME NEW a \in Starts \ excused, up, start[a].alive, start[a].at = "done",
                       status(start[a].server) = "Stopped", stopping # a
                PROVE  InCall(a)
    BY DEF StoppedMeansDown
  <2>1. ReadyKnown
    BY <1>1 DEF McpInv, Links
  <2>2. a # None
    BY DEF Starts, None
  <2>. QED  BY <2>1, <2>2 DEF ReadyKnown, Loose, status
<1>. QED  BY <1>1, McpInvHolds, PTL

\* A launch leaves no child of an earlier run alive, but one whose server's
\* commands overlapped or that was stopped during a call (register,
\* deregister, sweep).
THEOREM OrphansAreReaped == Spec => []OrphansReaped
<1>1. McpInv => OrphansReaped
  BY DEF McpInv, Links, Lifetimes, OrphansReaped
<1>. QED  BY <1>1, McpInvHolds, PTL

=============================================================================
