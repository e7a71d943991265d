----------------------------- MODULE McpServers -----------------------------
(***************************************************************************)
(* The supervisor of MCP servers (src-tauri/src/integrations/mcp/          *)
(* process.rs) and the registry that lets the next launch kill what a      *)
(* crash left running (src-tauri/src/orphans.rs).                          *)
(*                                                                         *)
(* A start checks the server's status, spawns a child and records it, puts *)
(* its handle in the map, negotiates, and puts the session in the handle,  *)
(* taking the map's lock anew each time: commands of one server overlap    *)
(* anywhere in between.  The session owns the child: the child is killed   *)
(* when the last reference to it, the handle's or a call's, is dropped.    *)
(* A start has one child, so the child is known by its start.              *)
(***************************************************************************)
EXTENDS Naturals, FiniteSets

CONSTANTS
    Servers,    \* configured servers, reached over stdio
    Calls,      \* tool calls that may be under way
    MaxStarts,  \* bound: starts
    MaxCrashes  \* bound: crashes of the app

ASSUME McpAssumption == MaxStarts \in Nat /\ MaxCrashes \in Nat

VARIABLES
    start,     \* per start: how far it is, its server, its status, its child
    handle,    \* McpSupervisor.servers: the start whose handle it is, its session
    call,      \* per call: the start whose session it holds
    stopping,  \* the stop that holds the map's lock: the child it shuts down
    registry,  \* running.json: server and child
    up,        \* the app runs
    crashes,   \* crashes so far
    excused    \* history: children a command of their server disturbed

vars == <<start, handle, call, stopping, registry, up, crashes, excused>>

Starts == 1..MaxStarts
None == 0
Handle == [of : Starts \cup {None}, session : Starts \cup {None}]
NoHandle == [of |-> None, session |-> None]
Status == {"Stopped", "Starting", "Ready", "Error"}
Progress == {"none", "checked", "spawned", "negotiating", "connected", "done", "old"}
Start == [at : Progress, server : Servers, status : Status, alive : BOOLEAN, exited : BOOLEAN]

Unlocked == up /\ stopping = None
Under(s) == {a \in Starts : start[a].server = s
                /\ start[a].at \in {"checked", "spawned", "negotiating", "connected"}}
status(s) == IF handle[s].of = None THEN "Stopped" ELSE start[handle[s].of].status

\* The last reference to a session goes: rmcp kills its child.
Killed(st, A) == [a \in Starts |-> IF a \in A THEN [st[a] EXCEPT !.alive = FALSE] ELSE st[a]]
InCall(a) == \E c \in Calls : call[c] = a
Unheld(a) == IF a = None \/ InCall(a) THEN {} ELSE {a}

\* One entry per server's id.
register(s, a) == registry' = {e \in registry : e.id # s} \cup {[id |-> s, pid |-> a]}
deregister(s) == registry' = {e \in registry : e.id # s}

-----------------------------------------------------------------------------
(* Starting. *)

\* A start is refused while its server starts or runs.
Check(s) ==
    /\ Unlocked /\ status(s) \in {"Stopped", "Error"}
    /\ \E a \in Starts :
         /\ start[a].at = "none" /\ \A b \in Starts : b < a => start[b].at # "none"
         /\ start' = [start EXCEPT ![a].at = "checked", ![a].server = s]
         /\ excused' = IF Under(s) = {} THEN excused ELSE excused \cup Under(s) \cup {a}
    /\ UNCHANGED <<handle, call, stopping, registry, up, crashes>>

\* The child runs, and is recorded; or it cannot be spawned.
Spawn(a) ==
    /\ up /\ start[a].at = "checked"
    /\ \/ /\ start' = [start EXCEPT ![a].at = "spawned", ![a].status = "Starting",
                                    ![a].alive = TRUE]
          /\ register(start[a].server, a)
       \/ start' = [start EXCEPT ![a].at = "done"] /\ UNCHANGED registry
    /\ UNCHANGED <<handle, call, stopping, up, crashes, excused>>

\* The handle goes into the map, in the place of the server's last one.
Insert(a) ==
    LET s == start[a].server IN
    /\ Unlocked /\ start[a].at = "spawned"
    /\ start' = [Killed(start, Unheld(handle[s].session)) EXCEPT ![a].at = "negotiating"]
    /\ handle' = [handle EXCEPT ![s] = [of |-> a, session |-> None]]
    /\ UNCHANGED <<call, stopping, registry, up, crashes, excused>>

\* The server answered: the session goes into whichever handle has the id.
Connected(a) ==
    LET s == start[a].server IN
    /\ Unlocked /\ start[a].at = "negotiating" /\ start[a].alive
    /\ start' = [Killed(start, Unheld(handle[s].session)) EXCEPT ![a].at = "connected"]
    /\ handle' = [handle EXCEPT ![s].session = a]
    /\ UNCHANGED <<call, stopping, registry, up, crashes, excused>>

\* Fault: Ready whatever came in between.
SettleReady(a) ==
    /\ up /\ start[a].at = "connected"
    /\ start' = [start EXCEPT ![a].at = "done", ![a].status = "Ready"]
    /\ UNCHANGED <<handle, call, stopping, registry, up, crashes, excused>>

\* Ready, unless the server was stopped or has exited in between.
Settle(a) ==
    /\ up /\ start[a].at = "connected"
    /\ start' = [start EXCEPT ![a].at = "done",
                              ![a].status = IF @ = "Starting" THEN "Ready" ELSE @]
    /\ UNCHANGED <<handle, call, stopping, registry, up, crashes, excused>>

\* Fault: the child is left to the transport, and its record dropped.
FailUnkilled(a) ==
    /\ up /\ start[a].at = "negotiating"
    /\ start' = [start EXCEPT ![a].at = "done", ![a].status = "Error"]
    /\ deregister(start[a].server)
    /\ UNCHANGED <<handle, call, stopping, up, crashes, excused>>

\* No answer in time, an error, or an exit: the child is killed, and the record
\* of its server's id dropped, whichever child that is by then.
Fail(a) ==
    /\ up /\ start[a].at = "negotiating"
    /\ start' = [start EXCEPT ![a].at = "done", ![a].status = "Error", ![a].alive = FALSE]
    /\ deregister(start[a].server)
    /\ UNCHANGED <<handle, call, stopping, up, crashes, excused>>

-----------------------------------------------------------------------------
(* The child, and the calls. *)

\* The child exits by itself.
Exit(a) ==
    /\ start[a].alive
    /\ start' = [start EXCEPT ![a].alive = FALSE]
    /\ UNCHANGED <<handle, call, stopping, registry, up, crashes, excused>>

\* Its stderr ends: a crash, unless the server was stopped or has failed.
stderr_reader(a) ==
    /\ up /\ start[a].at \in {"spawned", "negotiating", "connected", "done"}
    /\ ~start[a].alive /\ ~start[a].exited
    /\ start' = [start EXCEPT ![a].exited = TRUE,
                   ![a].status = IF @ \in {"Starting", "Ready"} THEN "Error" ELSE @]
    /\ UNCHANGED <<handle, call, stopping, registry, up, crashes, excused>>

\* A tool call takes a reference to the session.
call_tool(c) ==
    /\ Unlocked /\ call[c] = None
    /\ \E s \in Servers : handle[s].session # None
                          /\ call' = [call EXCEPT ![c] = handle[s].session]
    /\ UNCHANGED <<start, handle, stopping, registry, up, crashes, excused>>

\* It returns: the reference was the last one if the handle's is gone.
Return(c) ==
    LET a == call[c] IN
    /\ up /\ a # None
    /\ call' = [call EXCEPT ![c] = None]
    /\ start' = IF (\E s \in Servers : handle[s].session = a)
                    \/ (\E d \in Calls \ {c} : call[d] = a)
                THEN start ELSE Killed(start, {a})
    /\ UNCHANGED <<handle, stopping, registry, up, crashes, excused>>

-----------------------------------------------------------------------------
(* Stopping. *)

\* Fault: a session that a call uses stays in the handle.
StopKeepsBusy(s) ==
    LET h == handle[s] IN
    /\ Unlocked /\ h.of # None
    /\ start' = [start EXCEPT ![h.of].status = "Stopped"]
    /\ excused' = excused \cup Under(s)
    /\ IF Unheld(h.session) # {}
       THEN /\ stopping' = h.session /\ UNCHANGED registry
            /\ handle' = [handle EXCEPT ![s].session = None]
       ELSE deregister(s) /\ UNCHANGED <<stopping, handle>>
    /\ UNCHANGED <<call, up, crashes>>

\* Fault: the record is dropped before the child is shut down.
StopForgets(s) ==
    LET h == handle[s] IN
    /\ Unlocked /\ h.of # None
    /\ start' = [start EXCEPT ![h.of].status = "Stopped"]
    /\ handle' = [handle EXCEPT ![s].session = None]
    /\ excused' = excused \cup Under(s)
    /\ stopping' = (IF Unheld(h.session) # {} THEN h.session ELSE None)
    /\ deregister(s)
    /\ UNCHANGED <<call, up, crashes>>

\* Stopped is said first.  The child is shut down with the map locked; one in a
\* call is left to it, and one that still negotiates to its start.
stop(s) ==
    LET h == handle[s] IN
    /\ Unlocked /\ h.of # None
    /\ start' = [start EXCEPT ![h.of].status = "Stopped"]
    /\ handle' = [handle EXCEPT ![s].session = None]
    /\ excused' = excused \cup Under(s)
    /\ IF Unheld(h.session) # {}
       THEN stopping' = h.session /\ UNCHANGED registry
       ELSE deregister(s) /\ UNCHANGED stopping
    /\ UNCHANGED <<call, up, crashes>>

\* The child is gone, by itself or killed: its record is dropped.
StopEnds ==
    /\ up /\ stopping # None
    /\ start' = Killed(start, {stopping})
    /\ deregister(start[stopping].server)
    /\ stopping' = None
    /\ UNCHANGED <<handle, call, up, crashes, excused>>

-----------------------------------------------------------------------------
(* Crash and launch. *)

\* The app is gone; its children may live on.  One that was stopped during a
\* call has no record any more.
Crash ==
    /\ up /\ crashes < MaxCrashes
    /\ up' = FALSE /\ crashes' = crashes + 1
    /\ start' = [a \in Starts |->
         IF start[a].at = "none" THEN start[a]
         ELSE [start[a] EXCEPT !.at = "old", !.status = "Stopped", !.exited = FALSE]]
    /\ excused' = excused \cup
         {a \in Starts : InCall(a) /\ \A s \in Servers : handle[s].session # a}
    /\ handle' = [s \in Servers |-> NoHandle]
    /\ call' = [c \in Calls |-> None] /\ stopping' = None
    /\ UNCHANGED registry

\* The launch kills what is recorded and still runs, and clears the registry.
sweep ==
    /\ ~up
    /\ start' = Killed(start, {e.pid : e \in registry})
    /\ registry' = {} /\ up' = TRUE
    /\ UNCHANGED <<handle, call, stopping, crashes, excused>>

-----------------------------------------------------------------------------
(* The specification. *)

Init ==
    /\ start \in [Starts -> {[at |-> "none", server |-> s, status |-> "Stopped",
                              alive |-> FALSE, exited |-> FALSE] : s \in Servers}]
    /\ \A a, b \in Starts : start[a] = start[b]
    /\ handle = [s \in Servers |-> NoHandle]
    /\ call = [c \in Calls |-> None] /\ stopping = None
    /\ registry = {} /\ up = TRUE /\ crashes = 0 /\ excused = {}

Run(a) ==
    \/ Spawn(a) \/ Insert(a) \/ Connected(a) \/ Settle(a) \/ Fail(a)
    \/ Exit(a) \/ stderr_reader(a)
Next ==
    \/ \E s \in Servers : Check(s) \/ stop(s)
    \/ \E a \in Starts : Run(a)
    \/ \E c \in Calls : call_tool(c) \/ Return(c)
    \/ StopEnds \/ Crash \/ sweep

Spec == Init /\ [][Next]_vars

\* The reader of a pipe sees its end, and a start goes on.
LiveSpec ==
    /\ Spec
    /\ \A a \in Starts : WF_vars(stderr_reader(a)) /\ WF_vars(Settle(a))

-----------------------------------------------------------------------------
(* Properties. *)

\* The state is well formed.
TypeOK ==
    /\ start \in [Starts -> Start] /\ handle \in [Servers -> Handle]
    /\ call \in [Calls -> Starts \cup {None}] /\ stopping \in Starts \cup {None}
    /\ registry \subseteq [id : Servers, pid : Starts]
    /\ up \in BOOLEAN /\ crashes \in Nat /\ excused \subseteq Starts

\* A server that says Stopped has no child of this run left, once its stop has
\* ended, but one that a call still uses: unless the stop, or another start,
\* came while it was starting (stop, call_tool, start_within).
StoppedMeansDown ==
    \A a \in Starts \ excused :
        (up /\ start[a].alive /\ start[a].at = "done" /\ status(start[a].server) = "Stopped")
            => (InCall(a) \/ stopping = a)

\* A server that says Ready and whose child is gone does not go on saying it
\* (spawn_stderr_reader, the end of start_within).
DeadServerNoticed ==
    \A s \in Servers :
        (up /\ status(s) = "Ready" /\ ~start[handle[s].of].alive)
            ~> (~up \/ status(s) # "Ready" \/ start[handle[s].of].alive)

\* Once launched, the app has killed every child an earlier run left: each was
\* recorded for as long as it lived, unless commands of its server overlapped
\* or it was stopped during a call (register, deregister, sweep).
OrphansReaped ==
    up => \A a \in Starts \ excused : start[a].at = "old" => ~start[a].alive

=============================================================================
