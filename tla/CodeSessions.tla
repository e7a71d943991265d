---------------------------- MODULE CodeSessions ----------------------------
(***************************************************************************)
(* Which window has a Code session open: the claims the host keeps         *)
(* (src-tauri/src/code_tools/claims.rs), the session store of each window  *)
(* that opens, closes, moves and deletes a session (stores/code.svelte.ts, *)
(* code/windows.ts, routes/code/[id]), and the session's background        *)
(* command with the watch that follows it (code_tools/background.rs,       *)
(* shell/backgroundWatch.ts).                                              *)
(*                                                                         *)
(* One session, since no operation touches two: the main window may have   *)
(* it as a sub-tab, its own detached window as its page.  An operation of  *)
(* a window runs to its next await.  Claims and releases are synchronous   *)
(* commands, taken up in the order a window sent them; loading, deleting   *)
(* and stopping are asynchronous ones.                                     *)
(***************************************************************************)
EXTENDS Integers, Sequences, FiniteSets

CONSTANTS
    Windows,     \* main and the window of the session's own
    main,
    Flows,       \* the operations a window may have under way
    FlowWindow,  \* [Flows -> Windows]
    Nobody,      \* no owner
    Overlap,     \* whether the user starts an operation while another of the
                 \* window is under way, or while a stopped turn's command starts
    FaultKinds,  \* which of "crash", "load", "create", "delete" happen
    MaxFaults    \* bound: how many of them

ASSUME SessionsAssumption ==
    /\ main \in Windows /\ Nobody \notin Windows
    /\ FlowWindow \in [Flows -> Windows]
    /\ FaultKinds \subseteq {"crash", "load", "create", "delete"}
    /\ Overlap \in BOOLEAN /\ MaxFaults \in Nat

VARIABLES
    owner,     \* CodeSessionClaims: who has claimed the session
    handoff,   \* and what its last owner left for the next
    row,       \* the saved session exists
    alive,     \* the windows there are
    open,      \* the windows whose store has the session
    watching,  \* the windows that follow its background command
    flow,      \* the operations under way
    inbox,     \* per window: commands the host has not taken up
    reattach,  \* a request to the main window to open it is on its way
    bg,        \* the background command
    faults     \* history: what went wrong

claims == <<owner, handoff>>
host == <<claims, row, alive, inbox>>
vars == <<host, open, watching, flow, reattach, bg, faults>>

Handoff == {"none", "bare", "watches"}
Op == {"open", "close", "handoff", "delete", "erase"}
At == {"idle", "claim", "claimed", "refused", "load", "loaded", "failed", "dispose",
       "stop", "release", "released", "create", "purge", "deleting"}

Idle == [op |-> "open", at |-> "idle", carries |-> "none"]
Window(f) == FlowWindow[f]
Busy(w) == \E f \in Flows : Window(f) = w /\ flow[f].at # "idle"

\* none; asked: code_bg_start is under way; running: in the registry, the call
\* not returned; known: it has, and the window that asked follows the command.
Bg == [at : {"none", "asked", "running", "known"}, from : Windows, turn : BOOLEAN]

\* code_bg_start has not returned yet.
Calling(w) == bg.at \in {"asked", "running"} /\ bg.from = w

Claim(f) == [cmd |-> "claim", flow |-> f]
Release(f, h) == [cmd |-> "release", flow |-> f, handoff |-> h]
Send(w, m) == inbox' = [inbox EXCEPT ![w] = Append(@, m)]
Goes(f, at) == flow' = [flow EXCEPT ![f].at = at]
Done(f) == flow' = [flow EXCEPT ![f] = Idle]

Fails(kind) ==
    /\ kind \in FaultKinds /\ Cardinality(faults) < MaxFaults
    /\ faults' = faults \cup {kind}

-----------------------------------------------------------------------------
(* The host: claims.rs. *)

\* Fault: the claim of another window is taken over.
ClaimTaken(f) ==
    /\ owner' = Window(f) /\ handoff' = "none"
    /\ flow' = [flow EXCEPT ![f].at = "claimed", ![f].carries = handoff]

\* A claim held by another window that still exists is refused; a granted one
\* takes what the last owner handed over.
claim(f) ==
    IF owner \in alive \ {Window(f)}
    THEN Goes(f, "refused") /\ UNCHANGED claims
    ELSE /\ owner' = Window(f) /\ handoff' = "none"
         /\ flow' = [flow EXCEPT ![f].at = "claimed", ![f].carries = handoff]

\* Fault: what is handed over is not kept.
ReleaseBare(f, h) ==
    /\ IF owner \notin {Window(f), Nobody} THEN UNCHANGED claims
       ELSE owner' = Nobody /\ handoff' = "none"
    /\ Goes(f, "released")

\* A window cannot release another's claim, and only the owner clears what
\* waits for the next one.
release(f, h) ==
    /\ IF owner \notin {Window(f), Nobody} THEN UNCHANGED claims
       ELSE /\ owner' = Nobody
            /\ handoff' = IF h # "none" THEN h ELSE IF owner = Nobody THEN handoff ELSE "none"
    /\ Goes(f, "released")

Command(w) ==
    /\ inbox[w] # <<>>
    /\ LET m == Head(inbox[w])
       IN IF m.cmd = "claim" THEN claim(m.flow) ELSE release(m.flow, m.handoff)
    /\ inbox' = [inbox EXCEPT ![w] = Tail(@)]
    /\ UNCHANGED <<row, alive, open, watching, reattach, bg, faults>>

\* The window is destroyed: its store, watches and commands go with it, and
\* on_window_event drops its claim (release_window).
Destroyed(w) ==
    /\ alive' = alive \ {w}
    /\ open' = open \ {w} /\ watching' = watching \ {w}
    /\ flow' = [f \in Flows |-> IF Window(f) = w THEN Idle ELSE flow[f]]
    /\ inbox' = [inbox EXCEPT ![w] = <<>>]
    /\ owner' = IF owner = w THEN Nobody ELSE owner
    /\ UNCHANGED <<handoff, row>>

-----------------------------------------------------------------------------
(* Operations begin. *)

Begin(f, op, at, carries) ==
    /\ flow[f].at = "idle"
    /\ flow' = [flow EXCEPT ![f] = [op |-> op, at |-> at, carries |-> carries]]

Patient(w) == Overlap \/ ~Busy(w)

\* openSession, of a session that is not open here, up to its claim.
openSession(f) ==
    /\ Patient(Window(f))
    /\ Window(f) \notin open
    /\ Begin(f, "open", "claim", "none")
    /\ Send(Window(f), Claim(f))
    /\ UNCHANGED <<claims, row, alive, open, watching, bg, faults>>

\* The user, or the engine, opens it in the main window.
Open(f) == Window(f) = main /\ row /\ openSession(f) /\ UNCHANGED reattach

\* reattachHandler: the detached window gave it back.
Reattach(f) ==
    /\ Window(f) = main /\ reattach /\ reattach' = FALSE
    /\ \/ openSession(f)
       \/ main \in open /\ UNCHANGED <<host, open, watching, flow, bg, faults>>

\* The tab goes at once and the turn is aborted, its watches dropped; what the
\* session holds is given back next (dispose).
Shut(f) ==
    /\ Overlap \/ bg.at # "asked" \/ bg.from # Window(f)
    /\ open' = open \ {Window(f)} /\ watching' = watching \ {Window(f)}
    /\ bg' = [bg EXCEPT !.turn = @ /\ bg.from # Window(f)]

closeSession(f) ==
    /\ Window(f) \in open
    /\ Patient(Window(f))
    /\ Begin(f, "close", "dispose", "none")
    /\ Shut(f)
    /\ UNCHANGED <<host, reattach, faults>>

\* Fault: the watches stay behind.
HandOffWithoutWatches(f) ==
    /\ Window(f) \in open
    /\ Patient(Window(f))
    /\ ~(bg.turn /\ bg.from = Window(f)) /\ (Overlap \/ ~Calling(Window(f)))
    /\ Begin(f, "handoff", "dispose", "bare")
    /\ Shut(f)
    /\ UNCHANGED <<host, reattach, faults>>

\* Only an idle session moves; it takes its watches along.
handOffSession(f) ==
    /\ Window(f) \in open
    /\ Patient(Window(f))
    /\ ~(bg.turn /\ bg.from = Window(f)) /\ (Overlap \/ ~Calling(Window(f)))
    /\ Begin(f, "handoff", "dispose", IF Window(f) \in watching THEN "watches" ELSE "bare")
    /\ Shut(f)
    /\ UNCHANGED <<host, reattach, faults>>

\* From the sidebar, or in a window that has it open.
deleteSession(f) ==
    /\ row
    /\ Patient(Window(f)) /\ (Window(f) = main \/ Window(f) \in open)
    /\ Begin(f, "delete", "claim", "none")
    /\ Send(Window(f), Claim(f))
    /\ UNCHANGED <<claims, row, alive, open, watching, reattach, bg, faults>>

-----------------------------------------------------------------------------
(* ... and go on. *)

\* Another window has it: that one is raised, and a detached window closes.
Refused(f) ==
    /\ flow[f].at = "refused"
    /\ IF Window(f) # main /\ flow[f].op = "open" THEN Destroyed(Window(f))
       ELSE Done(f) /\ UNCHANGED <<host, open, watching>>
    /\ UNCHANGED <<reattach, bg, faults>>

\* Opened twice at once: the first to load wins.  A delete closes its own tab
\* first.  Either way what was handed over is in the caller's hands.
Claimed(f) ==
    /\ flow[f].at = "claimed"
    /\ \/ /\ flow[f].op = "open"
          /\ IF Window(f) \in open THEN Done(f) ELSE Goes(f, "load")
          /\ UNCHANGED <<open, watching, bg>>
       \/ /\ flow[f].op = "delete"
          /\ flow' = [flow EXCEPT ![f].carries = "none",
                                  ![f].at = IF Window(f) \in open THEN "dispose" ELSE "purge"]
          /\ Shut(f)
    /\ UNCHANGED <<host, reattach, faults>>

loadCodeSession(f) ==
    /\ flow[f].at = "load"
    /\ \/ row /\ Goes(f, "loaded") /\ UNCHANGED faults
       \/ ~row /\ Goes(f, "failed") /\ UNCHANGED faults
       \/ Fails("load") /\ Goes(f, "failed")
    /\ UNCHANGED <<host, open, watching, reattach, bg>>

\* The session joins the store, and the watches handed over come with it.
Adopt(f) ==
    /\ flow[f].at = "loaded"
    /\ IF Window(f) \in open THEN UNCHANGED <<open, watching>>
       ELSE /\ open' = open \cup {Window(f)}
            /\ watching' = IF flow[f].carries = "watches" THEN watching \cup {Window(f)}
                           ELSE watching
    /\ Done(f)
    /\ UNCHANGED <<host, reattach, bg, faults>>

\* Fault: the claim stays with a window that does not have the session.
KeepClaim(f) ==
    /\ flow[f].at = "failed"
    /\ Done(f)
    /\ UNCHANGED <<host, open, watching, reattach, bg, faults>>

\* Not ours after all: what was handed over goes back.
GiveBack(f) ==
    /\ flow[f].at = "failed"
    /\ Goes(f, "release")
    /\ Send(Window(f), Release(f, flow[f].carries))
    /\ UNCHANGED <<claims, row, alive, open, watching, reattach, bg, faults>>

\* dispose has settled.
Disposed(f) ==
    /\ flow[f].at = "dispose"
    /\ IF flow[f].op = "handoff"
       THEN Goes(f, "release") /\ Send(Window(f), Release(f, flow[f].carries))
       ELSE Goes(f, "stop") /\ UNCHANGED inbox
    /\ UNCHANGED <<claims, row, alive, open, watching, reattach, bg, faults>>

\* code_bg_stop_owner stops what is in the registry.
stop_owner == bg' = IF bg.at \in {"running", "known"} THEN [bg EXCEPT !.at = "none"] ELSE bg

StopOwner(f) ==
    /\ flow[f].at = "stop"
    /\ stop_owner
    /\ Goes(f, "release")
    /\ Send(Window(f), Release(f, "none"))
    /\ UNCHANGED <<claims, row, alive, open, watching, reattach, faults>>

\* The claim is gone.  A detached window that closed, deleted or gave back its
\* session closes; the main one makes the window a session moves to.
Released(f) ==
    /\ flow[f].at = "released"
    /\ \/ /\ flow[f].op = "handoff" /\ Window(f) = main
          /\ Goes(f, "create")
          /\ UNCHANGED <<host, open, watching, reattach>>
       \/ /\ flow[f].op = "handoff" /\ Window(f) # main
          /\ reattach' = TRUE
          /\ Destroyed(Window(f))
       \/ /\ flow[f].op = "delete"
          /\ Goes(f, "purge")
          /\ UNCHANGED <<host, open, watching, reattach>>
       \/ /\ flow[f].op \in {"open", "close", "erase"}
          /\ IF Window(f) # main /\ flow[f].op # "open" THEN Destroyed(Window(f))
             ELSE Done(f) /\ UNCHANGED <<host, open, watching>>
          /\ UNCHANGED reattach
    /\ UNCHANGED <<bg, faults>>

\* Fault: a window that cannot be made takes the session with it.
CreateOrNothing(f) ==
    /\ flow[f].at = "create"
    /\ \/ \E g \in Flows :
            /\ Window(g) \notin alive
            /\ alive' = alive \cup {Window(g)}
            /\ flow' = [flow EXCEPT ![f] = Idle, ![g] = [Idle EXCEPT !.at = "claim"]]
            /\ Send(Window(g), Claim(g))
            /\ UNCHANGED faults
       \/ /\ (Windows \subseteq alive /\ UNCHANGED faults) \/ Fails("create")
          /\ Done(f)
          /\ UNCHANGED <<alive, inbox>>
    /\ UNCHANGED <<claims, row, open, watching, reattach, bg>>

\* detachSession makes the window, whose page opens the session; if it cannot
\* be made the session comes back as a sub-tab.
Create(f) ==
    /\ flow[f].at = "create"
    /\ \/ \E g \in Flows :
            /\ Window(g) \notin alive
            /\ alive' = alive \cup {Window(g)}
            /\ flow' = [flow EXCEPT ![f] = Idle, ![g] = [Idle EXCEPT !.at = "claim"]]
            /\ Send(Window(g), Claim(g))
            /\ UNCHANGED faults
       \/ /\ (Windows \subseteq alive /\ UNCHANGED faults) \/ Fails("create")
          /\ IF Window(f) \in open THEN Done(f) /\ UNCHANGED inbox
             ELSE /\ flow' = [flow EXCEPT ![f] = [Idle EXCEPT !.at = "claim"]]
                  /\ Send(Window(f), Claim(f))
          /\ UNCHANGED alive
    /\ UNCHANGED <<claims, row, open, watching, reattach, bg>>

\* Fault: what a hand-off left running is not looked for.
EraseOnly(f) ==
    /\ flow[f].at = "purge"
    /\ Goes(f, "deleting")
    /\ UNCHANGED <<host, open, watching, reattach, bg, faults>>

\* Processes a hand-off left running with no window to open them.
Purge(f) ==
    /\ flow[f].at = "purge"
    /\ stop_owner
    /\ Goes(f, "deleting")
    /\ UNCHANGED <<host, open, watching, reattach, faults>>

deleteCodeSession(f) ==
    /\ flow[f].at = "deleting"
    /\ \/ row' = FALSE /\ UNCHANGED faults
       \/ Fails("delete") /\ UNCHANGED row
    /\ flow' = [flow EXCEPT ![f].op = "erase", ![f].at = "release"]
    /\ Send(Window(f), Release(f, "none"))
    /\ UNCHANGED <<claims, alive, open, watching, reattach, bg>>

-----------------------------------------------------------------------------
(* The background command, one at a time. *)

\* A turn runs a command in the background and watches it.
code_bg_start(w) ==
    /\ w \in open /\ bg.at = "none"
    /\ bg' = [at |-> "asked", from |-> w, turn |-> TRUE]
    /\ UNCHANGED <<host, open, watching, flow, reattach, faults>>

\* The process is spawned and joins the registry, whatever became of the turn.
BgStarted ==
    /\ bg.at = "asked"
    /\ bg' = [bg EXCEPT !.at = "running"]
    /\ UNCHANGED <<host, open, watching, flow, reattach, faults>>

\* registerCodeBgWatch, in the window that asked.
BgReturns ==
    /\ bg.at = "running"
    /\ bg' = [bg EXCEPT !.at = "known", !.turn = FALSE]
    /\ watching' = watching \cup ({bg.from} \cap alive)
    /\ UNCHANGED <<host, open, flow, reattach, faults>>

\* The user stops the turn: the tool call is raced against the signal, so the
\* turn ends while the command still starts.
StopTurn ==
    /\ bg.turn
    /\ bg' = [bg EXCEPT !.turn = FALSE]
    /\ UNCHANGED <<host, open, watching, flow, reattach, faults>>

\* command_stop, or the Stop button of the list.
StopCommand ==
    /\ bg.at = "known" /\ open # {}
    /\ stop_owner
    /\ watching' = {}
    /\ UNCHANGED <<host, open, flow, reattach, faults>>

\* A detached window that shows no session closes at once (closeNow).
CloseEmpty(w) ==
    /\ w \in alive \ ({main} \cup open) /\ Patient(w)
    /\ Destroyed(w)
    /\ UNCHANGED <<reattach, bg, faults>>

Crash(w) ==
    /\ w \in alive \ {main}
    /\ Fails("crash")
    /\ Destroyed(w)
    /\ UNCHANGED <<reattach, bg>>

-----------------------------------------------------------------------------
Init ==
    /\ owner = Nobody /\ handoff = "none" /\ row = TRUE
    /\ alive = {main} /\ open = {} /\ watching = {}
    /\ flow = [f \in Flows |-> Idle]
    /\ inbox = [w \in Windows |-> <<>>]
    /\ reattach = FALSE
    /\ bg = [at |-> "none", from |-> main, turn |-> FALSE]
    /\ faults = {}

User(f) == Open(f) \/ closeSession(f) \/ handOffSession(f) \/ deleteSession(f)

Continue(f) ==
    \/ Refused(f) \/ Claimed(f) \/ loadCodeSession(f) \/ Adopt(f) \/ GiveBack(f)
    \/ Disposed(f) \/ StopOwner(f) \/ Released(f) \/ Create(f)
    \/ Purge(f) \/ deleteCodeSession(f)

Background ==
    \/ \E w \in Windows : code_bg_start(w)
    \/ BgStarted \/ BgReturns \/ StopTurn \/ StopCommand

Next ==
    \/ \E f \in Flows : User(f) \/ Reattach(f) \/ Continue(f)
    \/ \E w \in Windows : Command(w) \/ CloseEmpty(w) \/ Crash(w)
    \/ Background

Spec == Init /\ [][Next]_vars

\* Commands are handled and calls return; the main window hears its events.
FairSessions ==
    /\ Spec
    /\ \A w \in Windows : WF_vars(Command(w))
    /\ \A f \in Flows : WF_vars(Continue(f))
    /\ WF_vars(\E f \in Flows : Reattach(f))

-----------------------------------------------------------------------------
(* Properties. *)

TypeOK ==
    /\ owner \in Windows \cup {Nobody} /\ handoff \in Handoff
    /\ row \in BOOLEAN /\ reattach \in BOOLEAN
    /\ alive \subseteq Windows /\ main \in alive
    /\ open \subseteq alive /\ watching \subseteq alive
    /\ flow \in [Flows -> [op : Op, at : At, carries : Handoff]]
    /\ \A w \in Windows : \A i \in DOMAIN inbox[w] : Window(inbox[w][i].flow) = w
    /\ bg \in Bg /\ faults \subseteq FaultKinds

\* claims.rs:3 "A session is open in at most one window".
SessionInOneWindow == Cardinality(open) <= 1

\* A live window that owns the claim has the session open or is about to: a
\* claim nobody will release locks every other window out of the session.
NoLeakedClaim == owner \in alive => owner \in open \/ Busy(owner)

\* A watch lives in one window's memory and crosses windows as JSON through
\* the host.  Moves, refusals and failed loads never lose it on the way: while
\* the command runs, a window follows it, or what was handed over waits, or an
\* operation carries it.
WatchesKept ==
    bg.at = "known" /\ "crash" \notin faults =>
        \/ watching # {}
        \/ handoff = "watches"
        \/ \E f \in Flows : flow[f].carries = "watches"
        \/ \E f \in Flows : flow[f].op \in {"close", "delete"} /\ flow[f].at # "idle"

\* background.rs:7: a process never outlives the session it belongs to.
\* Without an owner open, being opened or handed over, nothing of it runs.
NeverOutlives ==
    bg.at \in {"running", "known"} /\ "crash" \notin faults =>
        open # {} \/ handoff # "none" \/ reattach \/ \E w \in alive : Busy(w)

\* A session that is moved arrives: it is open again in the end, in the window
\* it was moved to or back where it was.
MovedSessionOpens ==
    \A f \in Flows :
        flow[f].op = "handoff" /\ flow[f].at = "dispose"
            ~> open # {} \/ ~row \/ faults \cap {"crash", "load", "delete"} # {}
=============================================================================
