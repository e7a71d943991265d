--------------------------- MODULE InferenceTurns ---------------------------
(***************************************************************************)
(* Turns and the queue that admits them: withInferenceSlot and HeldSlot    *)
(* (src/lib/agent/inferenceQueue.svelte.ts) in each window's renderer,     *)
(* talking to InferenceQueue through Tauri commands.                       *)
(*                                                                         *)
(* A renderer's commands reach the host in the order they were sent.  The  *)
(* synchronous ones run there and then on the main thread;                 *)
(* inference_acquire is async, so its body runs some time after it         *)
(* arrived, and a command sent later can overtake it.  Results come back   *)
(* to the renderer whenever its event loop gets to them.                   *)
(***************************************************************************)
EXTENDS InferenceQueue

CONSTANTS
    Turns,
    TurnWindow,    \* [Turns -> Windows]
    TurnLane,      \* [Turns -> Lanes]
    TurnPriority,  \* [Turns -> Priority]
    MaxRequests,   \* bound: [Turns -> Nat \ {0}], requests a turn makes, the first included
    MaxFaults      \* bound: windows that reload or close, sleeps past the lease

ASSUME TurnsAssumption ==
    /\ MaxRequests \in [Turns -> Nat \ {0}]
    /\ ReqIds = UNION {{t} \X (1..MaxRequests[t]) : t \in Turns}
    /\ TurnWindow \in [Turns -> Windows]
    /\ TurnLane \in [Turns -> Lanes]
    /\ TurnPriority \in [Turns -> Priority]
    /\ MaxFaults \in Nat

VARIABLES
    pc,        \* where withInferenceSlot is, per turn
    request,   \* TurnRequest.reqId, its newest request
    aborted,   \* the turn's signal has fired
    inbox,     \* per window: commands sent and not yet taken up by the host
    spawned,   \* inference_acquire calls whose body has not run yet
    losses, suspends

clientVars == <<pc, request, aborted, inbox, spawned, losses, suspends>>
allVars == <<vars, clientVars>>

\* acquiring / returning: awaiting inference_acquire, first or to take the slot
\* back.  held: running with the slot.  released: a long tool runs without it.
\* done: withInferenceSlot has returned.  gone: its renderer went first.
Live == {"acquiring", "held", "released", "returning"}

AcquireOf(id, mp, replaces) ==
    [op |-> "acquire", id |-> id, max_parallel |-> mp, replaces |-> replaces]
CancelOf(id) == [op |-> "cancel", id |-> id]
ReleaseOf(id, reserve) == [op |-> "release", id |-> id, reserve |-> reserve]
ReleaseWindowOf(w) == [op |-> "release_window", window |-> w]

Send(t, m) == inbox' = [inbox EXCEPT ![TurnWindow[t]] = Append(@, m)]

-----------------------------------------------------------------------------
(* withInferenceSlot and HeldSlot. *)

\* max_parallel is laneFor's answer, read from Settings at each acquire.
Begin(t) ==
    /\ pc[t] = "idle"
    /\ pc' = [pc EXCEPT ![t] = "acquiring"]
    /\ request' = [request EXCEPT ![t] = <<t, 1>>]
    /\ \E mp \in MaxParallelArgs : Send(t, AcquireOf(<<t, 1>>, mp, NoId))
    /\ UNCHANGED <<vars, aborted, spawned, losses, suspends>>

\* The abort listener: it cancels whatever the newest request is.
Abort(t) ==
    /\ pc[t] \in Live /\ ~aborted[t]
    /\ aborted' = [aborted EXCEPT ![t] = TRUE]
    /\ Send(t, CancelOf(request[t]))
    /\ UNCHANGED <<vars, pc, request, spawned, losses, suspends>>

\* Fault: an early return skips the release.
FinishSilently(t) ==
    /\ pc' = [pc EXCEPT ![t] = "done"]
    /\ UNCHANGED <<vars, request, aborted, inbox, spawned, losses, suspends>>

\* The finally block: the slot is released whatever became of the turn.
Finish(t) ==
    /\ pc' = [pc EXCEPT ![t] = "done"]
    /\ Send(t, ReleaseOf(request[t], FALSE))
    /\ UNCHANGED <<vars, request, aborted, spawned, losses, suspends>>

\* inference_acquire resolved and the turn has not been stopped meanwhile.
Admitted(t) ==
    /\ pc[t] \in {"acquiring", "returning"}
    /\ call[request[t]] = "admitted"
    /\ ~aborted[t]
    /\ pc' = [pc EXCEPT ![t] = "held"]
    /\ UNCHANGED <<vars, request, aborted, inbox, spawned, losses, suspends>>

\* It rejected, or resolved for a turn that was stopped: both throw.
NotAdmitted(t) ==
    /\ pc[t] \in {"acquiring", "returning"}
    /\ \/ call[request[t]] \in {"cancelled", "vanished", "refused"}
       \/ call[request[t]] = "admitted" /\ aborted[t]
    /\ Finish(t)

\* Fault: the slot is given back without a reservation.
GiveBackUnreserved(t) ==
    /\ pc[t] = "held"
    /\ pc' = [pc EXCEPT ![t] = "released"]
    /\ Send(t, ReleaseOf(request[t], FALSE))
    /\ UNCHANGED <<vars, request, aborted, spawned, losses, suspends>>

\* runReleasingSlot's timer, or a tool that waits on the user.
GiveBack(t) ==
    /\ pc[t] = "held"
    /\ pc' = [pc EXCEPT ![t] = "released"]
    /\ Send(t, ReleaseOf(request[t], TRUE))
    /\ UNCHANGED <<vars, request, aborted, spawned, losses, suspends>>

\* Fault: later cancels, beats and releases are for the first request.
TakeBackUnnamed(t) ==
    /\ pc[t] = "released" /\ ~aborted[t]
    /\ request[t][2] < MaxRequests[t]
    /\ \E mp \in MaxParallelArgs :
        Send(t, AcquireOf(<<t, request[t][2] + 1>>, mp, request[t]))
    /\ pc' = [pc EXCEPT ![t] = "returning"]
    /\ UNCHANGED <<vars, request, aborted, spawned, losses, suspends>>

TakeBack(t) ==
    /\ pc[t] = "released" /\ ~aborted[t]
    /\ request[t][2] < MaxRequests[t]
    /\ LET next == <<t, request[t][2] + 1>>
       IN /\ request' = [request EXCEPT ![t] = next]
          /\ \E mp \in MaxParallelArgs : Send(t, AcquireOf(next, mp, request[t]))
    /\ pc' = [pc EXCEPT ![t] = "returning"]
    /\ UNCHANGED <<vars, aborted, spawned, losses, suspends>>

\* fn returned or threw, with the slot or (stopped, or a failed tool) without.
Return(t) == pc[t] \in {"held", "released"} /\ Finish(t)

Beat(t) ==
    /\ pc[t] \in Live
    /\ heartbeat(request[t])
    /\ UNCHANGED clientVars

-----------------------------------------------------------------------------
(* The host takes up the next command of a window. *)

Handle(m) ==
    CASE m.op = "cancel" -> CancelUnknown(m.id) \/ CancelFound(m.id)
      [] m.op = "release" -> release_with(m.id, m.reserve)
      [] m.op = "release_window" -> release_window(m.window)
      [] m.op = "acquire" -> cancelling = NoId /\ UNCHANGED vars

Dispatch(w) ==
    /\ inbox[w] # <<>>
    /\ Handle(Head(inbox[w]))
    /\ spawned' = IF Head(inbox[w]).op = "acquire" THEN spawned \cup {Head(inbox[w])} ELSE spawned
    /\ inbox' = [inbox EXCEPT ![w] = Tail(@)]
    /\ UNCHANGED <<pc, request, aborted, losses, suspends>>

\* The body of an acquire runs up to its await.
RunAcquire(m) ==
    LET t == m.id[1]
    IN /\ m \in spawned
       /\ \/ enqueue_with(m.id, TurnLane[t], m.max_parallel, TurnWindow[t],
                          m.replaces # NoId, TurnPriority[t], m.replaces)
          \/ enqueue_cancelled(m.id)
       /\ spawned' = spawned \ {m}
       /\ UNCHANGED <<pc, request, aborted, inbox, losses, suspends>>

HostStep ==
    /\ CancelRemove \/ sweep_expired \/ \E id \in ReqIds : Resume(id)
    /\ UNCHANGED clientVars

-----------------------------------------------------------------------------
(* Windows and time. *)

TurnsOf(w) == {t \in Turns : TurnWindow[t] = w}

\* The renderer reloads or crashes: its turns are gone without a word, and the
\* new one starts by reclaiming the window's tickets (reclaimOwnWindowSlots).
Reload(w) ==
    /\ losses + suspends < MaxFaults /\ losses' = losses + 1
    /\ pc' = [t \in Turns |-> IF t \in TurnsOf(w) /\ pc[t] \in Live THEN "gone" ELSE pc[t]]
    /\ inbox' = [inbox EXCEPT ![w] = Append(@, ReleaseWindowOf(w))]
    /\ UNCHANGED <<vars, request, aborted, spawned, suspends>>

\* The window closes: what it had not got through to the host is lost, and the
\* window-destroyed listener reclaims its tickets.
Close(w) ==
    /\ losses + suspends < MaxFaults /\ losses' = losses + 1
    /\ pc' = [t \in Turns |-> IF t \in TurnsOf(w) /\ pc[t] # "done" THEN "gone" ELSE pc[t]]
    /\ inbox' = [inbox EXCEPT ![w] = <<ReleaseWindowOf(w)>>]
    /\ UNCHANGED <<vars, request, aborted, spawned, suspends>>

InFlight ==
    \/ \E w \in Windows : inbox[w] # <<>>
    \/ spawned # {}
    \/ cancelling # NoId
    \/ \E id \in ReqIds : call[id] \in {"woken", "dropped"}

\* A tick is minutes: commands do not stay in flight that long, and every live
\* turn has beaten since the last one.
Fresh(f, id) == id \in DOMAIN f => f[id].lease = LeaseTtl

Tick ==
    /\ ~InFlight
    /\ \A t \in Turns : pc[t] \in Live => Fresh(tickets, request[t]) /\ Fresh(reservations, request[t])
    /\ Elapse(1)
    /\ UNCHANGED clientVars

\* The machine sleeps: leases are wall-clock time, and no heartbeat runs.
Suspend ==
    /\ losses + suspends < MaxFaults /\ suspends' = suspends + 1
    /\ Elapse(LeaseTtl)
    /\ UNCHANGED <<pc, request, aborted, inbox, spawned, losses>>

-----------------------------------------------------------------------------
TurnsInit ==
    /\ Init
    /\ pc = [t \in Turns |-> "idle"]
    /\ request = [t \in Turns |-> NoId]
    /\ aborted = [t \in Turns |-> FALSE]
    /\ inbox = [w \in Windows |-> <<>>]
    /\ spawned = {}
    /\ losses = 0 /\ suspends = 0

TurnStep(t) ==
    \/ Begin(t) \/ Abort(t) \/ Admitted(t) \/ NotAdmitted(t)
    \/ GiveBack(t) \/ TakeBack(t) \/ Return(t) \/ Beat(t)

TurnsNext ==
    \/ \E t \in Turns : TurnStep(t)
    \/ \E w \in Windows : Dispatch(w) \/ Reload(w) \/ Close(w)
    \/ \E m \in spawned : RunAcquire(m)
    \/ HostStep
    \/ Tick
    \/ Suspend

\* The host keeps working: main thread, tokio tasks, sweeper, clock.  A renderer
\* gets to its resolved calls, beats, and its model calls and tools end.
Fairness ==
    /\ \A w \in Windows : WF_allVars(Dispatch(w))
    /\ WF_allVars(\E m \in spawned : RunAcquire(m))
    /\ WF_allVars(CancelRemove /\ UNCHANGED clientVars)
    /\ WF_allVars(sweep_expired /\ UNCHANGED clientVars)
    /\ \A id \in ReqIds : WF_allVars(Resume(id) /\ UNCHANGED clientVars)
    /\ WF_allVars(Tick)
    /\ \A t \in Turns : WF_allVars(Beat(t))
    /\ \A t \in Turns : WF_allVars(Admitted(t) \/ NotAdmitted(t))
    /\ \A t \in Turns : WF_allVars(TakeBack(t) \/ Return(t))

TurnsSpec == TurnsInit /\ [][TurnsNext]_allVars
FairTurns == TurnsSpec /\ Fairness

-----------------------------------------------------------------------------
(* Properties. *)

\* The type invariant of the composition.
TurnsTypeOK ==
    /\ TypeOK
    /\ pc \in [Turns -> Live \cup {"idle", "done", "gone"}]
    /\ request \in [Turns -> ReqIds \cup {NoId}]
    /\ \A t \in Turns : pc[t] \in Live \cup {"done"} => request[t] \in ReqIds
    /\ aborted \in [Turns -> BOOLEAN]
    /\ \A w \in Windows : \A i \in DOMAIN inbox[w] :
        inbox[w][i].op \in {"acquire", "cancel", "release", "release_window"}
    /\ \A m \in spawned : m.op = "acquire" /\ m.id \in ReqIds

Runs(id) == id \in DOMAIN tickets /\ tickets[id].state = "running"

\* A turn that believes it holds a slot does: its ticket runs in the queue, so
\* the queue counts it.  Neither a late cancel, a reload of the window it
\* started in, nor the sweeper takes the ticket from under it, unless the
\* machine slept past the lease.
HeldIsBacked ==
    \A t \in Turns : pc[t] = "held" /\ suspends = 0 => Runs(request[t])

\* A foreground turn keeps background tickets from being admitted to its lane
\* from the moment it has its slot until it ends or is stopped, while its long
\* tools run and while it waits to come back included; a sleep past the lease
\* ends its reservation.
KeepsBackgroundOut ==
    [][\A t \in Turns, id \in ReqIds :
        /\ pc[t] \in {"held", "released", "returning"}
        /\ ~aborted[t] /\ suspends = 0
        /\ TurnPriority[t] = "foreground"
        /\ TurnPriority[id[1]] = "background"
        /\ TurnLane[t] = TurnLane[id[1]]
        => ~AdmittedNow(id)]_allVars

\* Some command of the turn's window has not been handled to its end.
Pending(t) ==
    \/ inbox[TurnWindow[t]] # <<>>
    \/ \E m \in spawned : m.id[1] = t
    \/ cancelling # NoId /\ cancelling[1] = t

\* A turn that returned leaves no ticket behind once its commands have been
\* handled, whichever overtook which: an abandoned ticket would hold the lane's
\* slot until its lease lapses.
NoTicketLeftBehind ==
    \A t \in Turns : pc[t] = "done" /\ ~Pending(t) => \A id \in DOMAIN tickets : id[1] # t

\* A stopped turn does not stand in the queue: once the host has handled its
\* commands, no ticket of it waits, although the cancel may have come before
\* the acquire it cancels, or raced a grant between its two critical sections.
StoppedNotQueued ==
    \A t \in Turns :
        aborted[t] /\ pc[t] # "gone" /\ ~Pending(t) =>
            \A id \in DOMAIN tickets : id[1] = t => tickets[id].state = "running"

\* Every acquire comes to an end for its turn: it has the slot, or it is over.
TurnSettles ==
    \A t \in Turns : pc[t] \in {"acquiring", "returning"} ~> pc[t] \in {"held", "done", "gone"}

\* What a finished or lost turn left in the queue is cleared: by its commands,
\* its window's cleanup or the lease sweeper, even when its acquire arrived
\* after the cleanup.
OrphansReclaimed ==
    \A t \in Turns :
        pc[t] \in {"done", "gone"} ~>
            \A id \in DOMAIN tickets \cup DOMAIN reservations : id[1] # t
=============================================================================
