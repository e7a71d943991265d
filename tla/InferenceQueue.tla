--------------------------- MODULE InferenceQueue ---------------------------
(***************************************************************************)
(* The process-wide admission control for inference turns                  *)
(* (src-tauri/src/inference_queue.rs): one mutex-protected `Inner` whose   *)
(* operations the Tauri commands, the window-destroyed listener and the    *)
(* lease sweeper call.                                                     *)
(*                                                                         *)
(* Every action is one critical section of the mutex, so `cancel`, which   *)
(* takes the lock twice, is two actions.  Synchronous commands run on the  *)
(* main thread, one after another; `inference_acquire` (async) and the     *)
(* sweeper run on other threads and may come between the two halves of a   *)
(* cancel.                                                                 *)
(***************************************************************************)
EXTENDS Integers, Sequences, FiniteSets

CONSTANTS
    ReqIds,          \* client-supplied request ids
    NoId,            \* Option::None where an id is expected
    Lanes,           \* provider keys
    Windows,         \* window labels
    MaxParallelArgs, \* the max_parallel values the frontend passes
    NoLimit,         \* max_parallel = None: the lane's limit is unknown
    UsizeMax,        \* usize::MAX, the capacity of an unbounded lane
    LeaseTtl,        \* LEASE_TTL_MS in ticks of the model's clock
    EarlyCancelCap   \* EARLY_CANCEL_CAP

ASSUME QueueAssumption ==
    /\ NoId \notin ReqIds
    /\ MaxParallelArgs \subseteq Nat \cup {NoLimit}
    /\ NoLimit \notin Nat
    /\ UsizeMax \in Nat \ {0}
    /\ LeaseTtl \in Nat \ {0}
    /\ EarlyCancelCap \in Nat

VARIABLES
    tickets,         \* Inner.tickets: id |-> ticket, waiting and running
    ahead,           \* the order of that Vec: <<a, b>> when a stands before b
    reservations,    \* Inner.reservations: id |-> reservation
    lane_capacity,   \* Inner.lane_capacity; an absent lane has capacity 1
    cancelled_early, \* Inner.cancelled_early
    call,            \* per id: its inference_acquire call, and (while
                     \* "waiting") its entry in Inner.senders
    cancelling       \* the id whose cancel is between its two critical
                     \* sections on the main thread, or NoId

queue == <<tickets, ahead, reservations, lane_capacity, call>>
vars == <<queue, cancelled_early, cancelling>>

Priority == {"foreground", "background"}
TicketState == {"waiting", "running"}

\* lease is what is left of lease_expires_at - now, in ticks; 0 has lapsed.
Ticket == [lane : Lanes, state : TicketState, front : BOOLEAN,
           priority : Priority, owner_window : Windows, lease : 0..LeaseTtl]

Reservation == [lane : Lanes, owner_window : Windows, lease : 0..LeaseTtl]

\* none: not called.  waiting: awaiting its receiver, the sender still in
\* Inner.senders.  woken / dropped: the sender was used / dropped and the
\* future has not run since.  The others are what the command returned.
CallState == {"none", "waiting", "woken", "dropped",
              "admitted", "vanished", "cancelled", "refused"}

-----------------------------------------------------------------------------
(* Reading the queue: ts a ticket table, ord its order, rs reservations.   *)

Keep(f, S) == [id \in S |-> f[id]]

running_by_lane(ts, lane) ==
    {id \in DOMAIN ts : ts[id].lane = lane /\ ts[id].state = "running"}

\* Fault: a turn running a long tool does not count.
OnlyTicketsBusy(ts, rs, lane) ==
    \E id \in DOMAIN ts : ts[id].lane = lane /\ ts[id].priority = "foreground"

\* A background ticket on the lane must keep waiting.
lane_busy_for_background(ts, rs, lane) ==
    \/ \E id \in DOMAIN ts : ts[id].lane = lane /\ ts[id].priority = "foreground"
    \/ \E id \in DOMAIN rs : rs[id].lane = lane

\* The waiting tickets of a lane that pump would take, given free slots.
Eligible(ts, rs, lane) ==
    {id \in DOMAIN ts :
        /\ ts[id].lane = lane
        /\ ts[id].state = "waiting"
        /\ ts[id].priority = "background" => ~lane_busy_for_background(ts, rs, lane)}

\* Fault: the walk starts at the back.
EligibleBehind(ts, ord, rs, id) ==
    {other \in Eligible(ts, rs, ts[id].lane) : <<id, other>> \in ord}

EligibleAhead(ts, ord, rs, id) ==
    {other \in Eligible(ts, rs, ts[id].lane) : <<other, id>> \in ord}

-----------------------------------------------------------------------------
(* pump: walks the tickets in order and admits each eligible one while its *)
(* lane has capacity.  Whether a background ticket must wait does not      *)
(* depend on what the walk admits, so the walk takes, on every lane, the   *)
(* first eligible tickets that fit.                                        *)

\* Fault: the capacity check is off by one.
AdmitsOneMore(ts, ord, rs, caps, id) ==
    /\ id \in Eligible(ts, rs, ts[id].lane)
    /\ Cardinality(running_by_lane(ts, ts[id].lane))
         + Cardinality(EligibleAhead(ts, ord, rs, id)) <= caps[ts[id].lane]

Admits(ts, ord, rs, caps, id) ==
    /\ id \in Eligible(ts, rs, ts[id].lane)
    /\ Cardinality(running_by_lane(ts, ts[id].lane))
         + Cardinality(EligibleAhead(ts, ord, rs, id)) < caps[ts[id].lane]

pump(ts, ord, rs, caps) ==
    [id \in DOMAIN ts |->
        IF Admits(ts, ord, rs, caps, id) THEN [ts[id] EXCEPT !.state = "running"] ELSE ts[id]]

\* The same as the loop of the source: the tickets in Vec order, each looked at
\* with the running counts the earlier ones left.
InOrder(S, ord) ==
    [i \in 1..Cardinality(S) |->
        CHOOSE id \in S : Cardinality({other \in S : <<other, id>> \in ord}) = i - 1]

WalkStep(rs, caps, ts, id) ==
    IF /\ ts[id].state = "waiting"
       /\ Cardinality(running_by_lane(ts, ts[id].lane)) < caps[ts[id].lane]
       /\ ts[id].priority = "background" =>
            ~lane_busy_for_background(ts, rs, ts[id].lane)
    THEN [ts EXCEPT ![id].state = "running"]
    ELSE ts

Walk(ts, order, rs, caps) ==
    LET after[n \in 0..Len(order)] ==
            IF n = 0 THEN ts ELSE WalkStep(rs, caps, after[n - 1], order[n])
    IN after[Len(order)]

\* The senders after a critical section that left the tickets ts: pump sends
\* to the waiters it admits; a waiter whose ticket was removed had its sender
\* dropped.
\*
\* Fault: removing a ticket leaves its sender in the map.
WakeAdmittedOnly(calls, ts) ==
    [id \in ReqIds |->
        IF calls[id] = "waiting" /\ id \in DOMAIN ts /\ ts[id].state = "running"
        THEN "woken" ELSE calls[id]]

Wake(calls, ts) ==
    [id \in ReqIds |->
        IF calls[id] # "waiting" THEN calls[id]
        ELSE IF id \notin DOMAIN ts THEN "dropped"
        ELSE IF ts[id].state = "running" THEN "woken"
        ELSE "waiting"]

\* The tail of every operation that changed the queue: pump, then unlock.
PumpInto(ts, ord, rs, caps, calls) ==
    /\ tickets' = pump(ts, ord, rs, caps)
    /\ ahead' = ord
    /\ reservations' = rs
    /\ lane_capacity' = caps
    /\ call' = Wake(calls, pump(ts, ord, rs, caps))

\* Removing the tickets outside S, and ending the reservations outside R.
\*
\* Fault: the freed slot is not offered to the next waiter.
RetainWithoutPump(S, rs) ==
    /\ tickets' = Keep(tickets, S)
    /\ ahead' = {p \in ahead : p[1] \in S /\ p[2] \in S}
    /\ reservations' = rs
    /\ call' = Wake(call, Keep(tickets, S))
    /\ UNCHANGED lane_capacity

Retain(S, rs) ==
    PumpInto(Keep(tickets, S), {p \in ahead : p[1] \in S /\ p[2] \in S},
             rs, lane_capacity, call)

-----------------------------------------------------------------------------
(* inference_acquire. *)

\* None is unbounded; a count is floored at 1.
CapacityFor(max_parallel) ==
    IF max_parallel = NoLimit THEN UsizeMax
    ELSE IF max_parallel < 1 THEN 1 ELSE max_parallel

\* Fault: a returning turn passes the ones that came back before it.
JoinsAheadOfAll(lane, front) ==
    IF front
    THEN {id \in DOMAIN tickets : \E o \in DOMAIN tickets :
            /\ tickets[o].lane = lane /\ tickets[o].state = "waiting"
            /\ id = o \/ <<o, id>> \in ahead}
    ELSE {}

\* Whom a ticket joins ahead of: a front one goes before the lane's first
\* ordinary waiter, any other to the back.
JoinsAhead(lane, front) ==
    LET ordinary == {id \in DOMAIN tickets :
                        /\ tickets[id].lane = lane
                        /\ tickets[id].state = "waiting"
                        /\ ~tickets[id].front}
    IN IF front
       THEN {id \in DOMAIN tickets :
                \E o \in ordinary : id = o \/ <<o, id>> \in ahead}
       ELSE {}

enqueue_with(id, lane, max_parallel, window, front, priority, replaces) ==
    /\ call[id] = "none"
    /\ id \notin DOMAIN tickets
    /\ \A i \in DOMAIN cancelled_early : cancelled_early[i] # id
    /\ LET t == [lane |-> lane, state |-> "waiting", front |-> front, priority |-> priority,
                 owner_window |-> window, lease |-> LeaseTtl]
           behind == JoinsAhead(lane, front)
       IN PumpInto([i \in DOMAIN tickets \cup {id} |-> IF i = id THEN t ELSE tickets[i]],
                   ahead \cup ((DOMAIN tickets \ behind) \X {id}) \cup ({id} \X behind),
                   Keep(reservations, DOMAIN reservations \ {replaces}),
                   [lane_capacity EXCEPT ![lane] = CapacityFor(max_parallel)],
                   [call EXCEPT ![id] = "waiting"])
    /\ UNCHANGED <<cancelled_early, cancelling>>

\* Its cancel came first: the remembered id is used up and the call refused,
\* before anything else of the request is looked at.
enqueue_cancelled(id) ==
    /\ call[id] = "none"
    /\ id \notin DOMAIN tickets
    /\ \E i \in DOMAIN cancelled_early :
        /\ cancelled_early[i] = id
        /\ \A j \in 1..(i - 1) : cancelled_early[j] # id
        /\ cancelled_early' = SubSeq(cancelled_early, 1, i - 1)
                                \o SubSeq(cancelled_early, i + 1, Len(cancelled_early))
    /\ call' = [call EXCEPT ![id] = "refused"]
    /\ UNCHANGED <<tickets, ahead, reservations, lane_capacity, cancelling>>

\* The awaiting command runs again and reads its ticket back under the lock:
\* an admitted ticket may have been released or reclaimed meanwhile.
Resume(id) ==
    /\ call[id] \in {"woken", "dropped"}
    /\ call' = [call EXCEPT ![id] = IF @ = "dropped" THEN "cancelled"
                                    ELSE IF id \in DOMAIN tickets THEN "admitted"
                                    ELSE "vanished"]
    /\ UNCHANGED <<tickets, ahead, reservations, lane_capacity, cancelled_early, cancelling>>

-----------------------------------------------------------------------------
(* inference_cancel: the lock is taken once to look the id up, and again   *)
(* to remove its ticket if it is still waiting.                            *)

\* The last n elements of s.
Newest(s, n) == SubSeq(s, IF Len(s) > n THEN Len(s) - n + 1 ELSE 1, Len(s))

\* Fault: a cancel that comes before its acquire is forgotten.
CancelForgotten(id) ==
    /\ cancelling = NoId
    /\ id \notin DOMAIN tickets
    /\ UNCHANGED vars

CancelUnknown(id) ==
    /\ cancelling = NoId
    /\ id \notin DOMAIN tickets
    /\ cancelled_early' = Newest(Append(cancelled_early, id), EarlyCancelCap)
    /\ UNCHANGED <<queue, cancelling>>

CancelFound(id) ==
    /\ cancelling = NoId
    /\ id \in DOMAIN tickets
    /\ cancelling' = id
    /\ UNCHANGED <<queue, cancelled_early>>

CancelRemove ==
    /\ cancelling # NoId
    /\ cancelling' = NoId
    /\ IF cancelling \in DOMAIN tickets /\ tickets[cancelling].state = "waiting"
       THEN Retain(DOMAIN tickets \ {cancelling}, reservations)
       ELSE UNCHANGED queue
    /\ UNCHANGED cancelled_early

-----------------------------------------------------------------------------
(* inference_release, inference_heartbeat. *)

\* Gives the slot back; with reserve the lane keeps a reservation under the
\* id.  Nothing happens when the id has neither a ticket nor a reservation.
release_with(id, reserve) ==
    /\ cancelling = NoId
    /\ LET others == Keep(reservations, DOMAIN reservations \ {id})
           given == [lane |-> tickets[id].lane, owner_window |-> tickets[id].owner_window,
                     lease |-> LeaseTtl]
       IN CASE id \in DOMAIN tickets /\ reserve ->
                 Retain(DOMAIN tickets \ {id},
                        [r \in DOMAIN others \cup {id} |-> IF r = id THEN given ELSE others[r]])
            [] id \in DOMAIN tickets /\ ~reserve -> Retain(DOMAIN tickets \ {id}, others)
            [] id \notin DOMAIN tickets /\ id \in DOMAIN reservations ->
                 Retain(DOMAIN tickets, others)
            [] OTHER -> UNCHANGED queue
    /\ UNCHANGED <<cancelled_early, cancelling>>

heartbeat(id) ==
    LET Renewed(f) == [i \in DOMAIN f |-> IF i = id THEN [f[i] EXCEPT !.lease = LeaseTtl] ELSE f[i]]
    IN /\ cancelling = NoId
       /\ tickets' = Renewed(tickets)
       /\ reservations' = Renewed(reservations)
       /\ UNCHANGED <<ahead, lane_capacity, call, cancelled_early, cancelling>>

-----------------------------------------------------------------------------
(* reclaim: the removal core of release_window and the lease sweeper.  It  *)
(* pumps only if something was reclaimed.                                  *)

reclaim(victims, ended) ==
    /\ IF victims = {} /\ ended = {}
       THEN UNCHANGED queue
       ELSE Retain(DOMAIN tickets \ victims, Keep(reservations, DOMAIN reservations \ ended))
    /\ UNCHANGED <<cancelled_early, cancelling>>

\* From inference_release_window and the window-destroyed listener, both on
\* the main thread.
release_window(window) ==
    /\ cancelling = NoId
    /\ reclaim({id \in DOMAIN tickets : tickets[id].owner_window = window},
               {id \in DOMAIN reservations : reservations[id].owner_window = window})

Lapsed(f) == {id \in DOMAIN f : f[id].lease = 0}

\* Fault: reservations have no lease of their own.
SweepTickets == reclaim(Lapsed(tickets), {})

sweep_expired == reclaim(Lapsed(tickets), Lapsed(reservations))

\* The wall clock advances by n ticks.
Elapse(n) ==
    LET Older(f) == [id \in DOMAIN f |->
            [f[id] EXCEPT !.lease = IF @ < n THEN 0 ELSE @ - n]]
    IN /\ tickets' = Older(tickets)
       /\ reservations' = Older(reservations)
       /\ UNCHANGED <<ahead, lane_capacity, call, cancelled_early, cancelling>>

-----------------------------------------------------------------------------
NoEntries == [id \in {} |-> NoId]

Init ==
    /\ tickets = NoEntries
    /\ ahead = {}
    /\ reservations = NoEntries
    /\ lane_capacity = [l \in Lanes |-> 1]
    /\ cancelled_early = <<>>
    /\ call = [id \in ReqIds |-> "none"]
    /\ cancelling = NoId

\* The frontend passes `replaces` exactly when it passes `front`.
Acquire(id) ==
    \/ \E lane \in Lanes, mp \in MaxParallelArgs, w \in Windows, p \in Priority,
          replaces \in (ReqIds \cup {NoId}) \ {id} :
        enqueue_with(id, lane, mp, w, replaces # NoId, p, replaces)
    \/ enqueue_cancelled(id)

Next ==
    \/ \E id \in ReqIds : Acquire(id)
    \/ \E id \in ReqIds : Resume(id)
    \/ \E id \in ReqIds : CancelUnknown(id)
    \/ \E id \in ReqIds : CancelFound(id)
    \/ CancelRemove
    \/ \E id \in ReqIds, reserve \in BOOLEAN : release_with(id, reserve)
    \/ \E id \in ReqIds : heartbeat(id)
    \/ \E w \in Windows : release_window(w)
    \/ sweep_expired
    \/ \E n \in 1..LeaseTtl : Elapse(n)

Spec == Init /\ [][Next]_vars

-----------------------------------------------------------------------------
(* Properties. *)

\* The Vec as an order: any two tickets stand one before the other.
OrderOK ==
    /\ ahead \subseteq (DOMAIN tickets) \X (DOMAIN tickets)
    /\ \A a, b \in DOMAIN tickets : a # b => (<<a, b>> \in ahead <=> <<b, a>> \notin ahead)
    /\ \A a \in DOMAIN tickets : <<a, a>> \notin ahead
    /\ \A a, b, c \in DOMAIN tickets :
        <<a, b>> \in ahead /\ <<b, c>> \in ahead => <<a, c>> \in ahead

\* The type invariant: every table holds values of its type, and the tickets
\* stand in a row.
TypeOK ==
    /\ DOMAIN tickets \subseteq ReqIds
    /\ tickets \in [DOMAIN tickets -> Ticket]
    /\ OrderOK
    /\ DOMAIN reservations \subseteq ReqIds
    /\ reservations \in [DOMAIN reservations -> Reservation]
    /\ lane_capacity \in [Lanes -> Nat \ {0}]
    /\ cancelled_early \in Seq(ReqIds)
    /\ Len(cancelled_early) <= EarlyCancelCap
    /\ call \in [ReqIds -> CallState]
    /\ cancelling \in ReqIds \cup {NoId}

\* No acquire is left awaiting a wakeup nobody will send: a command waits on
\* its receiver exactly as long as its ticket waits in the queue (the senders
\* map and the ticket list, two structures kept in step by hand).
NoLostWakeup ==
    \A id \in ReqIds :
        call[id] = "waiting" <=> id \in DOMAIN tickets /\ tickets[id].state = "waiting"

\* A background ticket may run on the lane.
LaneIsClear(lane) ==
    /\ \A id \in DOMAIN tickets : tickets[id].lane = lane => tickets[id].priority = "background"
    /\ \A id \in DOMAIN reservations : reservations[id].lane # lane

\* No slot is left idle: whenever the lock is free, a waiting ticket waits
\* because its lane is full, or because it is a background one and the lane
\* is busy for it.  Every operation that frees a slot, raises a capacity or
\* ends a reservation must pump for this to hold.
WorkConserving ==
    \A id \in DOMAIN tickets :
        tickets[id].state = "waiting" =>
            \/ Cardinality(running_by_lane(tickets, tickets[id].lane))
                  >= lane_capacity[tickets[id].lane]
            \/ tickets[id].priority = "background" /\ ~LaneIsClear(tickets[id].lane)

\* The closed form of pump is the source's loop: for what is left of the
\* queue when any of its tickets and reservations go and every lane has any of
\* the capacities it may be given, both admit the same tickets.
PumpIsTheWalk ==
    \A S \in SUBSET DOMAIN tickets, R \in SUBSET DOMAIN reservations,
       caps \in [Lanes -> {1} \cup {CapacityFor(mp) : mp \in MaxParallelArgs}] :
        LET ts == Keep(tickets, S)
            ord == {p \in ahead : p[1] \in S /\ p[2] \in S}
            rs == Keep(reservations, R)
        IN pump(ts, ord, rs, caps) = Walk(ts, InOrder(S, ord), rs, caps)

AdmittedNow(id) ==
    /\ id \in DOMAIN tickets' /\ tickets'[id].state = "running"
    /\ ~(id \in DOMAIN tickets /\ tickets[id].state = "running")

\* A step admits a ticket only if its lane then runs no more than its current
\* capacity (which the last acquire may just have lowered below what runs),
\* and a background one only if no foreground ticket and no reservation is on
\* the lane.
AdmissionSound ==
    [][\A id \in ReqIds, lane \in Lanes :
        AdmittedNow(id) /\ tickets'[id].lane = lane =>
            /\ Cardinality(running_by_lane(tickets', lane)) <= lane_capacity'[lane]
            /\ tickets'[id].priority = "background" => LaneIsClear(lane)']_vars

\* Nobody is passed over: when a ticket is admitted, whoever still waits ahead
\* of it on its lane is a background ticket that has to give way.
NoOvertaking ==
    [][\A id, other \in ReqIds, lane \in Lanes :
        /\ AdmittedNow(id) /\ tickets'[id].lane = lane
        /\ <<other, id>> \in ahead'
        /\ tickets'[other].lane = lane /\ tickets'[other].state = "waiting"
        => tickets'[other].priority = "background" /\ ~LaneIsClear(lane)']_vars

\* FIFO: tickets already in the queue keep their order whatever is inserted or
\* removed, and a new one joins behind everything that waits on its lane,
\* except that a front one passes the ordinary waiters.
ArrivalOrder ==
    [][/\ \A a, b \in DOMAIN tickets \cap DOMAIN tickets' :
            <<a, b>> \in ahead => <<a, b>> \in ahead'
       /\ \A new \in DOMAIN tickets' \ DOMAIN tickets, a \in DOMAIN tickets :
            /\ tickets[a].lane = tickets'[new].lane
            /\ tickets[a].state = "waiting"
            /\ tickets'[new].front => tickets[a].front
            => <<a, new>> \in ahead']_vars

\* The queue read as slots and who asks for them.
Promised == INSTANCE LaneSlots WITH
    Ids <- ReqIds,
    asks <- [id \in DOMAIN tickets |->
                [lane |-> tickets[id].lane, priority |-> tickets[id].priority]],
    holds <- {id \in DOMAIN tickets : tickets[id].state = "running"},
    kept <- {reservations[id].lane : id \in DOMAIN reservations},
    slots <- lane_capacity

\* The queue implements LaneSlots: whatever comes, in one critical section of
\* the mutex, every lane's slots go to those who may have them, none is given
\* that the lane does not have, and none is left free for someone who waits.
ServesSlots == Promised!Spec

=============================================================================
