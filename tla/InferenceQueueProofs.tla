------------------------ MODULE InferenceQueueProofs ------------------------
(***************************************************************************)
(* Theorems about InferenceQueue, for any set of requests, lanes and       *)
(* windows, any capacities and any lease length: its invariants, that it   *)
(* serves its waiters in order, and that it implements LaneSlots.          *)
(***************************************************************************)
EXTENDS InferenceQueue, FiniteSetTheorems, SequenceTheorems, WellFoundedInduction, TLAPS

\* A table of tickets of known ids.
IsTable(ts) == /\ DOMAIN ts \subseteq ReqIds
               /\ ts \in [DOMAIN ts -> Ticket]

IsReservations(rs) == /\ DOMAIN rs \subseteq ReqIds
                      /\ rs \in [DOMAIN rs -> Reservation]

\* ord puts the ids of D in a row.
IsOrder(ord, D) ==
    /\ ord \subseteq D \X D
    /\ \A a, b \in D : a # b => (<<a, b>> \in ord <=> <<b, a>> \notin ord)
    /\ \A a \in D : <<a, a>> \notin ord
    /\ \A a, b, c \in D : <<a, b>> \in ord /\ <<b, c>> \in ord => <<a, c>> \in ord

IsCalls(cs) == cs \in [ReqIds -> CallState]
IsCapacities(caps) == caps \in [Lanes -> Nat \ {0}]

-----------------------------------------------------------------------------
(* What the operators of the queue return. *)

\* pump moves tickets from waiting to running and changes nothing else.
LEMMA PumpType ==
    ASSUME NEW ts, NEW ord, NEW rs, NEW caps, IsTable(ts)
    PROVE  /\ DOMAIN pump(ts, ord, rs, caps) = DOMAIN ts
           /\ IsTable(pump(ts, ord, rs, caps))
           /\ \A id \in DOMAIN ts :
                /\ pump(ts, ord, rs, caps)[id].lane = ts[id].lane
                /\ pump(ts, ord, rs, caps)[id].priority = ts[id].priority
                /\ pump(ts, ord, rs, caps)[id].front = ts[id].front
                /\ pump(ts, ord, rs, caps)[id].lease = ts[id].lease
                /\ pump(ts, ord, rs, caps)[id].state =
                     IF Admits(ts, ord, rs, caps, id) THEN "running" ELSE ts[id].state
  BY DEF pump, IsTable, Ticket, TicketState

LEMMA WakeType ==
    ASSUME NEW calls, NEW ts, IsCalls(calls)
    PROVE  IsCalls(Wake(calls, ts))
  BY DEF IsCalls, Wake, CallState

LEMMA KeepType ==
    ASSUME NEW f, NEW S, S \subseteq DOMAIN f
    PROVE  /\ DOMAIN Keep(f, S) = S
           /\ IsTable(f) => IsTable(Keep(f, S))
           /\ IsReservations(f) => IsReservations(Keep(f, S))
  BY DEF Keep, IsTable, IsReservations

LEMMA OrderRestricted ==
    ASSUME NEW ord, NEW D, NEW S, S \subseteq D, IsOrder(ord, D)
    PROVE  IsOrder({p \in ord : p[1] \in S /\ p[2] \in S}, S)
  BY DEF IsOrder

\* A newcomer goes ahead of a set closed towards the back, and behind the rest.
LEMMA OrderInserted ==
    ASSUME NEW ord, NEW D, NEW new, new \notin D, NEW behind \in SUBSET D,
           IsOrder(ord, D),
           \A a, b \in D : a \in behind /\ <<a, b>> \in ord => b \in behind
    PROVE  IsOrder(ord \cup ((D \ behind) \X {new}) \cup ({new} \X behind), D \cup {new})
<1> DEFINE o == ord \cup ((D \ behind) \X {new}) \cup ({new} \X behind)
<1>1. \A a, b \in D : <<a, b>> \in o <=> <<a, b>> \in ord
  OBVIOUS
<1>2. \A a \in D : (<<a, new>> \in o <=> a \notin behind) /\ (<<new, a>> \in o <=> a \in behind)
  BY DEF IsOrder
<1>3. <<new, new>> \notin o /\ o \subseteq (D \cup {new}) \X (D \cup {new})
  BY DEF IsOrder
<1> HIDE DEF o
<1>4. \A a, b \in D \cup {new} : a # b => (<<a, b>> \in o <=> <<b, a>> \notin o)
  BY <1>1, <1>2 DEF IsOrder
<1>5. ASSUME NEW a \in D \cup {new}, NEW b \in D \cup {new}, NEW c \in D \cup {new},
             <<a, b>> \in o, <<b, c>> \in o
      PROVE  <<a, c>> \in o
  <2>1. CASE a \in D /\ b \in D /\ c \in D
    BY <1>1, <1>5, <2>1 DEF IsOrder
  <2>2. CASE a = new \/ c = new
    <3>1. CASE a = new /\ c = new
      BY <1>2, <1>3, <1>5, <3>1
    <3>2. CASE a = new /\ c # new
      BY <1>1, <1>2, <1>3, <1>5, <3>2
    <3>3. CASE a # new /\ c = new
      BY <1>1, <1>2, <1>3, <1>5, <3>3
    <3> QED
      BY <2>2, <3>1, <3>2, <3>3
  <2>3. CASE a \in D /\ b = new /\ c \in D
    \* c is behind and a is not, so c cannot stand ahead of a.
    <3>1. a \notin behind /\ c \in behind
      BY <1>2, <1>5, <2>3
    <3>2. <<c, a>> \notin ord
      BY <2>3, <3>1
    <3> QED
      BY <1>1, <2>3, <3>1, <3>2 DEF IsOrder
  <2> QED
    BY <2>1, <2>2, <2>3
<1> QED
  BY <1>1, <1>3, <1>4, <1>5 DEF IsOrder, o

-----------------------------------------------------------------------------
(* Type correctness. *)

LEMMA TypeParts ==
    TypeOK <=> /\ IsTable(tickets) /\ IsOrder(ahead, DOMAIN tickets)
               /\ IsReservations(reservations) /\ IsCapacities(lane_capacity)
               /\ cancelled_early \in Seq(ReqIds) /\ Len(cancelled_early) <= EarlyCancelCap
               /\ IsCalls(call) /\ cancelling \in ReqIds \cup {NoId}
  BY DEF TypeOK, OrderOK, IsTable, IsOrder, IsReservations, IsCapacities, IsCalls

\* The common tail keeps the types of what it is given.
LEMMA PumpIntoType ==
    ASSUME NEW ts, NEW ord, NEW rs, NEW caps, NEW calls,
           IsTable(ts), IsOrder(ord, DOMAIN ts), IsReservations(rs), IsCapacities(caps),
           IsCalls(calls), PumpInto(ts, ord, rs, caps, calls)
    PROVE  /\ IsTable(tickets') /\ IsOrder(ahead', DOMAIN tickets')
           /\ IsReservations(reservations') /\ IsCapacities(lane_capacity') /\ IsCalls(call')
  BY PumpType, WakeType DEF PumpInto

LEMMA RetainType ==
    ASSUME TypeOK, NEW S \in SUBSET DOMAIN tickets, NEW rs, IsReservations(rs), Retain(S, rs)
    PROVE  /\ IsTable(tickets') /\ IsOrder(ahead', DOMAIN tickets')
           /\ IsReservations(reservations') /\ IsCapacities(lane_capacity') /\ IsCalls(call')
<1>1. IsTable(Keep(tickets, S)) /\ DOMAIN Keep(tickets, S) = S
  BY TypeParts, KeepType
<1>2. IsOrder({p \in ahead : p[1] \in S /\ p[2] \in S}, S)
  BY TypeParts, OrderRestricted
<1> QED
  BY <1>1, <1>2, TypeParts, PumpIntoType DEF Retain

\* Whom a newcomer passes is closed towards the back of the queue.
LEMMA JoinsAheadClosed ==
    ASSUME IsOrder(ahead, DOMAIN tickets), NEW lane, NEW front
    PROVE  /\ JoinsAhead(lane, front) \subseteq DOMAIN tickets
           /\ \A a, b \in DOMAIN tickets :
                a \in JoinsAhead(lane, front) /\ <<a, b>> \in ahead => b \in JoinsAhead(lane, front)
  BY DEF JoinsAhead, IsOrder

LEMMA CapacityForType ==
    ASSUME NEW mp \in MaxParallelArgs
    PROVE  CapacityFor(mp) \in Nat \ {0}
  BY QueueAssumption DEF CapacityFor

LEMMA EnqueueType ==
    ASSUME TypeOK, NEW id \in ReqIds, NEW lane \in Lanes, NEW mp \in MaxParallelArgs,
           NEW w \in Windows, NEW front \in BOOLEAN, NEW p \in Priority, NEW replaces,
           enqueue_with(id, lane, mp, w, front, p, replaces)
    PROVE  TypeOK'
<1> DEFINE t == [lane |-> lane, state |-> "waiting", front |-> front, priority |-> p,
                 owner_window |-> w, lease |-> LeaseTtl]
           ts == [i \in DOMAIN tickets \cup {id} |-> IF i = id THEN t ELSE tickets[i]]
           behind == JoinsAhead(lane, front)
           ord == ahead \cup ((DOMAIN tickets \ behind) \X {id}) \cup ({id} \X behind)
           rs == Keep(reservations, DOMAIN reservations \ {replaces})
           caps == [lane_capacity EXCEPT ![lane] = CapacityFor(mp)]
           calls == [call EXCEPT ![id] = "waiting"]
<1>1. IsTable(ts) /\ DOMAIN ts = DOMAIN tickets \cup {id}
  <2>1. t \in Ticket
    BY QueueAssumption DEF Ticket, TicketState
  <2> QED
    BY <2>1, TypeParts DEF IsTable
<1>2. IsOrder(ord, DOMAIN ts)
  <2>1. id \notin DOMAIN tickets
    BY DEF enqueue_with
  <2>2. IsOrder(ahead, DOMAIN tickets)
    BY TypeParts
  <2>3. /\ behind \in SUBSET DOMAIN tickets
        /\ \A a, b \in DOMAIN tickets : a \in behind /\ <<a, b>> \in ahead => b \in behind
    BY <2>2, JoinsAheadClosed
  <2> HIDE DEF ts, behind
  <2>4. IsOrder(ord, DOMAIN tickets \cup {id})
    BY <2>1, <2>2, <2>3, OrderInserted
  <2> QED
    BY <1>1, <2>4
<1>3. IsReservations(rs)
  BY TypeParts, KeepType
<1>4. IsCapacities(caps)
  BY TypeParts, CapacityForType DEF IsCapacities
<1>5. IsCalls(calls)
  BY TypeParts DEF IsCalls, CallState
<1>6. PumpInto(ts, ord, rs, caps, calls) /\ UNCHANGED <<cancelled_early, cancelling>>
  BY DEF enqueue_with
<1> HIDE DEF ts, ord, rs, caps, calls
<1>7. /\ IsTable(tickets') /\ IsOrder(ahead', DOMAIN tickets')
      /\ IsReservations(reservations') /\ IsCapacities(lane_capacity') /\ IsCalls(call')
  BY <1>1, <1>2, <1>3, <1>4, <1>5, <1>6, PumpIntoType
<1> QED
  BY <1>6, <1>7, TypeParts DEF TypeOK, OrderOK, IsTable, IsOrder, IsReservations, IsCapacities, IsCalls

\* Forgetting one remembered id leaves a shorter sequence of ids.
LEMMA ForgetType ==
    ASSUME NEW s \in Seq(ReqIds), NEW i \in 1..Len(s)
    PROVE  /\ SubSeq(s, 1, i - 1) \o SubSeq(s, i + 1, Len(s)) \in Seq(ReqIds)
           /\ Len(SubSeq(s, 1, i - 1) \o SubSeq(s, i + 1, Len(s))) <= Len(s)
<1> DEFINE a == SubSeq(s, 1, i - 1)
           b == SubSeq(s, i + 1, Len(s))
<1>1. Len(s) \in Nat /\ i \in Nat /\ i >= 1 /\ i <= Len(s)
  BY LenProperties
<1>2. a \in Seq(ReqIds) /\ Len(a) = i - 1
  BY SubSeqProperties
<1>3. b \in Seq(ReqIds) /\ Len(b) = Len(s) - i
  BY SubSeqProperties
<1> HIDE DEF a, b
<1>4. a \o b \in Seq(ReqIds) /\ Len(a \o b) = Len(a) + Len(b)
  BY <1>2, <1>3, ConcatProperties
<1>5. a \o b \in Seq(ReqIds) /\ Len(a \o b) <= Len(s)
  BY <1>1, <1>2, <1>3, <1>4
<1> QED
  BY <1>5 DEF a, b

\* Remembering one more keeps at most the newest EarlyCancelCap.
LEMMA NewestType ==
    ASSUME NEW s \in Seq(ReqIds), NEW n \in Nat
    PROVE  Newest(s, n) \in Seq(ReqIds) /\ Len(Newest(s, n)) <= n
  BY SubSeqProperties DEF Newest

LEMMA RetainKeepsType ==
    ASSUME TypeOK, NEW S \in SUBSET DOMAIN tickets, NEW rs, IsReservations(rs), Retain(S, rs),
           cancelled_early' = cancelled_early, cancelling' \in ReqIds \cup {NoId}
    PROVE  TypeOK'
<1>1. /\ IsTable(tickets') /\ IsOrder(ahead', DOMAIN tickets')
      /\ IsReservations(reservations') /\ IsCapacities(lane_capacity') /\ IsCalls(call')
  BY RetainType
<1> QED
  BY <1>1, TypeParts DEF TypeOK, OrderOK, IsTable, IsOrder, IsReservations, IsCapacities, IsCalls

\* release_window and the sweeper, whatever they pick.
LEMMA ReclaimType ==
    ASSUME TypeOK, NEW victims, NEW ended, reclaim(victims, ended)
    PROVE  TypeOK'
<1> DEFINE T == DOMAIN tickets \ victims
           R == DOMAIN reservations \ ended
<1>1. IsReservations(Keep(reservations, R))
  BY TypeParts, KeepType
<1>2. Retain(T, Keep(reservations, R)) \/ UNCHANGED queue
  BY DEF reclaim
<1>3. UNCHANGED <<cancelled_early, cancelling>>
  BY DEF reclaim
<1>4. CASE Retain(T, Keep(reservations, R))
  BY <1>1, <1>3, <1>4, RetainKeepsType, TypeParts
<1>5. CASE UNCHANGED queue
  BY <1>3, <1>5 DEF queue, TypeOK, OrderOK
<1> QED
  BY <1>2, <1>4, <1>5

LEMMA ReleaseType ==
    ASSUME TypeOK, NEW id \in ReqIds, NEW reserve \in BOOLEAN, release_with(id, reserve)
    PROVE  TypeOK'
<1> DEFINE others == Keep(reservations, DOMAIN reservations \ {id})
           given == [lane |-> tickets[id].lane, owner_window |-> tickets[id].owner_window,
                     lease |-> LeaseTtl]
           added == [r \in DOMAIN others \cup {id} |-> IF r = id THEN given ELSE others[r]]
<1>1. IsReservations(others)
  BY TypeParts, KeepType
<1>2. id \in DOMAIN tickets => IsReservations(added)
  <2>1. id \in DOMAIN tickets => given \in Reservation
    BY TypeParts, QueueAssumption DEF IsTable, Ticket, Reservation
  <2> HIDE DEF others, given
  <2> QED
    BY <1>1, <2>1 DEF IsReservations
<1>3. \/ id \in DOMAIN tickets /\ Retain(DOMAIN tickets \ {id}, added)
      \/ Retain(DOMAIN tickets \ {id}, others)
      \/ Retain(DOMAIN tickets, others)
      \/ UNCHANGED queue
  BY DEF release_with
<1>4. cancelled_early' = cancelled_early /\ cancelling' \in ReqIds \cup {NoId}
  BY TypeParts DEF release_with
<1> HIDE DEF others, added
<1>5. CASE UNCHANGED queue
  BY <1>4, <1>5 DEF queue, TypeOK, OrderOK
<1> QED
  BY <1>1, <1>2, <1>3, <1>4, <1>5, RetainKeepsType

\* Changing a lease keeps an entry in its type.
LEMMA LeaseType ==
    /\ \A x \in Ticket, k \in 0..LeaseTtl : [x EXCEPT !.lease = k] \in Ticket
    /\ \A x \in Reservation, k \in 0..LeaseTtl : [x EXCEPT !.lease = k] \in Reservation
  BY DEF Ticket, Reservation

LEMMA HeartbeatType ==
    ASSUME TypeOK, NEW id \in ReqIds, heartbeat(id)
    PROVE  TypeOK'
<1> DEFINE Renewed(f) == [i \in DOMAIN f |->
                            IF i = id THEN [f[i] EXCEPT !.lease = LeaseTtl] ELSE f[i]]
<1>1. tickets' = Renewed(tickets) /\ reservations' = Renewed(reservations)
  BY DEF heartbeat
<1>2. LeaseTtl \in 0..LeaseTtl
  BY QueueAssumption
<1>3. DOMAIN tickets' = DOMAIN tickets /\ IsTable(tickets')
  <2>1. \A i \in DOMAIN tickets : Renewed(tickets)[i] \in Ticket
    BY <1>2, TypeParts, LeaseType DEF IsTable
  <2> QED
    BY <1>1, <2>1, TypeParts DEF IsTable
<1>4. IsReservations(reservations')
  <2>1. \A i \in DOMAIN reservations : Renewed(reservations)[i] \in Reservation
    BY <1>2, TypeParts, LeaseType DEF IsReservations
  <2> QED
    BY <1>1, <2>1, TypeParts DEF IsReservations
<1> QED
  BY <1>3, <1>4, TypeParts
  DEF heartbeat, TypeOK, OrderOK, IsTable, IsOrder, IsReservations, IsCapacities, IsCalls

LEMMA ElapseType ==
    ASSUME TypeOK, NEW n \in 1..LeaseTtl, Elapse(n)
    PROVE  TypeOK'
<1> DEFINE Less(x) == IF x < n THEN 0 ELSE x - n
<1>1. \A x \in 0..LeaseTtl : Less(x) \in 0..LeaseTtl
  BY QueueAssumption
<1>2. /\ DOMAIN tickets' = DOMAIN tickets
      /\ \A id \in DOMAIN tickets :
            tickets'[id] = [tickets[id] EXCEPT !.lease = Less(tickets[id].lease)]
      /\ tickets' = [id \in DOMAIN tickets |-> tickets'[id]]
      /\ DOMAIN reservations' = DOMAIN reservations
      /\ \A id \in DOMAIN reservations :
            reservations'[id] = [reservations[id] EXCEPT !.lease = Less(reservations[id].lease)]
      /\ reservations' = [id \in DOMAIN reservations |-> reservations'[id]]
  BY DEF Elapse
<1> HIDE DEF Less
<1>3. IsTable(tickets')
  <2>1. \A id \in DOMAIN tickets : tickets[id] \in Ticket /\ tickets[id].lease \in 0..LeaseTtl
    BY TypeParts DEF IsTable, Ticket
  <2>2. \A id \in DOMAIN tickets : tickets'[id] \in Ticket
    BY <1>1, <1>2, <2>1, LeaseType
  <2> QED
    BY <1>2, <2>2, TypeParts DEF IsTable
<1>4. IsReservations(reservations')
  <2>1. \A id \in DOMAIN reservations :
            reservations[id] \in Reservation /\ reservations[id].lease \in 0..LeaseTtl
    BY TypeParts DEF IsReservations, Reservation
  <2>2. \A id \in DOMAIN reservations : reservations'[id] \in Reservation
    BY <1>1, <1>2, <2>1, LeaseType
  <2> QED
    BY <1>2, <2>2, TypeParts DEF IsReservations
<1> QED
  BY <1>2, <1>3, <1>4, TypeParts
  DEF Elapse, TypeOK, OrderOK, IsTable, IsOrder, IsReservations, IsCapacities, IsCalls

LEMMA TypeInit == Init => TypeOK
  BY QueueAssumption, EmptySeq
  DEF Init, NoEntries, TypeOK, OrderOK, CallState

LEMMA TypeStep == TypeOK /\ [Next]_vars => TypeOK'
<1> SUFFICES ASSUME TypeOK, [Next]_vars PROVE TypeOK'
  OBVIOUS
<1>1. ASSUME NEW id \in ReqIds, Acquire(id) PROVE TypeOK'
  <2>1. ASSUME NEW lane \in Lanes, NEW mp \in MaxParallelArgs, NEW w \in Windows,
               NEW p \in Priority, NEW replaces \in (ReqIds \cup {NoId}) \ {id},
               enqueue_with(id, lane, mp, w, replaces # NoId, p, replaces)
        PROVE  TypeOK'
    BY <1>1, <2>1, EnqueueType
  <2>2. ASSUME enqueue_cancelled(id) PROVE TypeOK'
    <3>1. PICK i \in DOMAIN cancelled_early :
            cancelled_early' = SubSeq(cancelled_early, 1, i - 1)
                                \o SubSeq(cancelled_early, i + 1, Len(cancelled_early))
      BY <2>2 DEF enqueue_cancelled
    <3>2. i \in 1..Len(cancelled_early) /\ Len(cancelled_early) \in Nat
      BY TypeParts, LenProperties
    <3>3. /\ cancelled_early' \in Seq(ReqIds)
          /\ Len(cancelled_early') <= Len(cancelled_early)
          /\ Len(cancelled_early') \in Nat
      BY <3>1, <3>2, ForgetType, TypeParts, LenProperties
    <3>4. Len(cancelled_early') <= EarlyCancelCap
      BY <3>2, <3>3, TypeParts, QueueAssumption
    <3> QED
      BY <2>2, <3>3, <3>4 DEF enqueue_cancelled, TypeOK, OrderOK, CallState
  <2> QED
    BY <1>1, <2>1, <2>2 DEF Acquire
<1>2. ASSUME NEW id \in ReqIds, Resume(id) PROVE TypeOK'
  BY <1>2 DEF Resume, TypeOK, OrderOK, CallState
<1>3. ASSUME NEW id \in ReqIds, CancelUnknown(id) PROVE TypeOK'
  <2>1. Append(cancelled_early, id) \in Seq(ReqIds)
    BY TypeParts, AppendProperties
  <2>2. cancelled_early' \in Seq(ReqIds) /\ Len(cancelled_early') <= EarlyCancelCap
    BY <1>3, <2>1, NewestType, QueueAssumption DEF CancelUnknown
  <2> QED
    BY <1>3, <2>2 DEF CancelUnknown, queue, TypeOK, OrderOK
<1>4. ASSUME NEW id \in ReqIds, CancelFound(id) PROVE TypeOK'
  BY <1>4 DEF CancelFound, queue, TypeOK, OrderOK
<1>5. ASSUME CancelRemove PROVE TypeOK'
  <2>1. CASE Retain(DOMAIN tickets \ {cancelling}, reservations)
    BY <1>5, <2>1, RetainKeepsType, TypeParts DEF CancelRemove
  <2>2. CASE UNCHANGED queue
    BY <1>5, <2>2 DEF CancelRemove, queue, TypeOK, OrderOK
  <2> QED
    BY <1>5, <2>1, <2>2 DEF CancelRemove
<1>6. ASSUME NEW id \in ReqIds, NEW reserve \in BOOLEAN, release_with(id, reserve) PROVE TypeOK'
  BY <1>6, ReleaseType
<1>7. ASSUME NEW id \in ReqIds, heartbeat(id) PROVE TypeOK'
  BY <1>7, HeartbeatType
<1>8. ASSUME NEW w \in Windows, release_window(w) PROVE TypeOK'
  BY <1>8, ReclaimType DEF release_window
<1>9. ASSUME sweep_expired PROVE TypeOK'
  BY <1>9, ReclaimType DEF sweep_expired
<1>10. ASSUME NEW n \in 1..LeaseTtl, Elapse(n) PROVE TypeOK'
  BY <1>10, ElapseType
<1>11. CASE UNCHANGED vars
  BY <1>11 DEF vars, queue, TypeOK, OrderOK
<1> QED
  BY <1>1, <1>2, <1>3, <1>4, <1>5, <1>6, <1>7, <1>8, <1>9, <1>10, <1>11 DEF Next

\* Every table of the queue keeps holding values of its type, and the tickets
\* stay in one row, whatever is enqueued, cancelled, released or reclaimed.
THEOREM TypeCorrect == Spec => []TypeOK
  BY TypeInit, TypeStep, PTL DEF Spec

-----------------------------------------------------------------------------
(* Nobody waits for a wakeup that nobody will send. *)

\* Waking after a pump leaves a sender exactly for the tickets still waiting,
\* provided every ticket that waited before had one.
LEMMA PumpLosesNobody ==
    ASSUME NEW ts, NEW ord, NEW rs, NEW caps, NEW calls,
           IsTable(ts), IsCalls(calls), PumpInto(ts, ord, rs, caps, calls),
           \A id \in DOMAIN ts : ts[id].state = "waiting" => calls[id] = "waiting"
    PROVE  NoLostWakeup'
<1>1. /\ DOMAIN tickets' = DOMAIN ts
      /\ call' = Wake(calls, tickets')
  BY PumpType DEF PumpInto
<1>2. ASSUME NEW id \in DOMAIN ts
      PROVE  tickets'[id].state \in TicketState /\ (tickets'[id].state = "waiting" => calls[id] = "waiting")
  BY PumpType DEF PumpInto, IsTable, Ticket
<1>3. ASSUME NEW id \in ReqIds
      PROVE  call'[id] = "waiting" <=> id \in DOMAIN tickets' /\ tickets'[id].state = "waiting"
  <2>1. CASE calls[id] # "waiting"
    BY <1>1, <1>2, <2>1 DEF Wake
  <2>2. CASE calls[id] = "waiting"
    BY <1>1, <1>2, <2>2 DEF Wake, TicketState
  <2>. QED  BY <2>1, <2>2
<1>. QED  BY <1>3 DEF NoLostWakeup

LEMMA RetainLosesNobody ==
    ASSUME TypeOK, NoLostWakeup, NEW S, NEW rs, S \subseteq DOMAIN tickets, Retain(S, rs)
    PROVE  NoLostWakeup'
<1>1. IsTable(Keep(tickets, S)) /\ DOMAIN Keep(tickets, S) = S
  BY TypeParts, KeepType
<1>2. \A id \in S : Keep(tickets, S)[id].state = "waiting" => call[id] = "waiting"
  BY TypeParts DEF Keep, NoLostWakeup, IsTable
<1>3. PumpInto(Keep(tickets, S), {p \in ahead : p[1] \in S /\ p[2] \in S}, rs, lane_capacity, call)
  BY DEF Retain
<1>. QED  BY <1>1, <1>2, <1>3, PumpLosesNobody, TypeParts

\* A step that leaves the states of the tickets and the waiting calls alone.
LEMMA SameWaiters ==
    ASSUME NoLostWakeup, DOMAIN tickets' = DOMAIN tickets,
           \A id \in DOMAIN tickets : tickets'[id].state = tickets[id].state,
           \A id \in ReqIds : call'[id] = "waiting" <=> call[id] = "waiting"
    PROVE  NoLostWakeup'
BY DEF NoLostWakeup

LEMMA NoLostWakeupStep == TypeOK /\ NoLostWakeup /\ [Next]_vars => NoLostWakeup'
<1>. SUFFICES ASSUME TypeOK, NoLostWakeup, [Next]_vars PROVE NoLostWakeup'
  OBVIOUS
<1>1. ASSUME NEW id \in ReqIds, Acquire(id) PROVE NoLostWakeup'
  <2>1. ASSUME NEW lane \in Lanes, NEW mp \in MaxParallelArgs, NEW w \in Windows,
               NEW p \in Priority, NEW replaces \in (ReqIds \cup {NoId}) \ {id},
               enqueue_with(id, lane, mp, w, replaces # NoId, p, replaces)
        PROVE  NoLostWakeup'
    <3> DEFINE t == [lane |-> lane, state |-> "waiting", front |-> replaces # NoId, priority |-> p,
                     owner_window |-> w, lease |-> LeaseTtl]
               ts == [i \in DOMAIN tickets \cup {id} |-> IF i = id THEN t ELSE tickets[i]]
               calls == [call EXCEPT ![id] = "waiting"]
               behind == JoinsAhead(lane, replaces # NoId)
    <3>1. PumpInto(ts, ahead \cup ((DOMAIN tickets \ behind) \X {id}) \cup ({id} \X behind),
                   Keep(reservations, DOMAIN reservations \ {replaces}),
                   [lane_capacity EXCEPT ![lane] = CapacityFor(mp)], calls)
      BY <2>1 DEF enqueue_with
    <3>2. t \in Ticket
      BY QueueAssumption DEF Ticket, TicketState
    <3>3. IsTable(ts) /\ DOMAIN ts = DOMAIN tickets \cup {id}
      BY <3>2, TypeParts DEF IsTable
    <3>4. IsCalls(calls)
      BY TypeParts DEF IsCalls, CallState
    <3>5. \A i \in DOMAIN ts : ts[i].state = "waiting" => calls[i] = "waiting"
      BY <3>3, TypeParts DEF NoLostWakeup, IsTable, IsCalls
    <3>. HIDE DEF ts, calls
    <3>. QED  BY <3>1, <3>3, <3>4, <3>5, PumpLosesNobody
  <2>2. ASSUME enqueue_cancelled(id) PROVE NoLostWakeup'
    BY <2>2, SameWaiters, TypeParts DEF enqueue_cancelled, IsCalls
  <2>. QED  BY <1>1, <2>1, <2>2 DEF Acquire
<1>2. ASSUME NEW id \in ReqIds, Resume(id) PROVE NoLostWakeup'
  BY <1>2, SameWaiters, TypeParts DEF Resume, IsCalls
<1>3. ASSUME NEW id \in ReqIds, CancelUnknown(id) \/ CancelFound(id) PROVE NoLostWakeup'
  BY <1>3, SameWaiters DEF CancelUnknown, CancelFound, queue
<1>4. ASSUME CancelRemove PROVE NoLostWakeup'
  <2>1. CASE Retain(DOMAIN tickets \ {cancelling}, reservations)
    BY <2>1, RetainLosesNobody
  <2>2. CASE UNCHANGED queue
    BY <2>2, SameWaiters DEF queue
  <2>. QED  BY <1>4, <2>1, <2>2 DEF CancelRemove
<1>5. ASSUME NEW S, NEW rs, S \subseteq DOMAIN tickets, Retain(S, rs) \/ UNCHANGED queue
      PROVE  NoLostWakeup'
  BY <1>5, RetainLosesNobody, SameWaiters DEF queue
<1>6. ASSUME NEW id \in ReqIds, NEW reserve \in BOOLEAN, release_with(id, reserve) PROVE NoLostWakeup'
  <2>1. \/ UNCHANGED queue
        \/ \E rs : Retain(DOMAIN tickets \ {id}, rs) \/ Retain(DOMAIN tickets, rs)
    BY <1>6 DEF release_with
  <2>. QED  BY <1>5, <2>1
<1>7. ASSUME NEW id \in ReqIds, heartbeat(id) PROVE NoLostWakeup'
  <2>1. DOMAIN tickets' = DOMAIN tickets /\ \A i \in DOMAIN tickets : tickets'[i].state = tickets[i].state
    BY <1>7, TypeParts DEF heartbeat, IsTable, Ticket
  <2>. QED  BY <1>7, <2>1, SameWaiters DEF heartbeat
<1>8. ASSUME NEW victims, NEW ended, reclaim(victims, ended) PROVE NoLostWakeup'
  <2>1. UNCHANGED queue \/ \E rs : Retain(DOMAIN tickets \ victims, rs)
    BY <1>8 DEF reclaim
  <2>. QED  BY <1>5, <2>1
<1>9. ASSUME (\E w \in Windows : release_window(w)) \/ sweep_expired PROVE NoLostWakeup'
  BY <1>8, <1>9 DEF release_window, sweep_expired
<1>10. ASSUME NEW n \in 1..LeaseTtl, Elapse(n) PROVE NoLostWakeup'
  <2>1. DOMAIN tickets' = DOMAIN tickets /\ \A i \in DOMAIN tickets : tickets'[i].state = tickets[i].state
    BY <1>10, TypeParts DEF Elapse, IsTable, Ticket
  <2>. QED  BY <1>10, <2>1, SameWaiters DEF Elapse
<1>11. CASE UNCHANGED vars
  BY <1>11, SameWaiters DEF vars, queue
<1>. QED  BY <1>1, <1>2, <1>3, <1>4, <1>6, <1>7, <1>9, <1>10, <1>11 DEF Next

\* A command waits on its receiver exactly as long as its ticket waits in the
\* queue, whatever cancels, releases and reclaims come between.
THEOREM NobodyForgotten == Spec => []NoLostWakeup
<1>1. Init => NoLostWakeup
  BY DEF Init, NoEntries, NoLostWakeup
<1>. QED  BY <1>1, TypeInit, TypeStep, NoLostWakeupStep, PTL DEF Spec

-----------------------------------------------------------------------------
(* The queue and LaneSlots. *)

\* The least of some natural numbers.
LEMMA Least ==
    ASSUME NEW T \in SUBSET Nat, T # {}
    PROVE  \E n \in T : \A k \in T : n <= k
<1>1. PICK n \in T : \A k \in T : ~(<<k, n>> \in OpToRel(<, Nat))
  BY NatLessThanWellFounded, WFMin
<1>2. \A k \in T : ~(k < n)
  BY <1>1 DEF OpToRel
<1>. QED  BY <1>2

-----------------------------------------------------------------------------
(* Whom pump takes. *)

\* The tickets of D that stand ahead of id.
Before(ord, D, id) == {other \in D : <<other, id>> \in ord}

\* Standing further back means having more tickets ahead.
LEMMA RankGrows ==
    ASSUME NEW ord, NEW D, IsOrder(ord, D), NEW E \in SUBSET D, IsFiniteSet(E),
           NEW a \in E, NEW b \in E, <<a, b>> \in ord
    PROVE  /\ IsFiniteSet(Before(ord, E, a)) /\ IsFiniteSet(Before(ord, E, b))
           /\ Cardinality(Before(ord, E, a)) + 1 <= Cardinality(Before(ord, E, b))
<1>1. IsFiniteSet(Before(ord, E, a)) /\ IsFiniteSet(Before(ord, E, b))
  BY FS_Subset DEF Before
<1>2. a \notin Before(ord, E, a) /\ Before(ord, E, a) \cup {a} \subseteq Before(ord, E, b)
  BY DEF Before, IsOrder
<1>3. Cardinality(Before(ord, E, a) \cup {a}) = Cardinality(Before(ord, E, a)) + 1
  BY <1>1, <1>2, FS_AddElement
<1>4. Cardinality(Before(ord, E, a) \cup {a}) <= Cardinality(Before(ord, E, b))
  BY <1>1, <1>2, FS_Subset
<1>. QED  BY <1>1, <1>3, <1>4

\* The first of E to have fewer than n ahead of them: whoever stands ahead of
\* one of them is one of them, they are no more than n, and n of them if
\* someone is left out.
LEMMA FirstOnes ==
    ASSUME NEW ord, NEW D, IsOrder(ord, D), NEW E \in SUBSET D, IsFiniteSet(E), NEW n \in Int,
           NEW A \in SUBSET E, \A id \in E : id \in A <=> Cardinality(Before(ord, E, id)) < n
    PROVE  /\ IsFiniteSet(A)
           /\ \A a \in A, b \in E : <<b, a>> \in ord => b \in A
           /\ A = {} \/ Cardinality(A) <= n
           /\ A = E \/ Cardinality(A) >= n
<1> DEFINE rank(id) == Cardinality(Before(ord, E, id))
<1>1. IsFiniteSet(A) /\ Cardinality(A) \in Nat
  BY FS_Subset, FS_CardinalityType
<1>2. \A id \in E : IsFiniteSet(Before(ord, E, id)) /\ rank(id) \in Nat
  BY FS_Subset, FS_CardinalityType DEF Before
<1>3. \A a \in A, b \in E : <<b, a>> \in ord => b \in A
  BY <1>2, RankGrows
<1>4. A = {} \/ Cardinality(A) <= n
  <2> SUFFICES ASSUME A # {} PROVE Cardinality(A) <= n
    OBVIOUS
  <2> DEFINE T == {k \in Nat : \E a \in A : k = n - rank(a)}
  <2>1. T # {}
    <3>1. PICK a \in A : TRUE
      OBVIOUS
    <3>2. n - rank(a) \in Nat
      BY <1>2, <3>1
    <3>. QED  BY <3>1, <3>2
  <2>2. PICK k \in T : \A j \in T : k <= j
    BY <2>1, Least
  <2>3. PICK last \in A : k = n - rank(last)
    BY <2>2
  <2>4. \A a \in A : rank(a) <= rank(last)
    <3> SUFFICES ASSUME NEW a \in A PROVE rank(a) <= rank(last)
      OBVIOUS
    <3>1. n - rank(a) \in T
      BY <1>2
    <3>. QED  BY <1>2, <2>2, <2>3, <3>1
  <2>5. A \subseteq Before(ord, E, last) \cup {last}
    <3> SUFFICES ASSUME NEW a \in A, a # last PROVE a \in Before(ord, E, last)
      OBVIOUS
    <3>1. <<last, a>> \notin ord
      BY <1>2, <2>4, RankGrows
    <3>2. <<a, last>> \in ord
      BY <3>1 DEF IsOrder
    <3>. QED  BY <3>2 DEF Before
  <2>6. /\ IsFiniteSet(Before(ord, E, last) \cup {last})
        /\ Cardinality(Before(ord, E, last) \cup {last}) <= rank(last) + 1
    <3>1. IsFiniteSet(Before(ord, E, last)) /\ rank(last) \in Nat
      BY <1>2
    <3>2. /\ IsFiniteSet(Before(ord, E, last) \cup {last})
          /\ Cardinality(Before(ord, E, last) \cup {last})
               = IF last \in Before(ord, E, last) THEN rank(last) ELSE rank(last) + 1
      BY <3>1, FS_AddElement
    <3>. HIDE DEF rank
    <3>. QED  BY <3>1, <3>2
  <2>7. Cardinality(A) <= Cardinality(Before(ord, E, last) \cup {last})
    BY <2>5, <2>6, FS_Subset
  <2>8. Cardinality(Before(ord, E, last) \cup {last}) \in Nat
    BY <2>6, FS_CardinalityType
  <2>. QED  BY <1>1, <1>2, <2>3, <2>6, <2>7, <2>8
<1>5. A = E \/ Cardinality(A) >= n
  <2> SUFFICES ASSUME A # E PROVE Cardinality(A) >= n
    OBVIOUS
  <2> DEFINE T == {k \in Nat : \E b \in E \ A : k = rank(b)}
  <2>1. T # {}
    BY <1>2
  <2>2. PICK k \in T : \A j \in T : k <= j
    BY <2>1, Least
  <2>3. PICK first \in E \ A : k = rank(first)
    BY <2>2
  <2>4. Before(ord, E, first) \subseteq A
    <3> SUFFICES ASSUME NEW b \in Before(ord, E, first), b \notin A PROVE FALSE
      OBVIOUS
    <3>1. b \in E /\ <<b, first>> \in ord
      BY DEF Before
    <3>2. rank(b) + 1 <= rank(first)
      BY <3>1, RankGrows
    <3>3. rank(b) \in T
      BY <1>2, <3>1
    <3>. QED  BY <1>2, <2>2, <2>3, <3>1, <3>2, <3>3
  <2>5. rank(first) <= Cardinality(A)
    BY <1>1, <2>4, FS_Subset
  <2>6. rank(first) >= n
    BY <1>2, <2>3
  <2>. QED  BY <1>1, <1>2, <2>5, <2>6
<1>. QED  BY <1>1, <1>3, <1>4, <1>5

\* On every lane pump runs eligible tickets only, nobody behind one it leaves
\* waiting, no more than the lane's capacity if it runs any, and all of them or
\* as many as the capacity.
LEMMA PumpServes ==
    ASSUME NEW ts, NEW ord, NEW rs, NEW caps, NEW lane \in Lanes,
           IsTable(ts), IsFiniteSet(DOMAIN ts), IsOrder(ord, DOMAIN ts), IsCapacities(caps)
    PROVE  LET had == running_by_lane(ts, lane)
               has == running_by_lane(pump(ts, ord, rs, caps), lane)
               may == Eligible(ts, rs, lane)
           IN /\ had \subseteq has
              /\ has \ had \subseteq may
              /\ \A id \in has \ had, other \in may : <<other, id>> \in ord => other \in has
              /\ has = had \/ Cardinality(has) <= caps[lane]
              /\ may \subseteq has \/ Cardinality(has) >= caps[lane]
<1> DEFINE had == running_by_lane(ts, lane)
           has == running_by_lane(pump(ts, ord, rs, caps), lane)
           may == Eligible(ts, rs, lane)
           n == caps[lane] - Cardinality(had)
           A == {id \in may : Cardinality(Before(ord, may, id)) < n}
<1>1. /\ had \subseteq DOMAIN ts /\ may \subseteq DOMAIN ts /\ had \cap may = {}
      /\ IsFiniteSet(had) /\ IsFiniteSet(may) /\ Cardinality(had) \in Nat
  <2>1. had \subseteq DOMAIN ts /\ may \subseteq DOMAIN ts /\ had \cap may = {}
    BY DEF running_by_lane, Eligible
  <2>. QED  BY <2>1, FS_Subset, FS_CardinalityType
<1>2. caps[lane] \in Nat /\ n \in Int
  BY <1>1 DEF IsCapacities
<1>3. \A id \in may : Admits(ts, ord, rs, caps, id) <=> id \in A
  <2> SUFFICES ASSUME NEW id \in may PROVE Admits(ts, ord, rs, caps, id) <=> id \in A
    OBVIOUS
  <2>1. ts[id].lane = lane
    BY DEF Eligible
  <2>2. EligibleAhead(ts, ord, rs, id) = Before(ord, may, id)
    BY <2>1 DEF EligibleAhead, Before
  <2>3. Cardinality(Before(ord, may, id)) \in Nat
    BY <1>1, FS_Subset, FS_CardinalityType DEF Before
  <2>. HIDE DEF may
  <2>4. Admits(ts, ord, rs, caps, id)
          <=> Cardinality(had) + Cardinality(Before(ord, may, id)) < caps[lane]
    BY <2>1, <2>2 DEF Admits, may
  <2>. HIDE DEF had
  <2>. QED  BY <1>1, <1>2, <2>3, <2>4
<1>4. has = had \cup A
  <2>1. \A id \in DOMAIN ts : Admits(ts, ord, rs, caps, id) /\ ts[id].lane = lane => id \in may
    BY DEF Admits
  <2>2. \A id \in DOMAIN ts : id \in has <=> id \in had \/ id \in A
    <3> SUFFICES ASSUME NEW id \in DOMAIN ts PROVE id \in has <=> id \in had \/ id \in A
      OBVIOUS
    <3>1. ts[id].lane = lane => (Admits(ts, ord, rs, caps, id) <=> id \in A)
      BY <1>3, <2>1
    <3>2. id \in A => ts[id].lane = lane
      BY DEF Eligible
    <3>3. id \in has <=> /\ ts[id].lane = lane
                         /\ Admits(ts, ord, rs, caps, id) \/ ts[id].state = "running"
      BY PumpType DEF running_by_lane
    <3>. HIDE DEF A
    <3>. QED  BY <3>1, <3>2, <3>3 DEF running_by_lane
  <2>3. has \subseteq DOMAIN ts /\ had \subseteq DOMAIN ts /\ A \subseteq DOMAIN ts
    BY <1>1, PumpType DEF running_by_lane
  <2>. HIDE DEF has, had, A
  <2>. QED  BY <2>2, <2>3
<1>. HIDE DEF had, has, may, n
<1>. HIDE DEF A
<1>5. /\ IsFiniteSet(A)
      /\ \A a \in A, b \in may : <<b, a>> \in ord => b \in A
      /\ A = {} \/ Cardinality(A) <= n
      /\ A = may \/ Cardinality(A) >= n
  <2>1. /\ A \in SUBSET may
        /\ \A id \in may : id \in A <=> Cardinality(Before(ord, may, id)) < n
    BY DEF A
  <2> DEFINE D == DOMAIN ts
  <2>2. IsOrder(ord, D) /\ may \in SUBSET D /\ IsFiniteSet(may) /\ n \in Int
    BY <1>1, <1>2
  <2>. HIDE DEF D
  <2>3. IsFiniteSet(A)
    BY <2>1, <2>2, FS_Subset
  <2>4. \A a \in A, b \in may : <<b, a>> \in ord => b \in A
    BY <2>1, <2>2, FirstOnes
  <2>5. A = {} \/ Cardinality(A) <= n
    BY <2>1, <2>2, FirstOnes
  <2>6. A = may \/ Cardinality(A) >= n
    BY <2>1, <2>2, FirstOnes
  <2>. QED  BY <2>3, <2>4, <2>5, <2>6
<1>6. Cardinality(has) = Cardinality(had) + Cardinality(A) /\ Cardinality(A) \in Nat
  <2>1. had \cap A = {}
    BY <1>1 DEF A
  <2>2. Cardinality(had \cup A) = Cardinality(had) + Cardinality(A) - 0
    BY <1>1, <1>5, <2>1, FS_Union, FS_EmptySet
  <2>. QED  BY <1>1, <1>4, <1>5, <2>2, FS_CardinalityType
<1>7. has = had \/ Cardinality(has) <= caps[lane]
  BY <1>1, <1>2, <1>4, <1>5, <1>6 DEF n
<1>8. may \subseteq has \/ Cardinality(has) >= caps[lane]
  BY <1>1, <1>2, <1>4, <1>5, <1>6 DEF n
<1>9. A \subseteq may
  BY DEF A
<1>10. \A id \in has \ had, other \in may : <<other, id>> \in ord => other \in has
  BY <1>4, <1>5
<1>. QED  BY <1>4, <1>7, <1>8, <1>9, <1>10 DEF had, has, may

-----------------------------------------------------------------------------
(* The steps of the queue: a request comes, requests leave, or neither.    *)

Entry(t) == [lane |-> t.lane, state |-> t.state, priority |-> t.priority, front |-> t.front]

\* No ticket but its lease changes.
Quiet ==
    /\ DOMAIN tickets' = DOMAIN tickets
    /\ \A id \in DOMAIN tickets : Entry(tickets'[id]) = Entry(tickets[id])
    /\ ahead' = ahead
    /\ DOMAIN reservations' = DOMAIN reservations
    /\ \A id \in DOMAIN reservations : reservations'[id].lane = reservations[id].lane
    /\ lane_capacity' = lane_capacity

\* Every reservation of rs is one of now, or of one of the lanes given.
ReservesOnly(rs, lanes) ==
    \A r \in DOMAIN rs :
        \/ r \in DOMAIN reservations /\ rs[r].lane = reservations[r].lane
        \/ rs[r].lane \in lanes

Departs(S, rs) ==
    /\ S \in SUBSET DOMAIN tickets
    /\ ReservesOnly(rs, {tickets[id].lane : id \in DOMAIN tickets \ S})
    /\ Retain(S, rs)

With(id, t) == [i \in DOMAIN tickets \cup {id} |-> IF i = id THEN t ELSE tickets[i]]

Inserted(id, t) ==
    ahead \cup ((DOMAIN tickets \ JoinsAhead(t.lane, t.front)) \X {id})
          \cup ({id} \X JoinsAhead(t.lane, t.front))

Arrives(id, t, rs, n, calls) ==
    /\ id \in ReqIds \ DOMAIN tickets
    /\ t \in Ticket /\ t.state = "waiting"
    /\ ReservesOnly(rs, {})
    /\ n \in Nat \ {0}
    /\ PumpInto(With(id, t), Inserted(id, t), rs, [lane_capacity EXCEPT ![t.lane] = n], calls)

LEMMA ReclaimShape ==
    ASSUME TypeOK, NEW victims, NEW ended, reclaim(victims, ended)
    PROVE  Quiet \/ \E S, rs : Departs(S, rs)
<1> DEFINE S == DOMAIN tickets \ victims
           rs == Keep(reservations, DOMAIN reservations \ ended)
<1>1. CASE UNCHANGED queue
  BY <1>1 DEF queue, Quiet
<1>2. CASE Retain(S, rs)
  <2>1. ReservesOnly(rs, {tickets[id].lane : id \in DOMAIN tickets \ S})
    BY DEF ReservesOnly, Keep
  <2>. QED  BY <1>2, <2>1 DEF Departs
<1>. QED  BY <1>1, <1>2 DEF reclaim

LEMMA ReleaseShape ==
    ASSUME TypeOK, NEW id \in ReqIds, NEW reserve \in BOOLEAN, release_with(id, reserve)
    PROVE  Quiet \/ \E S, rs : Departs(S, rs)
<1> DEFINE others == Keep(reservations, DOMAIN reservations \ {id})
           given == [lane |-> tickets[id].lane, owner_window |-> tickets[id].owner_window,
                     lease |-> LeaseTtl]
           added == [r \in DOMAIN others \cup {id} |-> IF r = id THEN given ELSE others[r]]
<1>1. \/ id \in DOMAIN tickets /\ Retain(DOMAIN tickets \ {id}, added)
      \/ Retain(DOMAIN tickets \ {id}, others)
      \/ Retain(DOMAIN tickets, others)
      \/ UNCHANGED queue
  BY DEF release_with
<1>2. CASE id \in DOMAIN tickets /\ Retain(DOMAIN tickets \ {id}, added)
  <2>1. ReservesOnly(added, {tickets[o].lane : o \in DOMAIN tickets \ (DOMAIN tickets \ {id})})
    BY <1>2 DEF ReservesOnly, Keep
  <2>. QED  BY <1>2, <2>1 DEF Departs
<1>3. ASSUME NEW S \in SUBSET DOMAIN tickets, Retain(S, others) PROVE \E rs : Departs(S, rs)
  <2>1. ReservesOnly(others, {tickets[o].lane : o \in DOMAIN tickets \ S})
    BY DEF ReservesOnly, Keep
  <2>. QED  BY <1>3, <2>1 DEF Departs
<1>4. CASE UNCHANGED queue
  BY <1>4 DEF queue, Quiet
<1>. QED  BY <1>1, <1>2, <1>3, <1>4

LEMMA EnqueueShape ==
    ASSUME TypeOK, NEW id \in ReqIds, NEW lane \in Lanes, NEW mp \in MaxParallelArgs,
           NEW w \in Windows, NEW front \in BOOLEAN, NEW p \in Priority, NEW replaces,
           enqueue_with(id, lane, mp, w, front, p, replaces)
    PROVE  \E t, rs, n, calls : Arrives(id, t, rs, n, calls)
<1> DEFINE t == [lane |-> lane, state |-> "waiting", front |-> front, priority |-> p,
                 owner_window |-> w, lease |-> LeaseTtl]
           rs == Keep(reservations, DOMAIN reservations \ {replaces})
           calls == [call EXCEPT ![id] = "waiting"]
<1>1. t \in Ticket /\ t.state = "waiting" /\ t.lane = lane /\ t.front = front
  BY QueueAssumption DEF Ticket, TicketState
<1>2. ReservesOnly(rs, {})
  BY DEF ReservesOnly, Keep
<1>3. id \notin DOMAIN tickets /\ CapacityFor(mp) \in Nat \ {0}
  BY CapacityForType DEF enqueue_with
<1>4. PumpInto(With(id, t), Inserted(id, t), rs,
               [lane_capacity EXCEPT ![t.lane] = CapacityFor(mp)], calls)
  BY DEF enqueue_with, With, Inserted
<1>. HIDE DEF t, rs, calls
<1>. QED  BY <1>1, <1>2, <1>3, <1>4 DEF Arrives

LEMMA StepShape ==
    ASSUME TypeOK, [Next]_vars
    PROVE  \/ Quiet
           \/ \E S, rs : Departs(S, rs)
           \/ \E id, t, rs, n, calls : Arrives(id, t, rs, n, calls)
<1>1. ASSUME NEW id \in ReqIds, Acquire(id)
      PROVE  Quiet \/ \E t, rs, n, calls : Arrives(id, t, rs, n, calls)
  <2>1. CASE enqueue_cancelled(id)
    BY <2>1 DEF enqueue_cancelled, Quiet
  <2>2. ASSUME NEW lane \in Lanes, NEW mp \in MaxParallelArgs, NEW w \in Windows,
               NEW p \in Priority, NEW replaces \in (ReqIds \cup {NoId}) \ {id},
               enqueue_with(id, lane, mp, w, replaces # NoId, p, replaces)
        PROVE  \E t, rs, n, calls : Arrives(id, t, rs, n, calls)
    BY <2>2, EnqueueShape
  <2>. QED  BY <1>1, <2>1, <2>2 DEF Acquire
<1>2. ASSUME NEW id \in ReqIds, Resume(id) \/ CancelUnknown(id) \/ CancelFound(id) PROVE Quiet
  BY <1>2 DEF Resume, CancelUnknown, CancelFound, queue, Quiet
<1>3. ASSUME CancelRemove PROVE Quiet \/ \E S, rs : Departs(S, rs)
  <2>1. CASE UNCHANGED queue
    BY <2>1 DEF queue, Quiet
  <2>2. CASE Retain(DOMAIN tickets \ {cancelling}, reservations)
    <3>1. ReservesOnly(reservations,
            {tickets[o].lane : o \in DOMAIN tickets \ (DOMAIN tickets \ {cancelling})})
      BY DEF ReservesOnly
    <3>. QED  BY <2>2, <3>1 DEF Departs
  <2>. QED  BY <1>3, <2>1, <2>2 DEF CancelRemove
<1>4. ASSUME NEW id \in ReqIds, NEW reserve \in BOOLEAN, release_with(id, reserve)
      PROVE  Quiet \/ \E S, rs : Departs(S, rs)
  BY <1>4, ReleaseShape
<1>5. ASSUME (\E w \in Windows : release_window(w)) \/ sweep_expired
      PROVE  Quiet \/ \E S, rs : Departs(S, rs)
  BY <1>5, ReclaimShape DEF release_window, sweep_expired
<1>6. ASSUME NEW id \in ReqIds, heartbeat(id) PROVE Quiet
  <2>1. /\ DOMAIN tickets' = DOMAIN tickets /\ DOMAIN reservations' = DOMAIN reservations
        /\ ahead' = ahead /\ lane_capacity' = lane_capacity
    BY <1>6 DEF heartbeat
  <2>2. \A i \in DOMAIN tickets : Entry(tickets'[i]) = Entry(tickets[i])
    BY <1>6, TypeParts DEF heartbeat, Entry, IsTable, Ticket
  <2>3. \A i \in DOMAIN reservations : reservations'[i].lane = reservations[i].lane
    BY <1>6, TypeParts DEF heartbeat, IsReservations, Reservation
  <2>. QED  BY <2>1, <2>2, <2>3 DEF Quiet
<1>7. ASSUME NEW n \in 1..LeaseTtl, Elapse(n) PROVE Quiet
  <2>1. /\ DOMAIN tickets' = DOMAIN tickets /\ DOMAIN reservations' = DOMAIN reservations
        /\ ahead' = ahead /\ lane_capacity' = lane_capacity
    BY <1>7 DEF Elapse
  <2>2. \A i \in DOMAIN tickets : Entry(tickets'[i]) = Entry(tickets[i])
    BY <1>7, TypeParts DEF Elapse, Entry, IsTable, Ticket
  <2>3. \A i \in DOMAIN reservations : reservations'[i].lane = reservations[i].lane
    BY <1>7, TypeParts DEF Elapse, IsReservations, Reservation
  <2>. QED  BY <2>1, <2>2, <2>3 DEF Quiet
<1>8. ASSUME UNCHANGED vars PROVE Quiet
  BY <1>8 DEF vars, queue, Quiet
<1>. QED  BY <1>1, <1>2, <1>3, <1>4, <1>5, <1>6, <1>7, <1>8 DEF Next

-----------------------------------------------------------------------------
(* What the pump at the end of a step achieves. *)

FiniteTickets == IsFiniteSet(DOMAIN tickets)

\* A step pumps ts, in which those run that ran before it.
Pumps(ts, ord, rs, caps, calls) ==
    /\ IsTable(ts) /\ IsFiniteSet(DOMAIN ts) /\ IsOrder(ord, DOMAIN ts) /\ IsCapacities(caps)
    /\ PumpInto(ts, ord, rs, caps, calls)
    /\ \A id \in DOMAIN ts :
        ts[id].state = "running" <=> id \in DOMAIN tickets /\ tickets[id].state = "running"

\* The tickets after the pump are those of ts, some of them now running.
LEMMA PumpsKeep ==
    ASSUME NEW ts, NEW ord, NEW rs, NEW caps, NEW calls, Pumps(ts, ord, rs, caps, calls)
    PROVE  /\ DOMAIN tickets' = DOMAIN ts /\ DOMAIN ts \subseteq ReqIds
           /\ ahead' = ord /\ reservations' = rs /\ lane_capacity' = caps
           /\ \A id \in DOMAIN ts :
                /\ tickets'[id].lane = ts[id].lane
                /\ tickets'[id].priority = ts[id].priority
                /\ tickets'[id].front = ts[id].front
                /\ tickets'[id].state = "waiting" => ts[id].state = "waiting"
                /\ ts[id].state = "running" => tickets'[id].state = "running"
  BY PumpType DEF Pumps, PumpInto, IsTable

LEMMA DepartsPumps ==
    ASSUME TypeOK, FiniteTickets, NEW S, NEW rs, Departs(S, rs)
    PROVE  /\ Pumps(Keep(tickets, S), {p \in ahead : p[1] \in S /\ p[2] \in S},
                    rs, lane_capacity, call)
           /\ DOMAIN Keep(tickets, S) = S
<1>1. S \in SUBSET DOMAIN tickets
  BY DEF Departs
<1>2. IsTable(Keep(tickets, S)) /\ DOMAIN Keep(tickets, S) = S
  BY <1>1, TypeParts, KeepType
<1>3. IsFiniteSet(S)
  BY <1>1, FS_Subset DEF FiniteTickets
<1>4. IsOrder({p \in ahead : p[1] \in S /\ p[2] \in S}, S)
  BY <1>1, TypeParts, OrderRestricted
<1>. QED  BY <1>1, <1>2, <1>3, <1>4, TypeParts DEF Departs, Retain, Pumps, Keep

LEMMA ArrivesPumps ==
    ASSUME TypeOK, FiniteTickets, NEW id, NEW t, NEW rs, NEW n, NEW calls,
           Arrives(id, t, rs, n, calls)
    PROVE  /\ Pumps(With(id, t), Inserted(id, t), rs,
                    [lane_capacity EXCEPT ![t.lane] = n], calls)
           /\ DOMAIN With(id, t) = DOMAIN tickets \cup {id}
<1>1. DOMAIN With(id, t) = DOMAIN tickets \cup {id}
  BY DEF With
<1>2. IsTable(With(id, t))
  BY TypeParts DEF IsTable, With, Arrives
<1>3. IsFiniteSet(DOMAIN With(id, t))
  BY <1>1, FS_AddElement DEF FiniteTickets
<1>4. IsOrder(Inserted(id, t), DOMAIN With(id, t))
  <2> DEFINE behind == JoinsAhead(t.lane, t.front)
  <2>1. /\ behind \in SUBSET DOMAIN tickets
        /\ \A a, b \in DOMAIN tickets : a \in behind /\ <<a, b>> \in ahead => b \in behind
        /\ IsOrder(ahead, DOMAIN tickets)
    BY TypeParts, JoinsAheadClosed
  <2>2. id \notin DOMAIN tickets
    BY DEF Arrives
  <2>3. Inserted(id, t) = ahead \cup ((DOMAIN tickets \ behind) \X {id}) \cup ({id} \X behind)
    BY DEF Inserted
  <2>. HIDE DEF behind
  <2>4. IsOrder(ahead \cup ((DOMAIN tickets \ behind) \X {id}) \cup ({id} \X behind),
                DOMAIN tickets \cup {id})
    BY <2>1, <2>2, OrderInserted
  <2>. QED  BY <1>1, <2>3, <2>4
<1>5. IsCapacities([lane_capacity EXCEPT ![t.lane] = n])
  BY TypeParts DEF IsCapacities, Arrives
<1>6. \A i \in DOMAIN With(id, t) :
        With(id, t)[i].state = "running" <=> i \in DOMAIN tickets /\ tickets[i].state = "running"
  BY DEF With, Arrives
<1>. QED  BY <1>1, <1>2, <1>3, <1>4, <1>5, <1>6 DEF Pumps, Arrives

LEMMA FiniteStep == TypeOK /\ FiniteTickets /\ [Next]_vars => FiniteTickets'
<1> SUFFICES ASSUME TypeOK, FiniteTickets, [Next]_vars PROVE FiniteTickets'
  OBVIOUS
<1>1. ASSUME NEW ts, NEW ord, NEW rs, NEW caps, NEW calls, Pumps(ts, ord, rs, caps, calls)
      PROVE  FiniteTickets'
  BY <1>1, PumpType DEF Pumps, PumpInto, FiniteTickets
<1>2. CASE Quiet
  BY <1>2 DEF Quiet, FiniteTickets
<1>3. ASSUME NEW S, NEW rs, Departs(S, rs) PROVE FiniteTickets'
  BY <1>1, <1>3, DepartsPumps
<1>4. ASSUME NEW id, NEW t, NEW rs, NEW n, NEW calls, Arrives(id, t, rs, n, calls)
      PROVE  FiniteTickets'
  <2>1. Pumps(With(id, t), Inserted(id, t), rs, [lane_capacity EXCEPT ![t.lane] = n], calls)
    BY <1>4, ArrivesPumps
  <2>. QED  BY <1>1, <2>1
<1>. QED  BY <1>2, <1>3, <1>4, StepShape

\* A lane is clear for background work unless pump finds it busy.
LEMMA ClearUnlessBusy ==
    ASSUME NEW ts, NEW ord, NEW rs, NEW caps, NEW calls, NEW lane \in Lanes,
           Pumps(ts, ord, rs, caps, calls)
    PROVE  LaneIsClear(lane)' <=> ~lane_busy_for_background(ts, rs, lane)
<1>1. /\ DOMAIN tickets' = DOMAIN ts /\ reservations' = rs
      /\ \A id \in DOMAIN ts : /\ tickets'[id].lane = ts[id].lane
                               /\ tickets'[id].priority = ts[id].priority
                               /\ ts[id].priority \in Priority
  BY PumpType DEF Pumps, PumpInto, IsTable, Ticket
<1>. QED  BY <1>1 DEF LaneIsClear, lane_busy_for_background, Priority

LEMMA PumpsServe ==
    ASSUME NEW ts, NEW ord, NEW rs, NEW caps, NEW calls, NEW lane \in Lanes,
           Pumps(ts, ord, rs, caps, calls)
    PROVE  /\ running_by_lane(ts, lane) \subseteq running_by_lane(tickets', lane)
           /\ running_by_lane(tickets', lane) \ running_by_lane(ts, lane) \subseteq Eligible(ts, rs, lane)
           /\ \A id \in running_by_lane(tickets', lane) \ running_by_lane(ts, lane),
                 other \in Eligible(ts, rs, lane) :
                <<other, id>> \in ahead' => other \in running_by_lane(tickets', lane)
           /\ \/ running_by_lane(tickets', lane) = running_by_lane(ts, lane)
              \/ Cardinality(running_by_lane(tickets', lane)) <= lane_capacity'[lane]
           /\ \/ Eligible(ts, rs, lane) \subseteq running_by_lane(tickets', lane)
              \/ Cardinality(running_by_lane(tickets', lane)) >= lane_capacity'[lane]
  BY PumpServes DEF Pumps, PumpInto

\* Who waits after the pump was not eligible, or found the lane full.
LEMMA PumpsConserve ==
    ASSUME NEW ts, NEW ord, NEW rs, NEW caps, NEW calls, Pumps(ts, ord, rs, caps, calls)
    PROVE  WorkConserving'
<1>1. ASSUME NEW id \in DOMAIN tickets', tickets'[id].state = "waiting",
             NEW lane, lane = tickets'[id].lane
      PROVE  \/ Cardinality(running_by_lane(tickets', lane)) >= lane_capacity'[lane]
             \/ tickets'[id].priority = "background" /\ ~LaneIsClear(lane)'
  <2>1. /\ id \in DOMAIN ts /\ lane = ts[id].lane /\ lane \in Lanes
        /\ tickets'[id].priority = ts[id].priority /\ ts[id].state = "waiting"
    BY <1>1, PumpType DEF Pumps, PumpInto, IsTable, Ticket
  <2>2. CASE id \in Eligible(ts, rs, lane)
    <3>1. id \notin running_by_lane(tickets', lane)
      BY <1>1 DEF running_by_lane
    <3>. QED  BY <2>1, <2>2, <3>1, PumpsServe
  <2>3. CASE id \notin Eligible(ts, rs, lane)
    <3>1. ts[id].priority = "background" /\ lane_busy_for_background(ts, rs, lane)
      BY <2>1, <2>3 DEF Eligible
    <3>. QED  BY <2>1, <3>1, ClearUnlessBusy
  <2>. QED  BY <2>2, <2>3
<1>. QED  BY <1>1 DEF WorkConserving, LaneIsClear, running_by_lane

LEMMA PumpsAdmit ==
    ASSUME NEW ts, NEW ord, NEW rs, NEW caps, NEW calls, Pumps(ts, ord, rs, caps, calls),
           NEW id \in ReqIds, NEW lane \in Lanes, AdmittedNow(id), tickets'[id].lane = lane
    PROVE  /\ Cardinality(running_by_lane(tickets', lane)) <= lane_capacity'[lane]
           /\ tickets'[id].priority = "background" => LaneIsClear(lane)'
           /\ \A other \in ReqIds :
                /\ <<other, id>> \in ahead'
                /\ tickets'[other].lane = lane /\ tickets'[other].state = "waiting"
                => tickets'[other].priority = "background" /\ ~LaneIsClear(lane)'
<1>1. /\ DOMAIN tickets' = DOMAIN ts
      /\ \A i \in DOMAIN ts : /\ tickets'[i].lane = ts[i].lane
                              /\ tickets'[i].priority = ts[i].priority
                              /\ tickets'[i].state = "waiting" => ts[i].state = "waiting"
  BY PumpType DEF Pumps, PumpInto
<1>2. id \in running_by_lane(tickets', lane) \ running_by_lane(ts, lane)
  BY <1>1 DEF AdmittedNow, running_by_lane, Pumps
<1>3. Cardinality(running_by_lane(tickets', lane)) <= lane_capacity'[lane]
  BY <1>2, PumpsServe
<1>4. id \in Eligible(ts, rs, lane)
  BY <1>2, PumpsServe
<1>5. tickets'[id].priority = "background" => LaneIsClear(lane)'
  BY <1>1, <1>4, ClearUnlessBusy DEF Eligible
<1>6. ASSUME NEW other \in ReqIds, <<other, id>> \in ahead',
             tickets'[other].lane = lane, tickets'[other].state = "waiting"
      PROVE  tickets'[other].priority = "background" /\ ~LaneIsClear(lane)'
  <2>1. other \in DOMAIN ts
    BY <1>6 DEF Pumps, PumpInto, IsOrder
  <2>2. other \notin running_by_lane(tickets', lane)
    BY <1>6 DEF running_by_lane
  <2>3. other \notin Eligible(ts, rs, lane)
    BY <1>2, <1>6, <2>2, PumpsServe
  <2>4. ts[other].priority = "background" /\ lane_busy_for_background(ts, rs, lane)
    BY <1>1, <1>6, <2>1, <2>3 DEF Eligible
  <2>. QED  BY <1>1, <2>1, <2>4, ClearUnlessBusy
<1>. QED  BY <1>3, <1>5, <1>6

-----------------------------------------------------------------------------
(* The theorems. *)

Steady == TypeOK /\ FiniteTickets

LEMMA SteadyAlways == Spec => []Steady
<1>1. Init => Steady
  <2>1. Init => FiniteTickets
    BY FS_EmptySet DEF Init, NoEntries, FiniteTickets
  <2>. QED  BY <2>1, TypeInit DEF Steady
<1>2. Steady /\ [Next]_vars => Steady'
  BY TypeStep, FiniteStep DEF Steady
<1>. QED  BY <1>1, <1>2, PTL DEF Spec

\* Every step of the queue but the quiet ones ends with a pump.
LEMMA QuietOrPumps ==
    ASSUME Steady, [Next]_vars
    PROVE  Quiet \/ \E ts, ord, rs, caps, calls : Pumps(ts, ord, rs, caps, calls)
<1>1. ASSUME NEW S, NEW rs, Departs(S, rs)
      PROVE  \E ts, ord, r, caps, calls : Pumps(ts, ord, r, caps, calls)
  BY <1>1, DepartsPumps DEF Steady
<1>2. ASSUME NEW id, NEW t, NEW rs, NEW n, NEW calls, Arrives(id, t, rs, n, calls)
      PROVE  \E ts, ord, r, caps, cs : Pumps(ts, ord, r, caps, cs)
  <2>1. Pumps(With(id, t), Inserted(id, t), rs, [lane_capacity EXCEPT ![t.lane] = n], calls)
    BY <1>2, ArrivesPumps DEF Steady
  <2>. QED  BY <2>1
<1>. QED  BY <1>1, <1>2, StepShape DEF Steady

\* A quiet step leaves every lane as it was.
LEMMA QuietLanes ==
    ASSUME Quiet
    PROVE  /\ \A lane : running_by_lane(tickets', lane) = running_by_lane(tickets, lane)
           /\ \A lane : LaneIsClear(lane)' <=> LaneIsClear(lane)
           /\ \A id \in DOMAIN tickets : /\ tickets'[id].lane = tickets[id].lane
                                         /\ tickets'[id].state = tickets[id].state
                                         /\ tickets'[id].priority = tickets[id].priority
<1>1. \A id \in DOMAIN tickets : /\ tickets'[id].lane = tickets[id].lane
                                 /\ tickets'[id].state = tickets[id].state
                                 /\ tickets'[id].priority = tickets[id].priority
  BY DEF Quiet, Entry
<1>. QED  BY <1>1 DEF Quiet, running_by_lane, LaneIsClear

\* No slot is left idle while someone waits who may have it.
THEOREM NoIdleSlot == Spec => []WorkConserving
<1>1. Init => WorkConserving
  BY DEF Init, NoEntries, WorkConserving
<1>2. Steady /\ WorkConserving /\ [Next]_vars => WorkConserving'
  <2> SUFFICES ASSUME Steady, WorkConserving, [Next]_vars PROVE WorkConserving'
    OBVIOUS
  <2>1. CASE Quiet
    BY <2>1, QuietLanes DEF WorkConserving, Quiet, LaneIsClear
  <2>. QED  BY <2>1, QuietOrPumps, PumpsConserve
<1>. QED  BY <1>1, <1>2, SteadyAlways, PTL DEF Spec

\* A slot is given only on a lane that then runs no more than its capacity, and
\* to background work only on a lane without foreground work.
THEOREM AdmitsWithinCapacity == Spec => AdmissionSound
<1> DEFINE Sound == \A id \in ReqIds, lane \in Lanes :
        AdmittedNow(id) /\ tickets'[id].lane = lane =>
            /\ Cardinality(running_by_lane(tickets', lane)) <= lane_capacity'[lane]
            /\ tickets'[id].priority = "background" => LaneIsClear(lane)'
<1>1. Steady /\ [Next]_vars => Sound
  <2> SUFFICES ASSUME Steady, [Next]_vars PROVE Sound
    OBVIOUS
  <2>1. CASE Quiet
    BY <2>1, QuietLanes DEF Quiet, AdmittedNow
  <2>. QED  BY <2>1, QuietOrPumps, PumpsAdmit
<1>. QED  BY <1>1, SteadyAlways, PTL DEF Spec, AdmissionSound

\* Nobody is passed over but background work that has to give way.
THEOREM NobodyPassedOver == Spec => NoOvertaking
<1> DEFINE Fair == \A id, other \in ReqIds, lane \in Lanes :
        /\ AdmittedNow(id) /\ tickets'[id].lane = lane
        /\ <<other, id>> \in ahead'
        /\ tickets'[other].lane = lane /\ tickets'[other].state = "waiting"
        => tickets'[other].priority = "background" /\ ~LaneIsClear(lane)'
<1>1. Steady /\ [Next]_vars => Fair
  <2> SUFFICES ASSUME Steady, [Next]_vars PROVE Fair
    OBVIOUS
  <2>1. CASE Quiet
    BY <2>1, QuietLanes DEF Quiet, AdmittedNow
  <2>. QED  BY <2>1, QuietOrPumps, PumpsAdmit
<1>. QED  BY <1>1, SteadyAlways, PTL DEF Spec, NoOvertaking


\* On every lane the waiters that came back stand before the ordinary ones.
FrontsFirst ==
    \A a, b \in DOMAIN tickets :
        /\ tickets[a].lane = tickets[b].lane
        /\ tickets[a].state = "waiting" /\ tickets[b].state = "waiting"
        /\ tickets[a].front /\ ~tickets[b].front
        => <<a, b>> \in ahead

\* What a step that pumps does to the order.
LEMMA DepartsOrder ==
    ASSUME Steady, NEW S, NEW rs, Departs(S, rs)
    PROVE  /\ DOMAIN tickets' = S /\ S \subseteq DOMAIN tickets
           /\ ahead' = {p \in ahead : p[1] \in S /\ p[2] \in S}
           /\ \A id \in S : /\ tickets'[id].lane = tickets[id].lane
                            /\ tickets'[id].front = tickets[id].front
                            /\ tickets'[id].state = "waiting" => tickets[id].state = "waiting"
<1> DEFINE ts == Keep(tickets, S)
           ord == {p \in ahead : p[1] \in S /\ p[2] \in S}
<1>1. Pumps(ts, ord, rs, lane_capacity, call) /\ DOMAIN ts = S
  BY DepartsPumps DEF Steady
<1>2. \A id \in S : ts[id] = tickets[id]
  BY DEF Keep
<1>3. S \subseteq DOMAIN tickets
  BY DEF Departs
<1>. HIDE DEF ts, ord
<1>4. DOMAIN tickets' = S /\ ahead' = ord
  BY <1>1, PumpsKeep
<1>5. \A id \in S : /\ tickets'[id].lane = tickets[id].lane
                    /\ tickets'[id].front = tickets[id].front
                    /\ tickets'[id].state = "waiting" => tickets[id].state = "waiting"
  BY <1>1, <1>2, PumpsKeep
<1>. QED  BY <1>3, <1>4, <1>5 DEF ord

LEMMA ArrivesOrder ==
    ASSUME Steady, NEW id, NEW t, NEW rs, NEW n, NEW calls, Arrives(id, t, rs, n, calls)
    PROVE  /\ DOMAIN tickets' = DOMAIN tickets \cup {id} /\ id \notin DOMAIN tickets
           /\ ahead' = Inserted(id, t)
           /\ tickets'[id].lane = t.lane /\ tickets'[id].front = t.front /\ t.front \in BOOLEAN
           /\ \A a \in DOMAIN tickets :
                /\ tickets'[a].lane = tickets[a].lane
                /\ tickets'[a].front = tickets[a].front
                /\ tickets'[a].state = "waiting" => tickets[a].state = "waiting"
<1> DEFINE ts == With(id, t)
           caps == [lane_capacity EXCEPT ![t.lane] = n]
<1>1. Pumps(ts, Inserted(id, t), rs, caps, calls) /\ DOMAIN ts = DOMAIN tickets \cup {id}
  BY ArrivesPumps DEF Steady
<1>2. id \notin DOMAIN tickets /\ t.front \in BOOLEAN
  BY DEF Arrives, Ticket
<1>3. ts[id] = t /\ \A a \in DOMAIN tickets : ts[a] = tickets[a]
  BY <1>2 DEF With
<1>. HIDE DEF ts, caps
<1>4. DOMAIN tickets' = DOMAIN ts /\ ahead' = Inserted(id, t)
  BY <1>1, PumpsKeep
<1>5. \A a \in DOMAIN ts : /\ tickets'[a].lane = ts[a].lane
                           /\ tickets'[a].front = ts[a].front
                           /\ tickets'[a].state = "waiting" => ts[a].state = "waiting"
  BY <1>1, PumpsKeep
<1>. QED  BY <1>1, <1>2, <1>3, <1>4, <1>5

LEMMA FrontsFirstStep == Steady /\ FrontsFirst /\ [Next]_vars => FrontsFirst'
<1> SUFFICES ASSUME Steady, FrontsFirst, [Next]_vars PROVE FrontsFirst'
  OBVIOUS
<1>1. CASE Quiet
  BY <1>1 DEF Quiet, Entry, FrontsFirst
<1>2. ASSUME NEW S, NEW rs, Departs(S, rs) PROVE FrontsFirst'
  BY <1>2, DepartsOrder DEF FrontsFirst
<1>3. ASSUME NEW id, NEW t, NEW rs, NEW n, NEW calls, Arrives(id, t, rs, n, calls)
      PROVE  FrontsFirst'
  <2> SUFFICES ASSUME NEW a \in DOMAIN tickets', NEW b \in DOMAIN tickets',
                      tickets'[a].lane = tickets'[b].lane,
                      tickets'[a].state = "waiting", tickets'[b].state = "waiting",
                      tickets'[a].front, ~tickets'[b].front
               PROVE  <<a, b>> \in ahead'
    BY DEF FrontsFirst
  <2>1. CASE a \in DOMAIN tickets /\ b \in DOMAIN tickets
    <3>1. /\ tickets[a].lane = tickets[b].lane
          /\ tickets[a].state = "waiting" /\ tickets[b].state = "waiting"
          /\ tickets[a].front /\ ~tickets[b].front
      BY <1>3, <2>1, ArrivesOrder
    <3>2. <<a, b>> \in ahead
      BY <2>1, <3>1 DEF FrontsFirst
    <3>3. ahead' = Inserted(id, t)
      BY <1>3 DEF Arrives, PumpInto
    <3>. QED  BY <3>2, <3>3 DEF Inserted
  <2>2. CASE a = id /\ b \in DOMAIN tickets
    <3>1. /\ tickets[b].lane = t.lane /\ tickets[b].state = "waiting" /\ ~tickets[b].front
          /\ t.front
      BY <1>3, <2>2, ArrivesOrder
    <3>2. b \in JoinsAhead(t.lane, t.front)
      BY <2>2, <3>1 DEF JoinsAhead
    <3>. QED  BY <1>3, <2>2, <3>2, ArrivesOrder DEF Inserted
  <2>3. CASE a \in DOMAIN tickets /\ b = id
    <3>1. JoinsAhead(t.lane, t.front) = {}
      BY <1>3, <2>3, ArrivesOrder DEF JoinsAhead
    <3>. QED  BY <1>3, <2>3, <3>1, ArrivesOrder DEF Inserted
  <2>4. ~(a = id /\ b = id)
    OBVIOUS
  <2>5. DOMAIN tickets' = DOMAIN tickets \cup {id}
    BY <1>3, ArrivesOrder
  <2>. QED  BY <2>1, <2>2, <2>3, <2>4, <2>5
<1>. QED  BY <1>1, <1>2, <1>3, StepShape DEF Steady

\* Tickets keep their order, and a new one joins behind those of its lane that
\* it may not pass.
THEOREM OrderKept == Spec => ArrivalOrder
<1> DEFINE Fifo ==
        /\ \A a, b \in DOMAIN tickets \cap DOMAIN tickets' :
            <<a, b>> \in ahead => <<a, b>> \in ahead'
        /\ \A new \in DOMAIN tickets' \ DOMAIN tickets, a \in DOMAIN tickets :
            /\ tickets[a].lane = tickets'[new].lane
            /\ tickets[a].state = "waiting"
            /\ tickets'[new].front => tickets[a].front
            => <<a, new>> \in ahead'
<1>1. Init => FrontsFirst
  BY DEF Init, NoEntries, FrontsFirst
<1>2. Steady /\ FrontsFirst /\ [Next]_vars => Fifo
  <2> SUFFICES ASSUME Steady, FrontsFirst, [Next]_vars PROVE Fifo
    OBVIOUS
  <2>1. CASE Quiet
    BY <2>1 DEF Quiet
  <2>2. ASSUME NEW S, NEW rs, Departs(S, rs) PROVE Fifo
    BY <2>2, DepartsOrder
  <2>3. ASSUME NEW id, NEW t, NEW rs, NEW n, NEW calls, Arrives(id, t, rs, n, calls) PROVE Fifo
    <3>1. ASSUME NEW a \in DOMAIN tickets, tickets[a].lane = t.lane,
                 tickets[a].state = "waiting", t.front => tickets[a].front
          PROVE  a \notin JoinsAhead(t.lane, t.front)
      <4> SUFFICES ASSUME t.front, NEW o \in DOMAIN tickets,
                          tickets[o].lane = t.lane, tickets[o].state = "waiting",
                          ~tickets[o].front, a = o \/ <<o, a>> \in ahead
                   PROVE  FALSE
        BY DEF JoinsAhead
      <4>1. a # o /\ <<a, o>> \in ahead
        BY <3>1 DEF FrontsFirst
      <4>. QED  BY <4>1, TypeParts DEF Steady, IsOrder
    <3>2. \A a, b \in DOMAIN tickets : <<a, b>> \in ahead => <<a, b>> \in Inserted(id, t)
      BY DEF Inserted
    <3>3. ASSUME NEW a \in DOMAIN tickets, a \notin JoinsAhead(t.lane, t.front)
          PROVE  <<a, id>> \in Inserted(id, t)
      BY <3>3 DEF Inserted
    <3>4. /\ DOMAIN tickets' = DOMAIN tickets \cup {id} /\ id \notin DOMAIN tickets
          /\ ahead' = Inserted(id, t)
          /\ tickets'[id].lane = t.lane /\ tickets'[id].front = t.front
      BY <2>3, ArrivesOrder
    <3>. QED  BY <3>1, <3>2, <3>3, <3>4
  <2>. QED  BY <2>1, <2>2, <2>3, StepShape DEF Steady
<1>. QED  BY <1>1, <1>2, FrontsFirstStep, SteadyAlways, PTL DEF Spec, ArrivalOrder

-----------------------------------------------------------------------------
(* The queue implements LaneSlots. *)

LEMMA SameSize == \A S : Promised!Cardinality(S) = Cardinality(S)
  BY Zenon DEF Promised!Cardinality, Cardinality

\* The pump serves the lanes as LaneSlots asks.
LEMMA PumpsPromised ==
    ASSUME Steady, NEW ts, NEW ord, NEW rs, NEW caps, NEW calls, Pumps(ts, ord, rs, caps, calls)
    PROVE  Promised!Serve
<1> DEFINE running == {id \in DOMAIN tickets : tickets[id].state = "running"}
           runs == {id \in DOMAIN tickets' : tickets'[id].state = "running"}
           on(lane) == {id \in DOMAIN tickets' : tickets'[id].lane = lane}
<1>1. /\ DOMAIN tickets' = DOMAIN ts /\ lane_capacity' = caps /\ reservations' = rs
      /\ \A id \in DOMAIN ts :
            /\ tickets'[id].lane = ts[id].lane /\ tickets'[id].priority = ts[id].priority
            /\ ts[id].state = "running" => tickets'[id].state = "running"
  BY PumpsKeep
<1>2. \A id \in DOMAIN ts :
        /\ ts[id].state = "running" <=> id \in running
        /\ ts[id].state \in TicketState /\ ts[id].priority \in Priority
  BY DEF Pumps, IsTable, Ticket
<1>3. runs \subseteq DOMAIN tickets' /\ running \cap DOMAIN tickets' \subseteq runs
  BY <1>1, <1>2
<1>4. ASSUME NEW lane \in Lanes
      PROVE  /\ running \cap on(lane) = running_by_lane(ts, lane)
             /\ runs \cap on(lane) = running_by_lane(tickets', lane)
  BY <1>1, <1>2 DEF running_by_lane
<1>5. ASSUME NEW lane \in Lanes, NEW id \in on(lane) \ (running \cap on(lane))
      PROVE  id \in Eligible(ts, rs, lane) <=> Promised!MayHave(id)'
  <2>1. id \in DOMAIN ts /\ ts[id].lane = lane /\ ts[id].state = "waiting"
    BY <1>1, <1>2, <1>5 DEF TicketState
  <2>2. id \in Eligible(ts, rs, lane)
          <=> (ts[id].priority = "background" => ~lane_busy_for_background(ts, rs, lane))
    BY <2>1 DEF Eligible
  <2>3. ~lane_busy_for_background(ts, rs, lane)
          <=> /\ \A r \in DOMAIN reservations' : reservations'[r].lane # lane
              /\ \A o \in on(lane) : tickets'[o].priority = "background"
    BY <1>1, <1>2 DEF lane_busy_for_background, Priority
  <2>4. /\ id \in DOMAIN tickets' /\ tickets'[id].lane = lane
        /\ tickets'[id].priority = ts[id].priority
    BY <1>1, <2>1
  <2>5. Promised!MayHave(id)' <=>
          (tickets'[id].priority = "background" =>
             /\ lane \notin {reservations'[r].lane : r \in DOMAIN reservations'}
             /\ \A o \in on(lane) : tickets'[o].priority = "background")
    BY <2>4 DEF Promised!MayHave, Promised!On
  <2>. QED  BY <2>2, <2>3, <2>4, <2>5
<1>6. \A lane \in Lanes :
        LET had == running \cap on(lane)
            has == runs \cap on(lane)
            may == {id \in on(lane) \ had : Promised!MayHave(id)'}
        IN /\ has \ had \subseteq may
           /\ has = had \/ Cardinality(has) <= lane_capacity'[lane]
           /\ may \subseteq has \/ Cardinality(has) >= lane_capacity'[lane]
  <2> SUFFICES ASSUME NEW lane \in Lanes
               PROVE  LET had == running \cap on(lane)
                          has == runs \cap on(lane)
                          may == {id \in on(lane) \ had : Promised!MayHave(id)'}
                      IN /\ has \ had \subseteq may
                         /\ has = had \/ Cardinality(has) <= lane_capacity'[lane]
                         /\ may \subseteq has \/ Cardinality(has) >= lane_capacity'[lane]
    OBVIOUS
  <2> DEFINE may == {id \in on(lane) \ (running \cap on(lane)) : Promised!MayHave(id)'}
  <2>1. may = Eligible(ts, rs, lane)
    <3>1. Eligible(ts, rs, lane) \subseteq on(lane) \ (running \cap on(lane))
      BY <1>1, <1>2 DEF Eligible
    <3>. QED  BY <1>5, <3>1
  <2>. HIDE DEF may, running, runs, on
  <2>. QED  BY <1>4, <2>1, PumpsServe DEF may
<1>7. \A lane : Promised!On(lane)' = on(lane)
  BY DEF Promised!On
<1>. HIDE DEF on
<1>. QED  BY <1>3, <1>6, <1>7, SameSize DEF Promised!Serve

AsksOf(ts) == [id \in DOMAIN ts |-> [lane |-> ts[id].lane, priority |-> ts[id].priority]]

LEMMA QuietPromised ==
    ASSUME Steady, Quiet
    PROVE  UNCHANGED <<AsksOf(tickets), {id \in DOMAIN tickets : tickets[id].state = "running"},
                       {reservations[id].lane : id \in DOMAIN reservations}, lane_capacity>>
<1>1. \A id \in DOMAIN tickets : /\ tickets'[id].lane = tickets[id].lane
                                 /\ tickets'[id].state = tickets[id].state
                                 /\ tickets'[id].priority = tickets[id].priority
  BY QuietLanes
<1>2. AsksOf(tickets') = AsksOf(tickets)
  BY <1>1 DEF Quiet, AsksOf
<1>3. {id \in DOMAIN tickets' : tickets'[id].state = "running"}
        = {id \in DOMAIN tickets : tickets[id].state = "running"}
  BY <1>1 DEF Quiet
<1>4. {reservations'[id].lane : id \in DOMAIN reservations'}
        = {reservations[id].lane : id \in DOMAIN reservations}
  BY DEF Quiet
<1>. QED  BY <1>2, <1>3, <1>4 DEF Quiet, AsksOf

LEMMA DepartsPromised ==
    ASSUME Steady, NEW S, NEW rs, Departs(S, rs)
    PROVE  Promised!Leave
<1>1. Pumps(Keep(tickets, S), {p \in ahead : p[1] \in S /\ p[2] \in S}, rs, lane_capacity, call)
  BY DepartsPumps DEF Steady
<1>2. DOMAIN tickets' = S /\ S \subseteq DOMAIN tickets
  BY DepartsOrder
<1>3. lane_capacity' = lane_capacity /\ reservations' = rs
  BY <1>1, PumpsKeep
<1>4. \A id \in S : /\ tickets'[id].lane = tickets[id].lane
                    /\ tickets'[id].priority = tickets[id].priority
  <2>1. \A id \in S : Keep(tickets, S)[id] = tickets[id]
    BY DEF Keep
  <2>2. DOMAIN Keep(tickets, S) = S
    BY DEF Keep
  <2>. QED  BY <1>1, <2>1, <2>2, PumpsKeep
<1>5. AsksOf(tickets') = [id \in DOMAIN AsksOf(tickets') |-> AsksOf(tickets)[id]]
  BY <1>2, <1>4 DEF AsksOf
<1>6. DOMAIN AsksOf(tickets') \subseteq DOMAIN AsksOf(tickets)
  BY <1>2 DEF AsksOf
<1>7. {reservations'[r].lane : r \in DOMAIN reservations'}
        \subseteq {reservations[r].lane : r \in DOMAIN reservations}
            \cup {AsksOf(tickets)[id].lane : id \in DOMAIN AsksOf(tickets) \ DOMAIN AsksOf(tickets')}
  <2> SUFFICES ASSUME NEW r \in DOMAIN rs
               PROVE  \/ rs[r].lane \in {reservations[o].lane : o \in DOMAIN reservations}
                      \/ \E id \in DOMAIN AsksOf(tickets) \ DOMAIN AsksOf(tickets') :
                            rs[r].lane = AsksOf(tickets)[id].lane
    BY <1>3
  <2>1. ReservesOnly(rs, {tickets[id].lane : id \in DOMAIN tickets \ S})
    BY DEF Departs
  <2>2. CASE r \in DOMAIN reservations /\ rs[r].lane = reservations[r].lane
    BY <2>2
  <2>3. CASE rs[r].lane \in {tickets[id].lane : id \in DOMAIN tickets \ S}
    BY <1>2, <2>3 DEF AsksOf
  <2>. QED  BY <2>1, <2>2, <2>3 DEF ReservesOnly
<1>8. Promised!Serve
  BY <1>1, PumpsPromised
<1>. QED  BY <1>3, <1>5, <1>6, <1>7, <1>8 DEF Promised!Leave, AsksOf

LEMMA ArrivesPromised ==
    ASSUME Steady, NEW id, NEW t, NEW rs, NEW n, NEW calls, Arrives(id, t, rs, n, calls)
    PROVE  /\ id \in ReqIds /\ t.lane \in Lanes
           /\ Promised!Join(id, t.lane)
<1> DEFINE ts == With(id, t)
           caps == [lane_capacity EXCEPT ![t.lane] = n]
<1>1. Pumps(ts, Inserted(id, t), rs, caps, calls)
  BY ArrivesPumps DEF Steady
<1>2. /\ id \in ReqIds \ DOMAIN tickets /\ t \in Ticket /\ n \in Nat \ {0}
      /\ t.lane \in Lanes /\ t.priority \in Priority
  BY DEF Arrives, Ticket
<1>3. DOMAIN ts = DOMAIN tickets \cup {id} /\ ts[id] = t
      /\ \A a \in DOMAIN tickets : ts[a] = tickets[a]
  BY <1>2 DEF With
<1>. HIDE DEF ts
<1>4. /\ DOMAIN tickets' = DOMAIN ts /\ lane_capacity' = caps /\ reservations' = rs
      /\ \A a \in DOMAIN ts : /\ tickets'[a].lane = ts[a].lane
                              /\ tickets'[a].priority = ts[a].priority
  BY <1>1, PumpsKeep
<1>5. /\ id \notin DOMAIN AsksOf(tickets)
      /\ DOMAIN AsksOf(tickets') = DOMAIN AsksOf(tickets) \cup {id}
      /\ AsksOf(tickets')[id] \in [lane : Lanes, priority : {"foreground", "background"}]
      /\ AsksOf(tickets')[id].lane = t.lane
      /\ \A other \in DOMAIN AsksOf(tickets) : AsksOf(tickets')[other] = AsksOf(tickets)[other]
  BY <1>2, <1>3, <1>4 DEF AsksOf, Priority
<1>6. {reservations'[r].lane : r \in DOMAIN reservations'}
        \subseteq {reservations[r].lane : r \in DOMAIN reservations}
  BY <1>4 DEF Arrives, ReservesOnly
<1>7. /\ lane_capacity'[t.lane] \in Nat \ {0}
      /\ lane_capacity' = [lane_capacity EXCEPT ![t.lane] = lane_capacity'[t.lane]]
  BY <1>2, <1>4, TypeParts DEF Steady, IsCapacities
<1>8. Promised!Serve
  BY <1>1, PumpsPromised
<1>. QED  BY <1>2, <1>5, <1>6, <1>7, <1>8 DEF Promised!Join, Promised!Ask, AsksOf

\* Every step of the queue is a Join, a Leave or no step of LaneSlots: its
\* slots go to those who may have them, whatever happens to the requests.
THEOREM QueueServesSlots == Spec => ServesSlots
<1>1. Init => Promised!Init
  BY DEF Init, NoEntries, Promised!Init
<1>2. Steady /\ [Next]_vars => [Promised!Next]_(Promised!vars)
  <2> SUFFICES ASSUME Steady, [Next]_vars PROVE [Promised!Next]_(Promised!vars)
    OBVIOUS
  <2>1. CASE Quiet
    BY <2>1, QuietPromised DEF Promised!vars, AsksOf
  <2>2. ASSUME NEW S, NEW rs, Departs(S, rs) PROVE Promised!Next
    BY <2>2, DepartsPromised DEF Promised!Next
  <2>3. ASSUME NEW id, NEW t, NEW rs, NEW n, NEW calls, Arrives(id, t, rs, n, calls)
        PROVE  Promised!Next
    BY <2>3, ArrivesPromised DEF Promised!Next
  <2>. QED  BY <2>1, <2>2, <2>3, StepShape DEF Steady
<1>. QED  BY <1>1, <1>2, SteadyAlways, PTL DEF Spec, ServesSlots, Promised!Spec

-----------------------------------------------------------------------------
(* pump and the loop it stands for. *)

\* The k-th of a row is the one with k - 1 ahead of it, and there is one.
LEMMA RankIsPlace ==
    ASSUME NEW ord, NEW D, IsOrder(ord, D), IsFiniteSet(D)
    PROVE  /\ Cardinality(D) \in Nat
           /\ \A id \in D : Cardinality(Before(ord, D, id)) \in 0..(Cardinality(D) - 1)
           /\ \A k \in 0..(Cardinality(D) - 1) :
                \E id \in D : Cardinality(Before(ord, D, id)) = k
           /\ \A a, b \in D :
                Cardinality(Before(ord, D, a)) = Cardinality(Before(ord, D, b)) => a = b
<1> DEFINE rank(id) == Cardinality(Before(ord, D, id))
           first(n) == {id \in D : rank(id) < n}
<1>1. Cardinality(D) \in Nat
  BY FS_CardinalityType
<1>2. \A id \in D : rank(id) \in Nat
  BY FS_Subset, FS_CardinalityType DEF Before
<1>3. ASSUME NEW id \in D PROVE rank(id) <= Cardinality(D) - 1
  <2>1. Before(ord, D, id) \subseteq D \ {id}
    BY DEF Before, IsOrder
  <2>2. IsFiniteSet(D \ {id}) /\ Cardinality(D \ {id}) = Cardinality(D) - 1
    BY FS_RemoveElement
  <2>. QED  BY <2>1, <2>2, FS_Subset
<1>4. ASSUME NEW k \in 0..(Cardinality(D) - 1) PROVE \E id \in D : rank(id) = k
  <2>1. \A n \in Int : /\ IsFiniteSet(first(n))
                       /\ first(n) = {} \/ Cardinality(first(n)) <= n
                       /\ first(n) = D \/ Cardinality(first(n)) >= n
    <3> SUFFICES ASSUME NEW n \in Int
                 PROVE  /\ IsFiniteSet(first(n))
                        /\ first(n) = {} \/ Cardinality(first(n)) <= n
                        /\ first(n) = D \/ Cardinality(first(n)) >= n
      OBVIOUS
    <3> DEFINE A == first(n)
    <3>1. A \in SUBSET D /\ \A id \in D : id \in A <=> Cardinality(Before(ord, D, id)) < n
      OBVIOUS
    <3>. HIDE DEF A
    <3>2. D \in SUBSET D
      OBVIOUS
    <3>3. /\ IsFiniteSet(A)
          /\ A = {} \/ Cardinality(A) <= n
          /\ A = D \/ Cardinality(A) >= n
      BY <3>1, <3>2, FirstOnes
    <3>. QED  BY <3>3 DEF A
  <2>. HIDE DEF first
  <2>2. Cardinality(first(k)) <= k
    BY <2>1, <1>1, FS_EmptySet
  <2>3. Cardinality(first(k + 1)) >= k + 1
    BY <2>1, <1>1
  <2>4. first(k) # first(k + 1)
    BY <2>2, <2>3, <2>1, FS_CardinalityType
  <2>5. PICK id \in D : rank(id) < k + 1 /\ ~(rank(id) < k)
    <3>1. \E id \in D : ~(id \in first(k + 1) <=> id \in first(k))
      BY <2>4 DEF first
    <3>. QED  BY <3>1, <1>2 DEF first
  <2>. QED  BY <2>5, <1>2
<1>5. ASSUME NEW a \in D, NEW b \in D, rank(a) = rank(b) PROVE a = b
  <2>1. ~(<<a, b>> \in ord) /\ ~(<<b, a>> \in ord)
    BY <1>2, <1>5, RankGrows
  <2>. QED  BY <2>1 DEF IsOrder
<1>. QED  BY <1>1, <1>2, <1>3, <1>4, <1>5

\* So the loop looks at every ticket once, after those ahead of it.
LEMMA RowInOrder ==
    ASSUME NEW ord, NEW D, IsOrder(ord, D), IsFiniteSet(D)
    PROVE  /\ Cardinality(D) \in Nat
           /\ DOMAIN InOrder(D, ord) = 1..Cardinality(D)
           /\ Len(InOrder(D, ord)) = Cardinality(D)
           /\ \A i \in 1..Cardinality(D) :
                /\ InOrder(D, ord)[i] \in D
                /\ Cardinality(Before(ord, D, InOrder(D, ord)[i])) = i - 1
<1>1. Cardinality(D) \in Nat
  BY FS_CardinalityType
<1>2. InOrder(D, ord) = [i \in 1..Cardinality(D) |->
                            CHOOSE id \in D : Cardinality(Before(ord, D, id)) = i - 1]
  BY DEF InOrder, Before
<1>3. \A i \in 1..Cardinality(D) : \E id \in D : Cardinality(Before(ord, D, id)) = i - 1
  <2> SUFFICES ASSUME NEW i \in 1..Cardinality(D)
               PROVE  \E id \in D : Cardinality(Before(ord, D, id)) = i - 1
    OBVIOUS
  <2>1. i - 1 \in 0..(Cardinality(D) - 1)
    BY <1>1
  <2>. QED  BY <2>1, RankIsPlace
<1>4. \A i \in 1..Cardinality(D) :
        /\ InOrder(D, ord)[i] \in D
        /\ Cardinality(Before(ord, D, InOrder(D, ord)[i])) = i - 1
  <2> SUFFICES ASSUME NEW i \in 1..Cardinality(D)
               PROVE  /\ InOrder(D, ord)[i] \in D
                      /\ Cardinality(Before(ord, D, InOrder(D, ord)[i])) = i - 1
    OBVIOUS
  <2>1. InOrder(D, ord)[i] = CHOOSE id \in D : Cardinality(Before(ord, D, id)) = i - 1
    BY <1>2
  <2>2. \E id \in D : Cardinality(Before(ord, D, id)) = i - 1
    BY <1>3
  <2>. QED  BY <2>1, <2>2, Zenon
<1>5. InOrder(D, ord) \in [1..Cardinality(D) -> D]
  BY <1>2, <1>4
<1>6. InOrder(D, ord) \in Seq(D) /\ Len(InOrder(D, ord)) = Cardinality(D)
  BY <1>1, <1>5, SeqDef, LenProperties
<1>. QED  BY <1>1, <1>2, <1>4, <1>6

\* ts after the loop's first n rounds, if it admits whom pump admits.
RunTo(ts, ord, rs, caps, n) ==
    [id \in DOMAIN ts |->
        IF Cardinality(Before(ord, DOMAIN ts, id)) < n /\ Admits(ts, ord, rs, caps, id)
        THEN [ts[id] EXCEPT !.state = "running"] ELSE ts[id]]

LEMMA RunToType ==
    ASSUME NEW ts, NEW ord, NEW rs, NEW caps, NEW n, IsTable(ts)
    PROVE  /\ DOMAIN RunTo(ts, ord, rs, caps, n) = DOMAIN ts
           /\ \A id \in DOMAIN ts :
                /\ RunTo(ts, ord, rs, caps, n)[id].lane = ts[id].lane
                /\ RunTo(ts, ord, rs, caps, n)[id].priority = ts[id].priority
                /\ RunTo(ts, ord, rs, caps, n)[id].state =
                     IF /\ Cardinality(Before(ord, DOMAIN ts, id)) < n
                        /\ Admits(ts, ord, rs, caps, id)
                     THEN "running" ELSE ts[id].state
  BY DEF RunTo, IsTable, Ticket, TicketState

\* When the loop comes to id, it finds room exactly if pump admits id: those it
\* admitted before are the ones ahead of id that pump admits, which are either
\* all the eligible ones ahead of id or as many as the lane has room for.
LEMMA RoomFor ==
    ASSUME NEW ts, NEW ord, NEW rs, NEW caps, NEW id \in DOMAIN ts,
           IsTable(ts), IsFiniteSet(DOMAIN ts), IsOrder(ord, DOMAIN ts), IsCapacities(caps),
           id \in Eligible(ts, rs, ts[id].lane)
    PROVE  LET now == RunTo(ts, ord, rs, caps, Cardinality(Before(ord, DOMAIN ts, id)))
           IN Cardinality(running_by_lane(now, ts[id].lane)) < caps[ts[id].lane]
                <=> Admits(ts, ord, rs, caps, id)
<1> DEFINE lane == ts[id].lane
           D == DOMAIN ts
           now == RunTo(ts, ord, rs, caps, Cardinality(Before(ord, D, id)))
           had == running_by_lane(ts, lane)
           may == Eligible(ts, rs, lane)
           B == Before(ord, may, id)
           n == caps[lane] - Cardinality(had)
           A == {a \in B : Cardinality(Before(ord, B, a)) < n}
<1>1. /\ had \subseteq D /\ may \subseteq D /\ had \cap may = {} /\ B \subseteq may
      /\ IsFiniteSet(had) /\ IsFiniteSet(B) /\ Cardinality(had) \in Nat /\ Cardinality(B) \in Nat
      /\ IsFiniteSet(may)
  <2>1. had \subseteq D /\ may \subseteq D /\ had \cap may = {} /\ B \subseteq may
    BY DEF running_by_lane, Eligible, Before
  <2>2. B \subseteq D
    BY <2>1
  <2>3. IsFiniteSet(had) /\ IsFiniteSet(B) /\ IsFiniteSet(may)
    BY <2>1, <2>2, FS_Subset
  <2>. QED  BY <2>1, <2>3, FS_CardinalityType
<1>2. caps[lane] \in Nat /\ n \in Int
  BY <1>1 DEF IsCapacities, IsTable, Ticket
<1>3. \A a \in may : EligibleAhead(ts, ord, rs, a) = Before(ord, may, a) /\ ts[a].lane = lane
  BY DEF EligibleAhead, Before, Eligible
<1>4. \A a \in may : /\ Cardinality(Before(ord, may, a)) \in Nat
                     /\ Admits(ts, ord, rs, caps, a) <=> Cardinality(Before(ord, may, a)) < n
  <2> SUFFICES ASSUME NEW a \in may
               PROVE  /\ Cardinality(Before(ord, may, a)) \in Nat
                      /\ Admits(ts, ord, rs, caps, a) <=> Cardinality(Before(ord, may, a)) < n
    OBVIOUS
  <2>1. Cardinality(Before(ord, may, a)) \in Nat
    BY <1>1, FS_Subset, FS_CardinalityType DEF Before
  <2>. HIDE DEF may
  <2>2. Admits(ts, ord, rs, caps, a)
          <=> Cardinality(had) + Cardinality(Before(ord, may, a)) < caps[lane]
    BY <1>3 DEF Admits, may
  <2>. HIDE DEF had
  <2>. QED  BY <1>1, <1>2, <2>1, <2>2
<1>5. \A a \in B : Before(ord, B, a) = Before(ord, may, a)
  BY <1>1 DEF Before, IsOrder
<1>6. A = {a \in B : Admits(ts, ord, rs, caps, a)}
  BY <1>1, <1>4, <1>5
<1>7. running_by_lane(now, lane) = had \cup A
  <2>1. ASSUME NEW a \in D, a # id, ts[a].lane = lane, Admits(ts, ord, rs, caps, a)
        PROVE  Cardinality(Before(ord, D, a)) < Cardinality(Before(ord, D, id)) <=> a \in B
    <3>1. a \in may
      BY <2>1 DEF Admits
    <3>2. CASE <<a, id>> \in ord
      <4>1. /\ IsFiniteSet(Before(ord, D, a)) /\ IsFiniteSet(Before(ord, D, id))
            /\ Cardinality(Before(ord, D, a)) + 1 <= Cardinality(Before(ord, D, id))
        BY <3>2, RankGrows
      <4>2. a \in B
        BY <3>1, <3>2 DEF Before
      <4>. QED  BY <4>1, <4>2, FS_CardinalityType
    <3>3. CASE <<a, id>> \notin ord
      <4>0. <<id, a>> \in ord
        BY <2>1, <3>3 DEF IsOrder
      <4>1. /\ IsFiniteSet(Before(ord, D, a)) /\ IsFiniteSet(Before(ord, D, id))
            /\ Cardinality(Before(ord, D, id)) + 1 <= Cardinality(Before(ord, D, a))
        BY <4>0, RankGrows
      <4>2. a \notin B
        BY <3>3 DEF Before
      <4>. QED  BY <4>1, <4>2, FS_CardinalityType
    <3>. QED  BY <3>2, <3>3
  <2>2. \A a \in D : /\ now[a].lane = ts[a].lane
                     /\ now[a].state = IF /\ Cardinality(Before(ord, D, a)) < Cardinality(Before(ord, D, id))
                                          /\ Admits(ts, ord, rs, caps, a)
                                       THEN "running" ELSE ts[a].state
    BY RunToType
  <2>3. DOMAIN now = D
    BY RunToType
  <2>4. Cardinality(Before(ord, D, id)) \in Nat
    BY FS_Subset, FS_CardinalityType DEF Before
  <2>5. id \notin B /\ \A a \in B : ts[a].lane = lane
    BY <1>1, <1>3 DEF Before, IsOrder
  <2>6. \A a \in D : a \in running_by_lane(now, lane) <=> a \in had \/ a \in A
    <3> SUFFICES ASSUME NEW a \in D
                 PROVE  a \in running_by_lane(now, lane) <=> a \in had \/ a \in A
      OBVIOUS
    <3>1. a \in A <=> a \in B /\ Admits(ts, ord, rs, caps, a)
      BY <1>6
    <3>. HIDE DEF now, A, B
    <3>2. a \in running_by_lane(now, lane) <=> now[a].lane = lane /\ now[a].state = "running"
      BY <2>3 DEF running_by_lane
    <3>3. a \in had <=> ts[a].lane = lane /\ ts[a].state = "running"
      BY DEF running_by_lane
    <3>4. CASE a = id
      BY <2>2, <2>4, <2>5, <3>1, <3>2, <3>3, <3>4
    <3>5. CASE a # id
      BY <2>1, <2>2, <2>5, <3>1, <3>2, <3>3, <3>5
    <3>. QED  BY <3>4, <3>5
  <2>7. running_by_lane(now, lane) \subseteq D /\ had \subseteq D /\ A \subseteq D
    BY <1>1, <2>3 DEF running_by_lane
  <2>. HIDE DEF now, had, A
  <2>. QED  BY <2>6, <2>7
<1>8. /\ IsFiniteSet(A) /\ Cardinality(A) <= Cardinality(B)
      /\ A = B \/ Cardinality(A) >= n
  <2>1. A \in SUBSET B /\ \A a \in B : a \in A <=> Cardinality(Before(ord, B, a)) < n
    OBVIOUS
  <2>2. B \in SUBSET D /\ IsFiniteSet(B) /\ IsOrder(ord, D) /\ n \in Int
    BY <1>1, <1>2
  <2>. HIDE DEF A, B, n, D
  <2>3. IsFiniteSet(A)
    BY <2>1, <2>2, FS_Subset
  <2>4. A = B \/ Cardinality(A) >= n
    BY <2>1, <2>2, FirstOnes
  <2>. QED  BY <2>1, <2>2, <2>3, <2>4, FS_Subset
<1>9. Cardinality(running_by_lane(now, lane)) = Cardinality(had) + Cardinality(A)
  <2>1. had \cap A = {}
    BY <1>1
  <2>. HIDE DEF had, A
  <2>2. Cardinality(had \cup A) = Cardinality(had) + Cardinality(A) - 0
    BY <1>1, <1>8, <2>1, FS_Union, FS_EmptySet
  <2>. HIDE DEF now, lane
  <2>3. Cardinality(A) \in Nat
    BY <1>8, FS_CardinalityType
  <2>. QED  BY <1>1, <1>7, <2>2, <2>3
<1>10. Admits(ts, ord, rs, caps, id) <=> Cardinality(B) < n
  BY <1>4
<1>11. Cardinality(A) \in Nat
  BY <1>8, FS_CardinalityType
<1>. HIDE DEF now, had, A, B
<1>12. Cardinality(had) + Cardinality(A) < caps[lane] <=> Cardinality(B) < n
  BY <1>1, <1>2, <1>8, <1>11
<1>. QED  BY <1>9, <1>10, <1>12 DEF now

\* A round of the loop admits the ticket it looks at exactly if pump does.
LEMMA RoundOfPump ==
    ASSUME NEW ts, NEW ord, NEW rs, NEW caps, NEW id \in DOMAIN ts,
           IsTable(ts), IsFiniteSet(DOMAIN ts), IsOrder(ord, DOMAIN ts), IsCapacities(caps)
    PROVE  LET k == Cardinality(Before(ord, DOMAIN ts, id))
           IN RunTo(ts, ord, rs, caps, k + 1)
                = WalkStep(rs, caps, RunTo(ts, ord, rs, caps, k), id)
<1> DEFINE k == Cardinality(Before(ord, DOMAIN ts, id))
           now == RunTo(ts, ord, rs, caps, k)
           next == RunTo(ts, ord, rs, caps, k + 1)
<1>1. \A a \in DOMAIN ts : Cardinality(Before(ord, DOMAIN ts, a)) \in Nat
  BY FS_Subset, FS_CardinalityType DEF Before
<1>2. DOMAIN now = DOMAIN ts /\ DOMAIN next = DOMAIN ts
  BY DEF RunTo
<1>3. \A a \in DOMAIN ts \ {id} : next[a] = now[a]
  <2> SUFFICES ASSUME NEW a \in DOMAIN ts \ {id} PROVE next[a] = now[a]
    OBVIOUS
  <2>1. Cardinality(Before(ord, DOMAIN ts, a)) # k
    BY RankIsPlace
  <2>2. Cardinality(Before(ord, DOMAIN ts, a)) < k + 1 <=> Cardinality(Before(ord, DOMAIN ts, a)) < k
    BY <1>1, <2>1
  <2>. HIDE DEF k
  <2>. QED  BY <2>2 DEF RunTo
<1>4. /\ now[id] = ts[id]
      /\ next[id] = IF Admits(ts, ord, rs, caps, id)
                    THEN [ts[id] EXCEPT !.state = "running"] ELSE ts[id]
  <2>1. ~(k < k) /\ k < k + 1
    BY <1>1
  <2>. QED  BY <2>1 DEF RunTo
<1>5. \A lane : lane_busy_for_background(now, rs, lane) <=> lane_busy_for_background(ts, rs, lane)
  BY RunToType DEF lane_busy_for_background
<1> DEFINE finds == /\ now[id].state = "waiting"
                    /\ Cardinality(running_by_lane(now, now[id].lane)) < caps[now[id].lane]
                    /\ now[id].priority = "background" =>
                         ~lane_busy_for_background(now, rs, now[id].lane)
<1>6. finds <=> Admits(ts, ord, rs, caps, id)
  <2>1. CASE id \in Eligible(ts, rs, ts[id].lane)
    <3>1. Cardinality(running_by_lane(now, ts[id].lane)) < caps[ts[id].lane]
            <=> Admits(ts, ord, rs, caps, id)
      BY <2>1, RoomFor
    <3>2. /\ ts[id].state = "waiting"
          /\ ts[id].priority = "background" => ~lane_busy_for_background(ts, rs, ts[id].lane)
      BY <2>1 DEF Eligible
    <3>. HIDE DEF now
    <3>. QED  BY <1>4, <1>5, <3>1, <3>2
  <2>2. CASE id \notin Eligible(ts, rs, ts[id].lane)
    <3>1. ~Admits(ts, ord, rs, caps, id)
      BY <2>2 DEF Admits
    <3>2. ~(/\ ts[id].state = "waiting"
            /\ ts[id].priority = "background" => ~lane_busy_for_background(ts, rs, ts[id].lane))
      BY <2>2 DEF Eligible
    <3>. HIDE DEF now
    <3>. QED  BY <1>4, <1>5, <3>1, <3>2
  <2>. QED  BY <2>1, <2>2
<1>7. WalkStep(rs, caps, now, id) = IF finds THEN [now EXCEPT ![id].state = "running"] ELSE now
  BY DEF WalkStep
<1>8. next = [a \in DOMAIN ts |-> next[a]] /\ now = [a \in DOMAIN ts |-> now[a]]
  BY DEF RunTo
<1>. HIDE DEF now, next, finds
<1>9. CASE Admits(ts, ord, rs, caps, id)
  <2>1. WalkStep(rs, caps, now, id) = [now EXCEPT ![id] = [ts[id] EXCEPT !.state = "running"]]
    BY <1>4, <1>6, <1>7, <1>9
  <2>2. next[id] = [ts[id] EXCEPT !.state = "running"]
    BY <1>4, <1>9
  <2>3. next = [now EXCEPT ![id] = [ts[id] EXCEPT !.state = "running"]]
    BY <1>2, <1>3, <1>8, <2>2
  <2>. QED  BY <2>1, <2>3 DEF now, next
<1>10. CASE ~Admits(ts, ord, rs, caps, id)
  <2>1. WalkStep(rs, caps, now, id) = now
    BY <1>6, <1>7, <1>10
  <2>2. next[id] = now[id]
    BY <1>4, <1>10
  <2>3. next = now
    BY <1>3, <1>8, <2>2
  <2>. QED  BY <2>1, <2>3 DEF now, next
<1>. QED  BY <1>9, <1>10

\* The loop and the closed form admit the same tickets of any row.
LEMMA PumpWalks ==
    ASSUME NEW ts, NEW ord, NEW rs, NEW caps,
           IsTable(ts), IsFiniteSet(DOMAIN ts), IsOrder(ord, DOMAIN ts), IsCapacities(caps)
    PROVE  pump(ts, ord, rs, caps) = Walk(ts, InOrder(DOMAIN ts, ord), rs, caps)
<1> DEFINE N == Cardinality(DOMAIN ts)
           order == InOrder(DOMAIN ts, ord)
           run(n) == RunTo(ts, ord, rs, caps, n)
           Rounds(f) == f = [n \in 0..Len(order) |->
                                IF n = 0 THEN ts ELSE WalkStep(rs, caps, f[n - 1], order[n])]
           after == CHOOSE f : Rounds(f)
<1>1. /\ N \in Nat /\ Len(order) = N
      /\ \A i \in 1..N : /\ order[i] \in DOMAIN ts
                         /\ Cardinality(Before(ord, DOMAIN ts, order[i])) = i - 1
  BY RowInOrder
<1>2. \A id \in DOMAIN ts : Cardinality(Before(ord, DOMAIN ts, id)) \in 0..(N - 1)
  BY RankIsPlace
<1>3. run(0) = ts
  BY <1>1, <1>2 DEF RunTo, IsTable
<1>4. run(N) = pump(ts, ord, rs, caps)
  BY <1>1, <1>2 DEF RunTo, pump
<1>5. \A n \in 1..N : run(n) = WalkStep(rs, caps, run(n - 1), order[n])
  <2> SUFFICES ASSUME NEW n \in 1..N PROVE run(n) = WalkStep(rs, caps, run(n - 1), order[n])
    OBVIOUS
  <2> DEFINE id == order[n]
             k == Cardinality(Before(ord, DOMAIN ts, id))
  <2>1. id \in DOMAIN ts /\ k = n - 1 /\ k + 1 = n
    BY <1>1
  <2>2. run(k + 1) = WalkStep(rs, caps, run(k), id)
    BY <2>1, RoundOfPump
  <2>. QED  BY <2>1, <2>2
<1>. HIDE DEF N, order, run
<1>6. Rounds([n \in 0..N |-> run(n)])
  BY <1>1, <1>3, <1>5
<1>7. Rounds(after)
  <2>1. \E f : Rounds(f)
    BY <1>6
  <2>. HIDE DEF Rounds
  <2>. QED  BY <2>1, Zenon
<1>8. Walk(ts, order, rs, caps) = after[Len(order)]
  BY Zenon DEF Walk
<1>. HIDE DEF after
<1>9. \A n \in 0..N : after[n] = IF n = 0 THEN ts ELSE WalkStep(rs, caps, after[n - 1], order[n])
  BY <1>1, <1>7
<1>10. \A n \in 0..N : after[n] = run(n)
  <2> DEFINE T == {n \in 0..N : after[n] # run(n)}
  <2> SUFFICES ASSUME T # {} PROVE FALSE
    OBVIOUS
  <2>1. T \in SUBSET Nat
    OBVIOUS
  <2>2. PICK n \in T : \A k \in T : n <= k
    BY <2>1, Least
  <2>3. n # 0
    BY <1>1, <1>3, <1>9, <2>2
  <2>4. n \in 1..N /\ n - 1 \in 0..N /\ n - 1 \notin T
    BY <1>1, <2>2, <2>3
  <2>5. after[n - 1] = run(n - 1)
    BY <2>4
  <2>. QED  BY <1>5, <1>9, <2>2, <2>4, <2>5
<1>. QED  BY <1>1, <1>4, <1>8, <1>10 DEF order

\* The closed form of pump is the loop of the source, whatever leaves the queue
\* and whatever capacities its lanes are given.
THEOREM PumpWalksTheQueue == Spec => []PumpIsTheWalk
<1>1. Steady => PumpIsTheWalk
  <2> SUFFICES ASSUME Steady, NEW S \in SUBSET DOMAIN tickets, NEW R \in SUBSET DOMAIN reservations,
                      NEW caps \in [Lanes -> {1} \cup {CapacityFor(mp) : mp \in MaxParallelArgs}]
               PROVE  LET ts == Keep(tickets, S)
                          ord == {p \in ahead : p[1] \in S /\ p[2] \in S}
                          rs == Keep(reservations, R)
                      IN pump(ts, ord, rs, caps) = Walk(ts, InOrder(S, ord), rs, caps)
    BY DEF PumpIsTheWalk
  <2> DEFINE ts == Keep(tickets, S)
             ord == {p \in ahead : p[1] \in S /\ p[2] \in S}
             rs == Keep(reservations, R)
  <2>1. IsTable(ts) /\ DOMAIN ts = S
    BY TypeParts, KeepType DEF Steady
  <2>2. IsFiniteSet(S)
    BY FS_Subset DEF Steady, FiniteTickets
  <2>3. IsOrder(ord, S)
    BY TypeParts, OrderRestricted DEF Steady
  <2>4. IsCapacities(caps)
    BY CapacityForType DEF IsCapacities
  <2>. HIDE DEF ts, ord, rs
  <2>5. pump(ts, ord, rs, caps) = Walk(ts, InOrder(S, ord), rs, caps)
    BY <2>1, <2>2, <2>3, <2>4, PumpWalks
  <2>. QED  BY <2>5 DEF ts, ord, rs
<1>. QED  BY <1>1, SteadyAlways, PTL
=============================================================================
