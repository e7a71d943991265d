------------------------ MODULE InferenceTurnsProofs ------------------------
(***************************************************************************)
(* Turns and the queue together, for any turns, windows, lanes and number  *)
(* of requests.  Every step of the turns is a step of the queue or none    *)
(* (QueueStep), so what is proved of the queue holds here.  The rest       *)
(* follows the commands of a turn through its window's inbox and the       *)
(* acquires that run late: Ordered says which may be on their way at each  *)
(* point of withInferenceSlot, Standing what the queue holds for the turn, *)
(* Away for which slot a turn that goes on may have a reservation.         *)
(***************************************************************************)
EXTENDS InferenceTurns, InferenceQueueProofs

-----------------------------------------------------------------------------
(* What is sent. *)

\* A turn's first request replaces nothing, a later one the one before it.
Replaced(id) == IF id[2] = 1 THEN NoId ELSE <<id[1], id[2] - 1>>

Acquires == {m \in [op : {"acquire"}, id : ReqIds, max_parallel : MaxParallelArgs,
                    replaces : ReqIds \cup {NoId}] : m.replaces = Replaced(m.id)}
Cancels == [op : {"cancel"}, id : ReqIds]
Releases == [op : {"release"}, id : ReqIds, reserve : BOOLEAN]
WindowReleases == [op : {"release_window"}, window : Windows]
Commands == Acquires \cup Cancels \cup Releases \cup WindowReleases

\* The types of the renderers' state, and which request a turn has.
Wired ==
    /\ pc \in [Turns -> Live \cup {"idle", "done", "gone"}]
    /\ request \in [Turns -> ReqIds \cup {NoId}]
    /\ aborted \in [Turns -> BOOLEAN]
    /\ inbox \in [Windows -> Seq(Commands)]
    /\ spawned \in SUBSET Acquires
    /\ losses \in Nat /\ suspends \in Nat
    /\ \A t \in Turns :
        /\ request[t] # NoId => request[t][1] = t
        /\ pc[t] \in Live \cup {"done"} => request[t] # NoId
        /\ pc[t] = "idle" => request[t] = NoId /\ ~aborted[t]
        /\ pc[t] = "returning" => request[t][2] > 1

LEMMA IdShape ==
    ASSUME NEW id \in ReqIds
    PROVE  /\ id[1] \in Turns /\ id[2] \in 1..MaxRequests[id[1]] /\ id = <<id[1], id[2]>>
           /\ MaxRequests[id[1]] \in Nat \ {0} /\ id # NoId
BY TurnsAssumption, QueueAssumption

LEMMA IdOf ==
    ASSUME NEW t \in Turns, NEW k \in 1..MaxRequests[t]
    PROVE  <<t, k>> \in ReqIds
BY TurnsAssumption

\* The request a turn has, and the one before it.
LEMMA RequestOf ==
    ASSUME Wired, NEW t \in Turns, pc[t] \in Live \cup {"done"}
    PROVE  /\ request[t] \in ReqIds /\ request[t][1] = t /\ request[t] = <<t, request[t][2]>>
           /\ request[t][2] \in Nat \ {0}
<1>1. request[t] \in ReqIds /\ request[t][1] = t
  BY DEF Wired
<1>. QED  BY <1>1, IdShape

LEMMA CommandTypes ==
    ASSUME NEW id \in ReqIds
    PROVE  /\ \A mp \in MaxParallelArgs : AcquireOf(id, mp, Replaced(id)) \in Acquires
           /\ CancelOf(id) \in Cancels
           /\ \A reserve \in BOOLEAN : ReleaseOf(id, reserve) \in Releases
<1>1. Replaced(id) \in ReqIds \cup {NoId}
  <2>1. id[1] \in Turns /\ id[2] \in 1..MaxRequests[id[1]] /\ MaxRequests[id[1]] \in Nat
    BY IdShape
  <2>2. CASE id[2] = 1
    BY <2>2 DEF Replaced
  <2>3. CASE id[2] # 1
    <3>1. id[2] - 1 \in 1..MaxRequests[id[1]]
      BY <2>1, <2>3
    <3>. QED  BY <2>1, <2>3, <3>1, IdOf DEF Replaced
  <2>. QED  BY <2>2, <2>3
<1>. QED  BY <1>1 DEF AcquireOf, CancelOf, ReleaseOf, Acquires, Cancels, Releases

\* A command put at the end of a window's inbox.
LEMMA SendTypes ==
    ASSUME Wired, NEW t \in Turns, NEW m \in Commands, Send(t, m)
    PROVE  inbox' \in [Windows -> Seq(Commands)]
<1>1. TurnWindow[t] \in Windows
  BY TurnsAssumption
<1>2. Append(inbox[TurnWindow[t]], m) \in Seq(Commands)
  BY <1>1, AppendProperties DEF Wired
<1>. QED  BY <1>1, <1>2 DEF Send, Wired

LEMMA WiredInit == TurnsInit => Wired
<1>1. <<>> \in Seq(Commands)
  BY EmptySeq
<1>. QED  BY <1>1 DEF TurnsInit, Wired, Live

LEMMA WiredTurn ==
    ASSUME Wired, NEW t \in Turns, TurnStep(t)
    PROVE  Wired'
<1>1. CASE Begin(t)
  <2>1. <<t, 1>> \in ReqIds
    <3>1. 1 \in 1..MaxRequests[t]
      BY TurnsAssumption
    <3>. QED  BY <3>1, IdOf
  <2>2. PICK mp \in MaxParallelArgs : Send(t, AcquireOf(<<t, 1>>, mp, NoId))
    BY <1>1 DEF Begin
  <2>3. AcquireOf(<<t, 1>>, mp, NoId) \in Commands
    BY <2>1, CommandTypes DEF Replaced, Commands
  <2>4. inbox' \in [Windows -> Seq(Commands)]
    BY <2>2, <2>3, SendTypes
  <2>. QED  BY <1>1, <2>1, <2>4, QueueAssumption DEF Begin, Wired, Live
<1>2. CASE Abort(t)
  <2>1. CancelOf(request[t]) \in Commands
    BY <1>2, RequestOf, CommandTypes DEF Abort, Commands
  <2>2. inbox' \in [Windows -> Seq(Commands)]
    BY <1>2, <2>1, SendTypes DEF Abort
  <2>. QED  BY <1>2, <2>2 DEF Abort, Wired, Live
<1>3. ASSUME pc[t] \in Live, NEW reserve \in BOOLEAN, Send(t, ReleaseOf(request[t], reserve)),
             NEW to \in {"done", "released"}, pc' = [pc EXCEPT ![t] = to],
             UNCHANGED <<request, aborted, spawned, losses, suspends>>
      PROVE  Wired'
  <2>1. ReleaseOf(request[t], reserve) \in Commands
    BY <1>3, RequestOf, CommandTypes DEF Commands
  <2>2. inbox' \in [Windows -> Seq(Commands)]
    BY <1>3, <2>1, SendTypes
  <2>. QED  BY <1>3, <2>2 DEF Wired, Live
<1>4. CASE NotAdmitted(t) \/ Return(t) \/ GiveBack(t)
  BY <1>3, <1>4 DEF NotAdmitted, Return, GiveBack, Finish, Live
<1>5. CASE TakeBack(t)
  <2> DEFINE next == <<t, request[t][2] + 1>>
  <2>1. /\ request[t] = <<t, request[t][2]>> /\ request[t][2] \in Nat \ {0}
        /\ request[t][2] < MaxRequests[t]
    BY <1>5, RequestOf DEF TakeBack, Live
  <2>2. next \in ReqIds /\ next[1] = t /\ next[2] = request[t][2] + 1
    <3>1. request[t][2] + 1 \in 1..MaxRequests[t]
      BY <2>1, TurnsAssumption
    <3>. QED  BY <3>1, IdOf
  <2>3. Replaced(next) = request[t]
    BY <2>1 DEF Replaced
  <2>4. /\ \E mp \in MaxParallelArgs : Send(t, AcquireOf(next, mp, Replaced(next)))
        /\ request' = [request EXCEPT ![t] = next]
    BY <1>5, <2>3 DEF TakeBack
  <2>5. inbox' \in [Windows -> Seq(Commands)]
    BY <2>2, <2>4, CommandTypes, SendTypes DEF Commands
  <2>. HIDE DEF next
  <2>6. request' \in [Turns -> ReqIds \cup {NoId}] /\ pc' = [pc EXCEPT ![t] = "returning"]
        /\ UNCHANGED <<aborted, spawned, losses, suspends>>
    <3>1. pc' = [pc EXCEPT ![t] = "returning"] /\ UNCHANGED <<aborted, spawned, losses, suspends>>
      BY <1>5 DEF TakeBack
    <3>2. request' \in [Turns -> ReqIds \cup {NoId}]
      BY <2>2, <2>4 DEF Wired
    <3>. QED  BY <3>1, <3>2
  <2>7. ASSUME NEW u \in Turns
        PROVE  /\ request'[u] # NoId => request'[u][1] = u
               /\ pc'[u] \in Live \cup {"done"} => request'[u] # NoId
               /\ pc'[u] = "idle" => request'[u] = NoId /\ ~aborted'[u]
               /\ pc'[u] = "returning" => request'[u][2] > 1
    <3>1. CASE u = t
      BY <2>1, <2>2, <2>4, <2>6, <3>1, QueueAssumption DEF Wired
    <3>2. CASE u # t
      BY <2>4, <2>6, <3>2 DEF Wired
    <3>. QED  BY <3>1, <3>2
  <2>. QED  BY <2>5, <2>6, <2>7 DEF Wired, Live
<1>6. CASE Admitted(t)
  BY <1>6 DEF Admitted, Wired, Live
<1>7. CASE Beat(t)
  BY <1>7 DEF Beat, clientVars, Wired
<1>. QED  BY <1>1, <1>2, <1>4, <1>5, <1>6, <1>7 DEF TurnStep

\* What the host takes up.
LEMMA HeadTypes ==
    ASSUME Wired, NEW w \in Windows, inbox[w] # <<>>
    PROVE  /\ inbox[w] \in Seq(Commands) /\ Head(inbox[w]) \in Commands
           /\ Tail(inbox[w]) \in Seq(Commands)
           /\ Len(inbox[w]) \in Nat \ {0} /\ Len(Tail(inbox[w])) = Len(inbox[w]) - 1
           /\ Head(inbox[w]) = inbox[w][1]
           /\ \A i \in 1..Len(Tail(inbox[w])) : Tail(inbox[w])[i] = inbox[w][i + 1]
<1>1. inbox[w] \in Seq(Commands)
  BY DEF Wired
<1>. QED  BY <1>1, HeadTailProperties, EmptySeq, LenProperties

LEMMA WiredDispatch ==
    ASSUME Wired, NEW w \in Windows, Dispatch(w)
    PROVE  Wired'
<1> DEFINE m == Head(inbox[w])
<1>1. m \in Commands /\ Tail(inbox[w]) \in Seq(Commands)
  BY HeadTypes DEF Dispatch
<1>2. inbox' \in [Windows -> Seq(Commands)]
  BY <1>1 DEF Dispatch, Wired
<1>3. m.op = "acquire" => m \in Acquires
  BY <1>1 DEF Commands, Cancels, Releases, WindowReleases
<1>4. spawned' \in SUBSET Acquires
  BY <1>3 DEF Dispatch, Wired
<1>. QED  BY <1>2, <1>4 DEF Dispatch, Wired

LEMMA WiredStep == Wired /\ [TurnsNext]_allVars => Wired'
<1> SUFFICES ASSUME Wired, [TurnsNext]_allVars PROVE Wired'
  OBVIOUS
<1>1. ASSUME NEW t \in Turns, TurnStep(t) PROVE Wired'
  BY <1>1, WiredTurn
<1>2. ASSUME NEW w \in Windows, Dispatch(w) PROVE Wired'
  BY <1>2, WiredDispatch
<1>3. ASSUME NEW w \in Windows, Reload(w) PROVE Wired'
  <2>1. ReleaseWindowOf(w) \in Commands
    BY DEF ReleaseWindowOf, WindowReleases, Commands
  <2>2. Append(inbox[w], ReleaseWindowOf(w)) \in Seq(Commands)
    BY <2>1, AppendProperties DEF Wired
  <2>3. inbox' \in [Windows -> Seq(Commands)]
    BY <1>3, <2>2 DEF Reload, Wired
  <2>. QED  BY <1>3, <2>3 DEF Reload, Wired, Live
<1>4. ASSUME NEW w \in Windows, Close(w) PROVE Wired'
  <2>1. ReleaseWindowOf(w) \in Commands
    BY DEF ReleaseWindowOf, WindowReleases, Commands
  <2>2. <<ReleaseWindowOf(w)>> \in Seq(Commands)
    BY <2>1
  <2>3. inbox' \in [Windows -> Seq(Commands)]
    BY <1>4, <2>2 DEF Close, Wired
  <2>. QED  BY <1>4, <2>3 DEF Close, Wired, Live
<1>5. ASSUME NEW m \in spawned, RunAcquire(m) PROVE Wired'
  BY <1>5 DEF RunAcquire, Wired
<1>6. CASE HostStep \/ Tick
  BY <1>6 DEF HostStep, Tick, clientVars, Wired
<1>7. CASE Suspend
  BY <1>7 DEF Suspend, Wired
<1>8. CASE UNCHANGED allVars
  BY <1>8 DEF allVars, clientVars, Wired
<1>. QED  BY <1>1, <1>2, <1>3, <1>4, <1>5, <1>6, <1>7, <1>8 DEF TurnsNext

-----------------------------------------------------------------------------
(* The queue of the turns is the queue. *)

LEMMA HandleStep ==
    ASSUME NEW m \in Commands, Handle(m)
    PROVE  [Next]_vars
<1>1. CASE m \in Acquires
  BY <1>1 DEF Handle, Acquires
<1>2. CASE m \in Cancels
  <2>1. CancelUnknown(m.id) \/ CancelFound(m.id)
    BY <1>2 DEF Handle, Cancels
  <2>. QED  BY <1>2, <2>1 DEF Cancels, Next
<1>3. CASE m \in Releases
  <2>1. release_with(m.id, m.reserve)
    BY <1>3 DEF Handle, Releases
  <2>. QED  BY <1>3, <2>1 DEF Releases, Next
<1>4. CASE m \in WindowReleases
  <2>1. release_window(m.window)
    BY <1>4 DEF Handle, WindowReleases
  <2>. QED  BY <1>4, <2>1 DEF WindowReleases, Next
<1>. QED  BY <1>1, <1>2, <1>3, <1>4 DEF Commands

\* An acquire whose body runs late is an acquire of the queue.
LEMMA AcquireStep ==
    ASSUME NEW m \in Acquires, RunAcquire(m)
    PROVE  m.id \in ReqIds /\ Acquire(m.id)
<1>1. m.id \in ReqIds /\ m.id[1] \in Turns
  BY IdShape DEF Acquires
<1>2. m.replaces \in (ReqIds \cup {NoId}) \ {m.id}
  <2>1. m.id[2] \in Nat
    BY <1>1, IdShape
  <2>2. m.replaces # m.id
    BY <1>1, <2>1, IdShape DEF Acquires, Replaced
  <2>. QED  BY <2>2 DEF Acquires
<1>3. /\ TurnLane[m.id[1]] \in Lanes /\ TurnWindow[m.id[1]] \in Windows
      /\ TurnPriority[m.id[1]] \in Priority /\ m.max_parallel \in MaxParallelArgs
  BY <1>1, TurnsAssumption DEF Acquires
<1>. QED  BY <1>1, <1>2, <1>3 DEF RunAcquire, Acquire

LEMMA QueueStep == Wired /\ [TurnsNext]_allVars => [Next]_vars
<1> SUFFICES ASSUME Wired, [TurnsNext]_allVars PROVE [Next]_vars
  OBVIOUS
<1>1. ASSUME NEW t \in Turns, TurnStep(t) PROVE [Next]_vars
  <2>1. CASE Beat(t)
    <3>1. request[t] \in ReqIds
      BY <2>1, RequestOf DEF Beat
    <3>. QED  BY <2>1, <3>1 DEF Beat, Next
  <2>2. CASE ~Beat(t)
    BY <1>1, <2>2 DEF TurnStep, Begin, Abort, Admitted, NotAdmitted, GiveBack, TakeBack, Return, Finish
  <2>. QED  BY <2>1, <2>2
<1>2. ASSUME NEW w \in Windows, Dispatch(w) PROVE [Next]_vars
  BY <1>2, HeadTypes, HandleStep DEF Dispatch
<1>3. ASSUME NEW w \in Windows, Reload(w) \/ Close(w) PROVE [Next]_vars
  BY <1>3 DEF Reload, Close
<1>4. ASSUME NEW m \in spawned, RunAcquire(m) PROVE [Next]_vars
  BY <1>4, AcquireStep DEF Wired, Next
<1>5. CASE HostStep
  BY <1>5 DEF HostStep, Next
<1>6. CASE Tick \/ Suspend
  <2>1. 1 \in 1..LeaseTtl /\ LeaseTtl \in 1..LeaseTtl
    BY QueueAssumption
  <2>. QED  BY <1>6, <2>1 DEF Tick, Suspend, Next
<1>7. CASE UNCHANGED allVars
  BY <1>7 DEF allVars
<1>. QED  BY <1>1, <1>2, <1>3, <1>4, <1>5, <1>6, <1>7 DEF TurnsNext

\* Whatever the renderers send and the host takes up in whatever order, the
\* queue sees acquires, cancels, releases and time as InferenceQueue allows.
THEOREM TurnsUseTheQueue == TurnsSpec => Spec
<1>1. TurnsInit => Init
  BY DEF TurnsInit
<1>. QED  BY <1>1, WiredInit, WiredStep, QueueStep, PTL DEF TurnsSpec, Spec

\* The state of turns and queue keeps its type.
THEOREM TurnsTypes == TurnsSpec => []TurnsTypeOK
<1>1. Wired /\ TypeOK => TurnsTypeOK
  <2> SUFFICES ASSUME Wired, TypeOK PROVE TurnsTypeOK
    OBVIOUS
  <2>1. ASSUME NEW w \in Windows, NEW i \in DOMAIN inbox[w]
        PROVE  inbox[w][i].op \in {"acquire", "cancel", "release", "release_window"}
    <3>1. inbox[w] \in Seq(Commands)
      BY DEF Wired
    <3>2. inbox[w][i] \in Commands
      BY <3>1, ElementOfSeq, LenProperties
    <3>. QED  BY <3>2 DEF Commands, Acquires, Cancels, Releases, WindowReleases
  <2>. QED  BY <2>1 DEF Wired, TurnsTypeOK, Acquires
<1>. QED  BY <1>1, WiredInit, WiredStep, TurnsUseTheQueue, TypeCorrect, PTL DEF TurnsSpec

-----------------------------------------------------------------------------
(* A turn's commands in its window's inbox.                                *)

Box(t) == inbox[TurnWindow[t]]

\* Where they stand, and what they are.
Of(t, op) == {i \in DOMAIN Box(t) : Box(t)[i].op = op /\ Box(t)[i].id[1] = t}
Sent(t, op) == {Box(t)[i] : i \in Of(t, op)}
Once(t, op) == \A i, j \in Of(t, op) : i = j

\* Where the window is to be released.
Resets(w) == {i \in DOMAIN inbox[w] : inbox[w][i].op = "release_window"}

\* An acquire of the turn comes after its releases and its window's.
ReleaseFirst(t) == \A i \in Of(t, "acquire"), j \in Of(t, "release") : j < i
ResetFirst(t) == \A i \in Resets(TurnWindow[t]) : \E j \in Of(t, "acquire") : i < j

Ops == {"acquire", "cancel", "release"}

\* Every command is in its window's inbox.
Addressed ==
    \A w \in Windows : \A i \in DOMAIN inbox[w] :
        IF inbox[w][i].op = "release_window" THEN inbox[w][i].window = w
        ELSE TurnWindow[inbox[w][i].id[1]] = w

LEMMA BoxTypes ==
    ASSUME Wired, NEW w \in Windows
    PROVE  /\ inbox[w] \in Seq(Commands) /\ Len(inbox[w]) \in Nat
           /\ DOMAIN inbox[w] = 1..Len(inbox[w])
           /\ \A i \in DOMAIN inbox[w] : inbox[w][i] \in Commands
<1>1. inbox[w] \in Seq(Commands)
  BY DEF Wired
<1>. QED  BY <1>1, LenProperties, ElementOfSeq

\* The commands of a turn that others do not touch.
SameView(t) ==
    /\ \A op \in Ops : Sent(t, op)' = Sent(t, op) /\ (Once(t, op) => Once(t, op)')
    /\ ReleaseFirst(t) => ReleaseFirst(t)'
    /\ ResetFirst(t) => ResetFirst(t)'

\* The boxes that a step leaves alone.
LEMMA SameBox ==
    ASSUME NEW t \in Turns, Box(t)' = Box(t)
    PROVE  /\ SameView(t)
           /\ Resets(TurnWindow[t])' = {} <=> Resets(TurnWindow[t]) = {}
<1>1. inbox'[TurnWindow[t]] = inbox[TurnWindow[t]]
  BY DEF Box
<1>2. /\ \A op : Of(t, op)' = Of(t, op) /\ Sent(t, op)' = Sent(t, op)
      /\ Resets(TurnWindow[t])' = Resets(TurnWindow[t])
  BY <1>1 DEF Of, Sent, Resets, Box
<1>. QED  BY <1>2 DEF SameView, Once, ReleaseFirst, ResetFirst

\* What a turn sends is the last of its window's commands.
LEMMA SendPlaces ==
    ASSUME Wired, NEW t \in Turns, NEW m \in Commands, Send(t, m), m.op \in Ops, m.id[1] = t
    PROVE  LET n == Len(Box(t)) + 1
           IN  /\ \A u \in Turns : DOMAIN Box(u) \subseteq Int
               /\ \A i \in DOMAIN Box(t) : i < n
               /\ Box(t)'[n] = m
               /\ \A u \in Turns : \A i \in DOMAIN Box(u) : Box(u)'[i] = Box(u)[i]
               /\ \A u \in Turns, op \in Ops :
                    Of(u, op)' = Of(u, op) \cup (IF u = t /\ op = m.op THEN {n} ELSE {})
               /\ \A u \in Turns : Resets(TurnWindow[u])' = Resets(TurnWindow[u])
<1> DEFINE w == TurnWindow[t]
           s == inbox[w]
           n == Len(s) + 1
<1>1. w \in Windows /\ \A u \in Turns : TurnWindow[u] \in Windows
  BY TurnsAssumption
<1>2. \A v \in Windows : inbox[v] \in Seq(Commands) /\ DOMAIN inbox[v] = 1..Len(inbox[v]) /\ Len(inbox[v]) \in Nat
  BY BoxTypes
<1>3. inbox' = [inbox EXCEPT ![w] = Append(s, m)] /\ inbox \in [Windows -> Seq(Commands)]
  BY DEF Send, Wired
<1>4. inbox'[w] = Append(s, m) /\ \A v \in Windows \ {w} : inbox'[v] = inbox[v]
  BY <1>1, <1>3
<1>5. /\ Append(s, m) \in Seq(Commands) /\ Len(Append(s, m)) = n
      /\ \A i \in 1..Len(s) : Append(s, m)[i] = s[i]
      /\ Append(s, m)[n] = m
  BY <1>1, <1>2, AppendProperties
<1>6. DOMAIN Append(s, m) = 1..n
  BY <1>5, LenProperties
<1>7. \A i : i \in 1..n <=> i \in 1..Len(s) \/ i = n
  BY <1>1, <1>2
<1>8. ASSUME NEW u \in Turns, NEW i \in DOMAIN Box(u) PROVE Box(u)'[i] = Box(u)[i]
  BY <1>1, <1>2, <1>4, <1>5, <1>8 DEF Box
<1>9. ASSUME NEW u \in Turns, NEW op \in Ops
      PROVE  Of(u, op)' = Of(u, op) \cup (IF u = t /\ op = m.op THEN {n} ELSE {})
  <2>1. CASE TurnWindow[u] # w
    BY <1>1, <1>4, <2>1 DEF Of, Box
  <2>2. CASE TurnWindow[u] = w
    <3>1. Box(u) = s /\ Box(u)' = Append(s, m)
      BY <1>4, <2>2 DEF Box
    <3>2. \A i : i \in Of(u, op)' <=> i \in 1..n /\ Append(s, m)[i].op = op /\ Append(s, m)[i].id[1] = u
      BY <1>6, <3>1 DEF Of
    <3>3. \A i : i \in Of(u, op) <=> i \in 1..Len(s) /\ s[i].op = op /\ s[i].id[1] = u
      BY <1>1, <1>2, <3>1 DEF Of
    <3>. HIDE DEF n, s
    <3>4. \A i : i \in Of(u, op)' <=> i \in Of(u, op) \/ (i = n /\ op = m.op /\ u = t)
      BY <1>5, <1>7, <3>2, <3>3
    <3>. QED  BY <3>4
  <2>. QED  BY <2>1, <2>2
<1>10. ASSUME NEW u \in Turns PROVE Resets(TurnWindow[u])' = Resets(TurnWindow[u])
  <2>1. CASE TurnWindow[u] # w
    BY <1>1, <1>4, <2>1 DEF Resets
  <2>2. CASE TurnWindow[u] = w
    <3>1. m.op # "release_window"
      BY DEF Ops
    <3>2. \A i : i \in Resets(w)' <=> i \in 1..n /\ Append(s, m)[i].op = "release_window"
      BY <1>4, <1>6 DEF Resets
    <3>3. \A i : i \in Resets(w) <=> i \in 1..Len(s) /\ s[i].op = "release_window"
      BY <1>1, <1>2 DEF Resets
    <3>. HIDE DEF n, s
    <3>4. \A i : i \in Resets(w)' <=> i \in Resets(w)
      BY <1>5, <1>7, <3>1, <3>2, <3>3
    <3>5. Resets(w)' = Resets(w)
      BY <3>4 DEF Resets
    <3>. QED  BY <2>2, <3>5
  <2>. QED  BY <2>1, <2>2
<1>11. /\ Box(t)'[n] = m /\ \A i \in DOMAIN Box(t) : i < n
       /\ \A u \in Turns : DOMAIN Box(u) \subseteq Int
  BY <1>1, <1>2, <1>4, <1>5 DEF Box
<1>. QED  BY <1>8, <1>9, <1>10, <1>11 DEF Box

LEMMA SendView ==
    ASSUME Wired, NEW t \in Turns, NEW m \in Commands, Send(t, m), m.op \in Ops, m.id[1] = t
    PROVE  /\ \A u \in Turns \ {t} : SameView(u)
           /\ \A u \in Turns : Resets(TurnWindow[u])' = Resets(TurnWindow[u])
           /\ Sent(t, m.op)' = Sent(t, m.op) \cup {m}
           /\ \A op \in Ops \ {m.op} : Sent(t, op)' = Sent(t, op) /\ (Once(t, op) => Once(t, op)')
           /\ Sent(t, m.op) = {} => Once(t, m.op)'
           /\ ReleaseFirst(t) /\ (m.op = "release" => Sent(t, "acquire") = {}) => ReleaseFirst(t)'
           /\ ResetFirst(t) \/ m.op = "acquire" => ResetFirst(t)'
<1> DEFINE n == Len(Box(t)) + 1
<1>1. \A u \in Turns : DOMAIN Box(u) \subseteq Int
  BY SendPlaces
<1>2. /\ \A i \in DOMAIN Box(t) : i < n
      /\ Box(t)'[n] = m
      /\ \A u \in Turns : \A i \in DOMAIN Box(u) : Box(u)'[i] = Box(u)[i]
  BY SendPlaces
<1>3. \A u \in Turns, op \in Ops :
        Of(u, op)' = Of(u, op) \cup (IF u = t /\ op = m.op THEN {n} ELSE {})
  BY SendPlaces
<1>4. \A u \in Turns : Resets(TurnWindow[u])' = Resets(TurnWindow[u])
  BY SendPlaces
<1>. HIDE DEF n
<1>5. \A u \in Turns : \A op : Of(u, op) \subseteq DOMAIN Box(u)
  BY DEF Of
<1>6. ASSUME NEW u \in Turns, NEW op \in Ops, u # t \/ op # m.op
      PROVE  /\ Of(u, op)' = Of(u, op) /\ Sent(u, op)' = Sent(u, op)
             /\ Once(u, op) => Once(u, op)'
  <2>1. Of(u, op)' = Of(u, op)
    BY <1>3, <1>6
  <2>. QED  BY <1>2, <1>5, <2>1 DEF Sent, Once
<1>7. ASSUME NEW u \in Turns \ {t} PROVE SameView(u)
  BY <1>4, <1>6, <1>7 DEF SameView, ReleaseFirst, ResetFirst, Ops
<1>8. Sent(t, m.op)' = Sent(t, m.op) \cup {m}
  <2>1. Of(t, m.op)' = Of(t, m.op) \cup {n}
    BY <1>3
  <2>2. Sent(t, m.op)' = {Box(t)'[i] : i \in Of(t, m.op) \cup {n}}
    BY <2>1 DEF Sent
  <2>. QED  BY <1>2, <1>5, <2>2 DEF Sent
<1>9. Sent(t, m.op) = {} => Once(t, m.op)'
  <2>1. Sent(t, m.op) = {} => Of(t, m.op) = {}
    BY DEF Sent
  <2>. QED  BY <1>3, <2>1 DEF Once
<1>10. ASSUME ReleaseFirst(t), m.op = "release" => Sent(t, "acquire") = {} PROVE ReleaseFirst(t)'
  <2>1. CASE m.op = "release"
    <3>1. Of(t, "acquire")' = {}
      BY <1>3, <1>10, <2>1 DEF Sent, Ops
    <3>. QED  BY <3>1 DEF ReleaseFirst
  <2>2. CASE m.op # "release"
    <3>1. Of(t, "release")' = Of(t, "release")
      BY <1>3, <2>2 DEF Ops
    <3>2. Of(t, "acquire")' \subseteq Of(t, "acquire") \cup {n}
      BY <1>3 DEF Ops
    <3>. QED  BY <1>2, <1>5, <1>10, <3>1, <3>2 DEF ReleaseFirst
  <2>. QED  BY <2>1, <2>2
<1>11. ASSUME ResetFirst(t) \/ m.op = "acquire" PROVE ResetFirst(t)'
  <2>1. CASE m.op = "acquire"
    <3>1. n \in Of(t, "acquire")'
      BY <1>3, <2>1 DEF Ops
    <3>2. \A i \in Resets(TurnWindow[t]) : i < n
      BY <1>2 DEF Resets, Box
    <3>. QED  BY <1>4, <3>1, <3>2 DEF ResetFirst
  <2>2. CASE m.op # "acquire"
    <3>1. Of(t, "acquire")' = Of(t, "acquire")
      BY <1>3, <2>2 DEF Ops
    <3>. QED  BY <1>4, <1>11, <2>2, <3>1 DEF ResetFirst
  <2>. QED  BY <2>1, <2>2
<1>. QED  BY <1>4, <1>6, <1>7, <1>8, <1>9, <1>10, <1>11

\* What the host takes up is the first of its window's commands.
LEMMA TakePlaces ==
    ASSUME Wired, NEW w \in Windows, inbox[w] # <<>>, inbox' = [inbox EXCEPT ![w] = Tail(@)],
           NEW u \in Turns, TurnWindow[u] = w
    PROVE  /\ DOMAIN Box(u) \subseteq Int /\ 1 \in DOMAIN Box(u) /\ Box(u)[1] = Head(inbox[w])
           /\ \A i \in DOMAIN Box(u) : i = 1 \/ (i > 1 /\ i - 1 \in DOMAIN Box(u)')
           /\ \A i \in DOMAIN Box(u)' : /\ i \in Int /\ i + 1 > 1 /\ i + 1 \in DOMAIN Box(u)
                                        /\ Box(u)'[i] = Box(u)[i + 1]
<1>1. /\ inbox[w] \in Seq(Commands) /\ Head(inbox[w]) = inbox[w][1]
      /\ Tail(inbox[w]) \in Seq(Commands)
      /\ Len(inbox[w]) \in Nat \ {0} /\ Len(Tail(inbox[w])) = Len(inbox[w]) - 1
      /\ \A i \in 1..Len(Tail(inbox[w])) : Tail(inbox[w])[i] = inbox[w][i + 1]
  BY HeadTypes
<1>2. Box(u) = inbox[w] /\ Box(u)' = Tail(inbox[w])
  BY DEF Box, Wired
<1>3. DOMAIN Box(u) = 1..Len(inbox[w]) /\ DOMAIN Box(u)' = 1..(Len(inbox[w]) - 1)
  BY <1>1, <1>2, LenProperties
<1>. QED  BY <1>1, <1>2, <1>3

LEMMA TakeView ==
    ASSUME Wired, Addressed, NEW w \in Windows, inbox[w] # <<>>,
           inbox' = [inbox EXCEPT ![w] = Tail(@)],
           NEW m, m = Head(inbox[w]), NEW u \in Turns
    PROVE  LET mine == m.op # "release_window" /\ m.id[1] = u
           IN  /\ m.op = "release_window" => m.window = w
               /\ ~mine => SameView(u)
               /\ mine => /\ TurnWindow[u] = w
                          /\ m \in Sent(u, m.op)
                          /\ \A op \in Ops \ {m.op} : Sent(u, op)' = Sent(u, op) /\ (Once(u, op) => Once(u, op)')
                          /\ Once(u, m.op) => Sent(u, m.op)' = {} /\ Once(u, m.op)'
                          /\ Sent(u, m.op)' \subseteq Sent(u, m.op)
                          /\ ReleaseFirst(u) => ReleaseFirst(u)'
                          /\ ResetFirst(u) /\ Once(u, "acquire") => ResetFirst(u)'
                          /\ m.op = "acquire" /\ Once(u, "acquire") /\ ReleaseFirst(u) => Sent(u, "release") = {}
                          /\ m.op = "acquire" /\ Once(u, "acquire") /\ ResetFirst(u) => Resets(w) = {}
               /\ Resets(w) = {} => Resets(w)' = {}
               /\ m.op # "release_window" /\ Resets(w)' = {} => Resets(w) = {}
               /\ m.op = "release_window" => Resets(w) # {}
               /\ \A v \in Windows \ {w} : Resets(v)' = Resets(v)
<1> DEFINE mine == m.op # "release_window" /\ m.id[1] = u
<1>1. \A v \in Windows \ {w} : inbox'[v] = inbox[v] /\ Resets(v)' = Resets(v)
  BY DEF Wired, Resets
<1>2. /\ inbox[w] \in Seq(Commands) /\ m = inbox[w][1]
      /\ Tail(inbox[w]) \in Seq(Commands) /\ inbox'[w] = Tail(inbox[w])
      /\ Len(inbox[w]) \in Nat \ {0} /\ Len(Tail(inbox[w])) = Len(inbox[w]) - 1
      /\ \A i \in 1..Len(Tail(inbox[w])) : Tail(inbox[w])[i] = inbox[w][i + 1]
  BY HeadTypes DEF Wired
<1>3. DOMAIN inbox[w] = 1..Len(inbox[w]) /\ DOMAIN inbox'[w] = 1..(Len(inbox[w]) - 1)
  BY <1>2, LenProperties
<1>4. 1 \in DOMAIN inbox[w] /\ IF m.op = "release_window" THEN m.window = w ELSE TurnWindow[m.id[1]] = w
  BY <1>2, <1>3 DEF Addressed
<1>5. /\ \A i \in Resets(w)' : i + 1 \in Resets(w)
      /\ \A i \in Resets(w) : i = 1 \/ i - 1 \in Resets(w)'
      /\ m.op = "release_window" <=> 1 \in Resets(w)
      /\ Resets(w) \subseteq Int
  <2>1. \A i : i \in Resets(w) <=> i \in 1..Len(inbox[w]) /\ inbox[w][i].op = "release_window"
    BY <1>3 DEF Resets
  <2>2. \A i : i \in Resets(w)' <=> i \in 1..(Len(inbox[w]) - 1) /\ inbox[w][i + 1].op = "release_window"
    BY <1>2, <1>3 DEF Resets
  <2>3. Len(inbox[w]) \in Nat \ {0} /\ Resets(w) \subseteq Int
    BY <1>2, <2>1
  <2>4. m.op = "release_window" <=> 1 \in Resets(w)
    BY <1>2, <2>1, <2>3
  <2>5. ASSUME NEW i \in Resets(w)' PROVE i + 1 \in Resets(w)
    BY <2>1, <2>2, <2>3
  <2>6. ASSUME NEW i \in Resets(w), i # 1 PROVE i - 1 \in Resets(w)'
    <3>1. i \in 1..Len(inbox[w]) /\ inbox[w][i].op = "release_window"
      BY <2>1
    <3>2. i - 1 \in 1..(Len(inbox[w]) - 1) /\ (i - 1) + 1 = i
      BY <2>3, <2>6, <3>1
    <3>. QED  BY <2>2, <3>1, <3>2
  <2>. QED  BY <2>3, <2>4, <2>5, <2>6
<1>6. /\ Resets(w) = {} => Resets(w)' = {}
      /\ m.op # "release_window" /\ Resets(w)' = {} => Resets(w) = {}
      /\ m.op = "release_window" => Resets(w) # {}
  BY <1>5
<1>7. CASE TurnWindow[u] # w
  <2>1. ~mine
    BY <1>4, <1>7
  <2>2. Box(u)' = Box(u)
    BY <1>1, <1>7, TurnsAssumption DEF Box
  <2>. QED  BY <1>1, <1>4, <1>6, <2>1, <2>2, SameBox
<1>8. CASE TurnWindow[u] = w
  <2>1. /\ DOMAIN Box(u) \subseteq Int /\ 1 \in DOMAIN Box(u) /\ Box(u)[1] = m
        /\ \A i \in DOMAIN Box(u) : i = 1 \/ (i > 1 /\ i - 1 \in DOMAIN Box(u)')
        /\ \A i \in DOMAIN Box(u)' : /\ i \in Int /\ i + 1 > 1 /\ i + 1 \in DOMAIN Box(u)
                                     /\ Box(u)'[i] = Box(u)[i + 1]
    BY <1>8, TakePlaces
  <2>2. ASSUME NEW op \in Ops
        PROVE  /\ Of(u, op) \subseteq Int
               /\ \A i \in Of(u, op)' : /\ i \in Int /\ i + 1 > 1 /\ i + 1 \in Of(u, op)
                                        /\ Box(u)'[i] = Box(u)[i + 1]
               /\ \A i \in Of(u, op) : i = 1 \/ (i > 1 /\ i - 1 \in Of(u, op)' /\ Box(u)'[i - 1] = Box(u)[i])
               /\ 1 \in Of(u, op) <=> mine /\ m.op = op
    <3>1. \A i : i \in Of(u, op) <=> i \in DOMAIN Box(u) /\ Box(u)[i].op = op /\ Box(u)[i].id[1] = u
      BY DEF Of
    <3>2. \A i : i \in Of(u, op)' <=> i \in DOMAIN Box(u)' /\ Box(u)'[i].op = op /\ Box(u)'[i].id[1] = u
      BY DEF Of
    <3>3. \A i \in DOMAIN Box(u)' : Box(u)'[i] = Box(u)[i + 1] /\ (i + 1) - 1 = i
      BY <2>1
    <3>4. \A i \in DOMAIN Box(u) : i > 1 => i - 1 \in DOMAIN Box(u)' /\ Box(u)'[i - 1] = Box(u)[i]
      <4>1. \A i \in DOMAIN Box(u) : i \in Int /\ (i - 1) + 1 = i
        BY <2>1
      <4>2. \A i \in DOMAIN Box(u) : i > 1 => i - 1 \in DOMAIN Box(u)'
        BY <2>1
      <4>3. \A i \in DOMAIN Box(u) : i > 1 => Box(u)'[i - 1] = Box(u)[(i - 1) + 1]
        BY <2>1, <4>2
      <4>. QED  BY <4>1, <4>2, <4>3
    <3>5. 1 \in Of(u, op) <=> mine /\ m.op = op
      BY <2>1, <3>1 DEF Ops
    <3>6. Of(u, op) \subseteq Int
      BY <2>1, <3>1
    <3>7. ASSUME NEW i \in Of(u, op)'
          PROVE  i \in Int /\ i + 1 > 1 /\ i + 1 \in Of(u, op) /\ Box(u)'[i] = Box(u)[i + 1]
      BY <2>1, <3>1, <3>2
    <3>8. ASSUME NEW i \in Of(u, op), i # 1
          PROVE  i > 1 /\ i - 1 \in Of(u, op)' /\ Box(u)'[i - 1] = Box(u)[i]
      <4>1. i \in DOMAIN Box(u) /\ i > 1
        BY <2>1, <3>1, <3>8
      <4>. QED  BY <3>1, <3>2, <3>4, <4>1
    <3>. QED  BY <3>5, <3>6, <3>7, <3>8
  <2>3. ASSUME NEW op \in Ops
        PROVE  /\ Sent(u, op)' \subseteq Sent(u, op)
               /\ Once(u, op) => Once(u, op)'
               /\ 1 \notin Of(u, op) => Sent(u, op)' = Sent(u, op)
               /\ 1 \in Of(u, op) /\ Once(u, op) => Of(u, op)' = {} /\ Sent(u, op)' = {}
    <3>1. Sent(u, op)' \subseteq Sent(u, op)
      BY <2>2 DEF Sent
    <3>2. Once(u, op) => Once(u, op)'
      <4> SUFFICES ASSUME Once(u, op), NEW i \in Of(u, op)', NEW j \in Of(u, op)' PROVE i = j
        BY DEF Once
      <4>1. i + 1 = j + 1 /\ i \in Int /\ j \in Int
        BY <2>2 DEF Once
      <4>. QED  BY <4>1
    <3>3. 1 \notin Of(u, op) => Sent(u, op) \subseteq Sent(u, op)'
      <4> SUFFICES ASSUME 1 \notin Of(u, op), NEW i \in Of(u, op) PROVE Box(u)[i] \in Sent(u, op)'
        BY DEF Sent
      <4>1. i - 1 \in Of(u, op)' /\ Box(u)'[i - 1] = Box(u)[i]
        BY <2>2
      <4>. QED  BY <4>1 DEF Sent
    <3>4. 1 \in Of(u, op) /\ Once(u, op) => Of(u, op)' = {}
      <4> SUFFICES ASSUME 1 \in Of(u, op), Once(u, op), NEW i \in Of(u, op)' PROVE FALSE
        OBVIOUS
      <4>1. i + 1 \in Of(u, op) /\ i + 1 > 1 /\ i \in Int
        BY <2>2
      <4>2. i + 1 = 1
        BY <4>1 DEF Once
      <4>. QED  BY <4>1, <4>2
    <3>5. Of(u, op)' = {} => Sent(u, op)' = {}
      BY DEF Sent
    <3>. QED  BY <3>1, <3>2, <3>3, <3>4, <3>5
  <2>4. ReleaseFirst(u) => ReleaseFirst(u)'
    <3> SUFFICES ASSUME ReleaseFirst(u), NEW i \in Of(u, "acquire")', NEW j \in Of(u, "release")' PROVE j < i
      BY DEF ReleaseFirst
    <3>1. i + 1 \in Of(u, "acquire") /\ j + 1 \in Of(u, "release") /\ i \in Int /\ j \in Int
      BY <2>2 DEF Ops
    <3>2. j + 1 < i + 1
      BY <3>1 DEF ReleaseFirst
    <3>. QED  BY <3>1, <3>2
  <2>5. ResetFirst(u) /\ 1 \notin Of(u, "acquire") => ResetFirst(u)'
    <3> SUFFICES ASSUME ResetFirst(u), 1 \notin Of(u, "acquire"), NEW i \in Resets(w)'
                 PROVE  \E j \in Of(u, "acquire")' : i < j
      BY <1>8, TurnsAssumption DEF ResetFirst
    <3>1. i + 1 \in Resets(w) /\ i \in Int
      <4>1. i \in DOMAIN Box(u)'
        BY <1>8 DEF Resets, Box
      <4>. QED  BY <1>5, <2>1, <4>1
    <3>2. PICK j \in Of(u, "acquire") : i + 1 < j
      BY <1>8, <3>1 DEF ResetFirst
    <3>3. j \in Int /\ j - 1 \in Of(u, "acquire")'
      BY <2>2, <3>2 DEF Ops
    <3>. QED  BY <3>1, <3>2, <3>3
  <2>6. ResetFirst(u) /\ Once(u, "acquire") /\ 1 \in Of(u, "acquire") => Resets(w) = {}
    <3> SUFFICES ASSUME ResetFirst(u), Once(u, "acquire"), 1 \in Of(u, "acquire"), NEW i \in Resets(w) PROVE FALSE
      OBVIOUS
    <3>1. PICK j \in Of(u, "acquire") : i < j
      BY <1>8 DEF ResetFirst
    <3>2. j = 1
      BY <3>1 DEF Once
    <3>3. i \in 1..Len(inbox[w])
      BY <1>3 DEF Resets
    <3>. QED  BY <1>2, <3>1, <3>2, <3>3
  <2>7. Resets(w)' = {} => ResetFirst(u)'
    BY <1>8 DEF ResetFirst
  <2>8. ReleaseFirst(u) /\ Once(u, "acquire") /\ 1 \in Of(u, "acquire") => Sent(u, "release") = {}
    <3> SUFFICES ASSUME ReleaseFirst(u), 1 \in Of(u, "acquire"), NEW j \in Of(u, "release") PROVE FALSE
      BY DEF Sent
    <3>1. j < 1 /\ j \in DOMAIN Box(u)
      BY DEF ReleaseFirst, Of
    <3>. QED  BY <2>1, <3>1
  <2>9. CASE ~mine
    <3>1. \A op \in Ops : 1 \notin Of(u, op)
      BY <2>2, <2>9
    <3>2. SameView(u)
      BY <2>3, <2>4, <2>5, <3>1 DEF SameView, Ops
    <3>. QED  BY <1>1, <1>4, <1>6, <2>9, <3>2
  <2>10. CASE mine
    <3>1. m.op \in Ops
      <4>1. m \in Commands
        BY <1>2, HeadTypes
      <4>. QED  BY <2>10, <4>1 DEF Commands, Acquires, Cancels, Releases, WindowReleases, Ops
    <3>2. 1 \in Of(u, m.op) /\ \A op \in Ops \ {m.op} : 1 \notin Of(u, op)
      BY <2>2, <2>10, <3>1
    <3>3. m \in Sent(u, m.op)
      BY <2>1, <3>2 DEF Sent
    <3>4. /\ \A op \in Ops \ {m.op} : Sent(u, op)' = Sent(u, op) /\ (Once(u, op) => Once(u, op)')
          /\ Once(u, m.op) => Sent(u, m.op)' = {} /\ Once(u, m.op)'
          /\ Sent(u, m.op)' \subseteq Sent(u, m.op)
      BY <2>3, <3>1, <3>2
    <3>5. ResetFirst(u) /\ Once(u, "acquire") => ResetFirst(u)'
      BY <1>6, <2>5, <2>6, <2>7
    <3>. QED  BY <1>1, <1>4, <1>6, <1>8, <2>4, <2>6, <2>8, <2>10, <3>2, <3>3, <3>4, <3>5
  <2>. QED  BY <2>9, <2>10
<1>. QED  BY <1>7, <1>8

\* The rest of what a turn sent stays on its way.
LEMMA TakeRest ==
    ASSUME Wired, NEW w \in Windows, inbox[w] # <<>>, inbox' = [inbox EXCEPT ![w] = Tail(@)],
           NEW u \in Turns, TurnWindow[u] = w, NEW op \in Ops
    PROVE  Sent(u, op) \ {Head(inbox[w])} \subseteq Sent(u, op)'
<1>1. /\ DOMAIN Box(u) \subseteq Int /\ Box(u)[1] = Head(inbox[w])
      /\ \A i \in DOMAIN Box(u) : i = 1 \/ (i > 1 /\ i - 1 \in DOMAIN Box(u)')
      /\ \A i \in DOMAIN Box(u)' : Box(u)'[i] = Box(u)[i + 1]
  BY TakePlaces
<1>2. ASSUME NEW i \in Of(u, op), Box(u)[i] # Head(inbox[w])
      PROVE  Box(u)[i] \in Sent(u, op)'
  <2>1. i \in DOMAIN Box(u) /\ Box(u)[i].op = op /\ Box(u)[i].id[1] = u
    BY DEF Of
  <2>2. i \in Int /\ i - 1 \in DOMAIN Box(u)' /\ (i - 1) + 1 = i
    BY <1>1, <1>2, <2>1
  <2>3. Box(u)'[i - 1] = Box(u)[(i - 1) + 1]
    BY <1>1, <2>2
  <2>4. Box(u)'[i - 1] = Box(u)[i]
    BY <2>2, <2>3
  <2>5. i - 1 \in Of(u, op)'
    BY <2>1, <2>2, <2>4 DEF Of
  <2>. QED  BY <2>4, <2>5 DEF Sent
<1>. QED  BY <1>2 DEF Sent

\* The page of a window loads anew: the last of its commands releases it.
LEMMA ReloadView ==
    ASSUME Wired, NEW w \in Windows, NEW u \in Turns,
           inbox' = [inbox EXCEPT ![w] = Append(@, ReleaseWindowOf(w))]
    PROVE  /\ \A op \in Ops : Sent(u, op)' = Sent(u, op) /\ (Once(u, op) => Once(u, op)')
           /\ ReleaseFirst(u) => ReleaseFirst(u)'
           /\ TurnWindow[u] # w => SameView(u) /\ Resets(TurnWindow[u])' = Resets(TurnWindow[u])
           /\ TurnWindow[u] = w => Resets(TurnWindow[u])' # {}
<1> DEFINE m == ReleaseWindowOf(w)
           s == inbox[w]
<1>1. TurnWindow[u] \in Windows
  BY TurnsAssumption
<1>2. CASE TurnWindow[u] # w
  <2>1. inbox'[TurnWindow[u]] = inbox[TurnWindow[u]]
    BY <1>1, <1>2 DEF Wired
  <2>. QED  BY <1>2, <2>1, SameBox DEF SameView, Box, Resets
<1>3. CASE TurnWindow[u] = w
  <2>1. s \in Seq(Commands) /\ DOMAIN s = 1..Len(s) /\ Len(s) \in Nat
    BY BoxTypes
  <2>2. m \in Commands /\ m.op = "release_window"
    BY DEF ReleaseWindowOf, WindowReleases, Commands
  <2>3. /\ Append(s, m) \in Seq(Commands) /\ Len(Append(s, m)) = Len(s) + 1
        /\ \A i \in 1..Len(s) : Append(s, m)[i] = s[i]
        /\ Append(s, m)[Len(s) + 1] = m
    BY <2>1, <2>2, AppendProperties
  <2>4. DOMAIN Append(s, m) = 1..(Len(s) + 1)
    BY <2>3, LenProperties
  <2>5. Box(u) = s /\ Box(u)' = Append(s, m)
    BY <1>3 DEF Box, Wired
  <2>6. ASSUME NEW op \in Ops PROVE Of(u, op)' = Of(u, op) /\ Sent(u, op)' = Sent(u, op)
    <3>1. \A i : i \in Of(u, op)' <=> i \in 1..(Len(s) + 1) /\ Append(s, m)[i].op = op /\ Append(s, m)[i].id[1] = u
      BY <2>4, <2>5 DEF Of
    <3>2. \A i : i \in Of(u, op) <=> i \in 1..Len(s) /\ s[i].op = op /\ s[i].id[1] = u
      BY <2>1, <2>5 DEF Of
    <3>3. op # m.op
      BY <2>2 DEF Ops
    <3>. HIDE DEF m, s
    <3>4. \A i : i \in 1..(Len(s) + 1) => i \in 1..Len(s) \/ i = Len(s) + 1
      BY <2>1
    <3>5. \A i : i \in Of(u, op)' <=> i \in Of(u, op)
      BY <2>1, <2>3, <3>1, <3>2, <3>3, <3>4
    <3>6. Of(u, op)' = Of(u, op)
      BY <3>5 DEF Of
    <3>7. \A i \in Of(u, op) : Append(s, m)[i] = s[i]
      BY <2>3, <3>2
    <3>. QED  BY <2>5, <3>6, <3>7 DEF Sent
  <2>7. Len(s) + 1 \in Resets(w)'
    <3>1. inbox'[w] = Append(s, m)
      BY <1>3, <2>5 DEF Box
    <3>. QED  BY <2>1, <2>2, <2>3, <2>4, <3>1 DEF Resets
  <2>. QED  BY <1>3, <2>6, <2>7 DEF Once, ReleaseFirst, Ops
<1>. QED  BY <1>2, <1>3

\* A window closes: nothing else of it is taken up.
LEMMA CloseView ==
    ASSUME Wired, NEW w \in Windows, NEW u \in Turns,
           inbox' = [inbox EXCEPT ![w] = <<ReleaseWindowOf(w)>>]
    PROVE  /\ TurnWindow[u] # w => SameView(u) /\ Resets(TurnWindow[u])' = Resets(TurnWindow[u])
           /\ TurnWindow[u] = w => /\ \A op \in Ops : Sent(u, op)' = {} /\ Once(u, op)'
                                   /\ ReleaseFirst(u)'
                                   /\ Resets(TurnWindow[u])' # {}
<1>1. TurnWindow[u] \in Windows
  BY TurnsAssumption
<1>2. CASE TurnWindow[u] # w
  <2>1. inbox'[TurnWindow[u]] = inbox[TurnWindow[u]]
    BY <1>1, <1>2 DEF Wired
  <2>. QED  BY <1>2, <2>1, SameBox DEF SameView, Box, Resets
<1>3. CASE TurnWindow[u] = w
  <2>1. inbox'[w] = <<ReleaseWindowOf(w)>> /\ Box(u)' = <<ReleaseWindowOf(w)>>
    BY <1>3 DEF Box, Wired
  <2>2. \A op \in Ops : Of(u, op)' = {}
    BY <2>1 DEF Of, ReleaseWindowOf, Ops
  <2>3. 1 \in Resets(w)'
    BY <2>1 DEF Resets, ReleaseWindowOf
  <2>. QED  BY <1>3, <2>2, <2>3 DEF Sent, Once, ReleaseFirst, Ops
<1>. QED  BY <1>2, <1>3

-----------------------------------------------------------------------------
(* What a step does to the queue.                                          *)

\* The calls that wait may be answered, the answered ones end.
CallsGoOn(id) ==
    \/ call'[id] = call[id]
    \/ call[id] \in {"waiting", "woken", "dropped"} /\ call'[id] \notin {"none", "waiting"}

\* A call whose ticket stays is not turned away.
StaysAsked(id) ==
    LET asked == {"waiting", "woken", "admitted"}
    IN call[id] \in asked /\ id \in DOMAIN tickets' => call'[id] \in asked

SameTicket(id) ==
    /\ tickets'[id].lane = tickets[id].lane /\ tickets'[id].priority = tickets[id].priority
    /\ tickets'[id].owner_window = tickets[id].owner_window
    /\ tickets'[id].lease = tickets[id].lease

\* The tickets of S leave, the others stay.
TicketsLeave(S) ==
    /\ DOMAIN tickets' = DOMAIN tickets \ S
    /\ \A id \in DOMAIN tickets' : SameTicket(id)
    /\ \A id \in ReqIds :
         /\ CallsGoOn(id)
         /\ StaysAsked(id)

ReservationsEnd(S) ==
    /\ DOMAIN reservations' = DOMAIN reservations \ S
    /\ \A id \in DOMAIN reservations' : reservations'[id] = reservations[id]

LEMMA PumpIntoEffect ==
    ASSUME NEW ts, NEW ord, NEW rs, NEW caps, NEW calls, IsTable(ts), IsCalls(calls),
           PumpInto(ts, ord, rs, caps, calls)
    PROVE  /\ DOMAIN tickets' = DOMAIN ts /\ reservations' = rs
           /\ \A id \in DOMAIN ts :
                /\ tickets'[id].lane = ts[id].lane /\ tickets'[id].priority = ts[id].priority
                /\ tickets'[id].owner_window = ts[id].owner_window
                /\ tickets'[id].lease = ts[id].lease
           /\ \A id \in ReqIds :
                \/ call'[id] = calls[id]
                \/ calls[id] = "waiting" /\ call'[id] = (IF id \in DOMAIN ts THEN "woken" ELSE "dropped")
           /\ \A id \in ReqIds : call'[id] = "waiting" => id \in DOMAIN ts
<1>1. tickets' = pump(ts, ord, rs, caps) /\ reservations' = rs /\ call' = Wake(calls, tickets')
  BY DEF PumpInto
<1>2. DOMAIN tickets' = DOMAIN ts
  BY <1>1, PumpType
<1>3. ASSUME NEW id \in DOMAIN ts
      PROVE  /\ tickets'[id].lane = ts[id].lane /\ tickets'[id].priority = ts[id].priority
             /\ tickets'[id].owner_window = ts[id].owner_window
             /\ tickets'[id].lease = ts[id].lease
  BY <1>1 DEF pump, IsTable, Ticket
<1>. QED  BY <1>1, <1>2, <1>3 DEF Wake, IsCalls, CallState

LEMMA RetainEffect ==
    ASSUME TypeOK, NEW S, NEW rs, Retain(DOMAIN tickets \ S, rs)
    PROVE  TicketsLeave(S) /\ reservations' = rs
<1> DEFINE ts == Keep(tickets, DOMAIN tickets \ S)
<1>1. IsTable(ts) /\ DOMAIN ts = DOMAIN tickets \ S /\ IsCalls(call)
  BY TypeParts, KeepType
<1>2. \A id \in DOMAIN ts : ts[id] = tickets[id]
  BY DEF Keep
<1>3. \E ord, caps : PumpInto(ts, ord, rs, caps, call)
  BY DEF Retain
<1>4. DOMAIN ts \subseteq ReqIds
  BY <1>1 DEF IsTable
<1>. HIDE DEF ts
<1>5. /\ DOMAIN tickets' = DOMAIN ts /\ reservations' = rs
      /\ \A id \in DOMAIN ts :
                /\ tickets'[id].lane = ts[id].lane /\ tickets'[id].priority = ts[id].priority
                /\ tickets'[id].owner_window = ts[id].owner_window
                /\ tickets'[id].lease = ts[id].lease
      /\ \A id \in ReqIds :
                \/ call'[id] = call[id]
                \/ call[id] = "waiting" /\ call'[id] = (IF id \in DOMAIN ts THEN "woken" ELSE "dropped")
  BY <1>1, <1>3, PumpIntoEffect
<1>. QED  BY <1>1, <1>2, <1>5 DEF TicketsLeave, SameTicket, CallsGoOn, StaysAsked

LEMMA NothingLeaves ==
    ASSUME TypeOK, UNCHANGED queue
    PROVE  TicketsLeave({}) /\ ReservationsEnd({})
BY DEF queue, TicketsLeave, ReservationsEnd, SameTicket, CallsGoOn, StaysAsked

LEMMA ReclaimEffect ==
    ASSUME TypeOK, NEW S \in SUBSET DOMAIN tickets, NEW R \in SUBSET DOMAIN reservations, reclaim(S, R)
    PROVE  TicketsLeave(S) /\ ReservationsEnd(R)
<1>1. CASE UNCHANGED queue /\ S = {} /\ R = {}
  BY <1>1, NothingLeaves
<1>2. CASE Retain(DOMAIN tickets \ S, Keep(reservations, DOMAIN reservations \ R))
  BY <1>2, RetainEffect DEF ReservationsEnd, Keep
<1>. QED  BY <1>1, <1>2 DEF reclaim

LEMMA CancelRemoveEffect ==
    ASSUME TypeOK, CancelRemove
    PROVE  /\ cancelling \in ReqIds /\ cancelling' = NoId /\ cancelled_early' = cancelled_early
           /\ ReservationsEnd({})
           /\ \/ TicketsLeave({}) /\ UNCHANGED <<tickets, call>>
                   /\ ~(cancelling \in DOMAIN tickets /\ tickets[cancelling].state = "waiting")
              \/ TicketsLeave({cancelling}) /\ cancelling \in DOMAIN tickets /\ tickets[cancelling].state = "waiting"
<1>1. cancelling \in ReqIds /\ cancelling' = NoId /\ cancelled_early' = cancelled_early
  BY DEF CancelRemove, TypeOK
<1>2. CASE cancelling \in DOMAIN tickets /\ tickets[cancelling].state = "waiting"
  <2>1. Retain(DOMAIN tickets \ {cancelling}, reservations)
    BY <1>2 DEF CancelRemove
  <2>. QED  BY <1>1, <1>2, <2>1, RetainEffect DEF ReservationsEnd
<1>3. CASE ~(cancelling \in DOMAIN tickets /\ tickets[cancelling].state = "waiting")
  <2>1. UNCHANGED queue
    BY <1>3 DEF CancelRemove
  <2>. QED  BY <1>1, <1>3, <2>1, NothingLeaves DEF queue
<1>. QED  BY <1>2, <1>3

LEMMA ReleaseEffect ==
    ASSUME TypeOK, NEW id \in ReqIds, NEW reserve \in BOOLEAN, release_with(id, reserve)
    PROVE  /\ TicketsLeave({id})
           /\ id \notin DOMAIN tickets \/ ~reserve => ReservationsEnd({id})
           /\ id \in DOMAIN tickets /\ reserve =>
                /\ DOMAIN reservations' = DOMAIN reservations \cup {id}
                /\ \A r \in DOMAIN reservations \ {id} : reservations'[r] = reservations[r]
                /\ reservations'[id] = [lane |-> tickets[id].lane,
                                        owner_window |-> tickets[id].owner_window, lease |-> LeaseTtl]
<1> DEFINE others == Keep(reservations, DOMAIN reservations \ {id})
           given == [lane |-> tickets[id].lane, owner_window |-> tickets[id].owner_window,
                     lease |-> LeaseTtl]
           added == [r \in DOMAIN others \cup {id} |-> IF r = id THEN given ELSE others[r]]
<1>1. DOMAIN others = DOMAIN reservations \ {id} /\ \A r \in DOMAIN others : others[r] = reservations[r]
  BY DEF Keep
<1>2. CASE id \in DOMAIN tickets /\ reserve
  <2>1. Retain(DOMAIN tickets \ {id}, added)
    BY <1>2 DEF release_with
  <2>2. TicketsLeave({id}) /\ reservations' = added
    BY <2>1, RetainEffect
  <2>. HIDE DEF given
  <2>3. /\ DOMAIN added = DOMAIN reservations \cup {id} /\ added[id] = given
        /\ \A r \in DOMAIN reservations \ {id} : added[r] = reservations[r]
    BY <1>1
  <2>. QED  BY <1>2, <2>2, <2>3 DEF given
<1>3. CASE id \in DOMAIN tickets /\ ~reserve
  <2>1. Retain(DOMAIN tickets \ {id}, others)
    BY <1>3 DEF release_with
  <2>. QED  BY <1>1, <1>3, <2>1, RetainEffect DEF ReservationsEnd
<1>4. CASE id \notin DOMAIN tickets /\ id \in DOMAIN reservations
  <2>1. Retain(DOMAIN tickets, others) /\ DOMAIN tickets = DOMAIN tickets \ {id}
    BY <1>4 DEF release_with
  <2>. QED  BY <1>1, <1>4, <2>1, RetainEffect DEF ReservationsEnd
<1>5. CASE id \notin DOMAIN tickets /\ id \notin DOMAIN reservations
  <2>1. UNCHANGED queue
    BY <1>5 DEF release_with
  <2>. QED  BY <1>5, <2>1 DEF queue, TicketsLeave, ReservationsEnd, SameTicket, CallsGoOn, StaysAsked
<1>. QED  BY <1>2, <1>3, <1>4, <1>5

LEMMA ResumeEffect ==
    ASSUME TypeOK, NEW id \in ReqIds, Resume(id)
    PROVE  TicketsLeave({}) /\ ReservationsEnd({})
BY DEF Resume, TicketsLeave, ReservationsEnd, SameTicket, CallsGoOn, StaysAsked, TypeOK

\* Time passes or a turn beats: leases change.
LEMMA LeasesChange ==
    ASSUME TypeOK, (\E id \in ReqIds : heartbeat(id)) \/ (\E n \in 1..LeaseTtl : Elapse(n))
    PROVE  /\ DOMAIN tickets' = DOMAIN tickets /\ DOMAIN reservations' = DOMAIN reservations
           /\ UNCHANGED <<call, cancelled_early, cancelling>>
           /\ \A id \in DOMAIN tickets :
                /\ tickets'[id].lane = tickets[id].lane /\ tickets'[id].priority = tickets[id].priority
                /\ tickets'[id].owner_window = tickets[id].owner_window
                /\ tickets'[id].state = tickets[id].state
           /\ \A id \in DOMAIN reservations :
                /\ reservations'[id].lane = reservations[id].lane
                /\ reservations'[id].owner_window = reservations[id].owner_window
<1>1. /\ \A id \in DOMAIN tickets : tickets[id] \in Ticket
      /\ \A id \in DOMAIN reservations : reservations[id] \in Reservation
  BY TypeParts DEF IsTable, IsReservations
<1>2. CASE \E id \in ReqIds : heartbeat(id)
  BY <1>1, <1>2 DEF heartbeat, Ticket, Reservation
<1>3. CASE \E n \in 1..LeaseTtl : Elapse(n)
  BY <1>1, <1>3 DEF Elapse, Ticket, Reservation
<1>. QED  BY <1>2, <1>3

\* An acquire enters the queue.
LEMMA EnterEffect ==
    ASSUME TypeOK, NEW m \in Acquires,
           enqueue_with(m.id, TurnLane[m.id[1]], m.max_parallel, TurnWindow[m.id[1]],
                        m.replaces # NoId, TurnPriority[m.id[1]], m.replaces)
    PROVE  /\ m.id \notin DOMAIN tickets /\ call[m.id] = "none"
           /\ \A i \in DOMAIN cancelled_early : cancelled_early[i] # m.id
           /\ DOMAIN tickets' = DOMAIN tickets \cup {m.id}
           /\ \A id \in DOMAIN tickets : SameTicket(id)
           /\ tickets'[m.id].lane = TurnLane[m.id[1]]
           /\ tickets'[m.id].priority = TurnPriority[m.id[1]]
           /\ tickets'[m.id].owner_window = TurnWindow[m.id[1]]
           /\ tickets'[m.id].lease = LeaseTtl
           /\ call'[m.id] \in {"waiting", "woken"}
           /\ \A id \in ReqIds \ {m.id} :
                /\ CallsGoOn(id)
                /\ StaysAsked(id)
           /\ ReservationsEnd({m.replaces})
           /\ UNCHANGED <<cancelled_early, cancelling>>
<1> DEFINE turn == m.id[1]
           t == [lane |-> TurnLane[turn], state |-> "waiting", front |-> m.replaces # NoId,
                 priority |-> TurnPriority[turn], owner_window |-> TurnWindow[turn], lease |-> LeaseTtl]
           ts == [i \in DOMAIN tickets \cup {m.id} |-> IF i = m.id THEN t ELSE tickets[i]]
           rs == Keep(reservations, DOMAIN reservations \ {m.replaces})
           calls == [call EXCEPT ![m.id] = "waiting"]
<1>1. m.id \in ReqIds /\ turn \in Turns
  BY IdShape DEF Acquires
<1>2. t \in Ticket
  BY <1>1, TurnsAssumption, QueueAssumption DEF Ticket, TicketState
<1>3. IsTable(ts)
  BY <1>1, <1>2, TypeParts DEF IsTable
<1>4. /\ DOMAIN ts = DOMAIN tickets \cup {m.id} /\ ts[m.id] = t
      /\ m.id \notin DOMAIN tickets => \A id \in DOMAIN tickets : ts[id] = tickets[id]
  OBVIOUS
<1>5. IsCalls(calls) /\ calls[m.id] = "waiting" /\ \A id \in ReqIds \ {m.id} : calls[id] = call[id]
  BY <1>1, TypeParts DEF IsCalls, CallState
<1>7. \E ord, caps : PumpInto(ts, ord, rs, caps, calls)
  BY DEF enqueue_with
<1>8. /\ m.id \notin DOMAIN tickets /\ call[m.id] = "none"
      /\ \A i \in DOMAIN cancelled_early : cancelled_early[i] # m.id
      /\ UNCHANGED <<cancelled_early, cancelling>>
  BY DEF enqueue_with
<1>9. ReservationsEnd({m.replaces})
  BY <1>7 DEF PumpInto, ReservationsEnd, Keep
<1>10. t.lane = TurnLane[turn] /\ t.priority = TurnPriority[turn] /\ t.owner_window = TurnWindow[turn] /\ t.lease = LeaseTtl
  OBVIOUS
<1>. HIDE DEF ts, calls, rs, t
<1>11. /\ DOMAIN tickets' = DOMAIN ts
       /\ \A id \in DOMAIN ts :
                /\ tickets'[id].lane = ts[id].lane /\ tickets'[id].priority = ts[id].priority
                /\ tickets'[id].owner_window = ts[id].owner_window
                /\ tickets'[id].lease = ts[id].lease
       /\ \A id \in ReqIds :
                \/ call'[id] = calls[id]
                \/ calls[id] = "waiting" /\ call'[id] = (IF id \in DOMAIN ts THEN "woken" ELSE "dropped")
  BY <1>3, <1>5, <1>7, PumpIntoEffect
<1>. QED  BY <1>1, <1>4, <1>5, <1>8, <1>9, <1>10, <1>11 DEF SameTicket, CallsGoOn, StaysAsked

-----------------------------------------------------------------------------
(* Where a turn stands.                                                    *)

Spawned(t) == {m \in spawned : m.id[1] = t}
Previous(t) == <<t, request[t][2] - 1>>
Resolved == {"admitted", "vanished", "cancelled", "refused"}

\* A turn's acquire is on its way exactly while withInferenceSlot awaits one
\* that has not run; it is for the newest request.
Asking(t) ==
    /\ \A m \in Sent(t, "acquire") \cup Spawned(t) : m.id = request[t]
    /\ Once(t, "acquire") /\ \A m, n \in Spawned(t) : m = n
    /\ Sent(t, "acquire") = {} \/ Spawned(t) = {}
    /\ ~(Sent(t, "acquire") = {} /\ Spawned(t) = {}) <=>
         pc[t] \in {"acquiring", "returning"} /\ call[request[t]] = "none"
    /\ pc[t] \in {"held", "released"} => call[request[t]] = "admitted"
    /\ pc[t] = "done" => call[request[t]] \in Resolved
    /\ ReleaseFirst(t)

\* The requests before had their slot, and gave it back but for the last one,
\* whose release is on its way when the next acquire is sent.
Earlier(t) ==
    \A id \in ReqIds : id[1] = t /\ request[t] # NoId /\ id[2] < request[t][2] =>
        /\ call[id] = "admitted"
        /\ id \in DOMAIN tickets => pc[t] = "returning" /\ id = Previous(t) /\ Sent(t, "release") # {}

\* Those to come are unknown to the host.
Later(t) ==
    pc[t] # "done" =>
        \A id \in ReqIds : id[1] = t /\ (request[t] = NoId \/ id[2] > request[t][2]) =>
            call[id] = "none" /\ id \notin DOMAIN tickets /\ id \notin DOMAIN reservations

\* A turn that goes on gives its slot back once, with a reservation.
Releasing(t) ==
    pc[t] # "done" =>
        /\ Sent(t, "release") # {} =>
             pc[t] = "released" \/ (pc[t] = "returning" /\ Sent(t, "acquire") # {})
        /\ pc[t] = "released" /\ request[t] \in DOMAIN tickets => Sent(t, "release") # {}
        /\ Once(t, "release")
        /\ \A m \in Sent(t, "release") :
             m.reserve /\ m.id = (IF pc[t] = "released" THEN request[t] ELSE Previous(t))

\* What its window still has to release was there before the turn.
Resetting(t) ==
    pc[t] \in Live =>
        ResetFirst(t) /\ (Resets(TurnWindow[t]) # {} => pc[t] = "acquiring")

Flow(t) == pc[t] # "gone" => Asking(t) /\ Earlier(t) /\ Later(t) /\ Releasing(t) /\ Resetting(t)

\* A turn is cancelled once, when it is stopped, for its newest request.
Early(t) == {i \in DOMAIN cancelled_early : cancelled_early[i][1] = t}
Cutting(t) == cancelling # NoId /\ cancelling[1] = t

Cancelling(t) ==
    /\ \A m \in Sent(t, "cancel") : m.id = request[t]
    /\ \A i \in Early(t) : cancelled_early[i] = request[t]
    /\ Cutting(t) => cancelling = request[t] /\ call[request[t]] # "none"
    /\ Sent(t, "cancel") # {} \/ Early(t) # {} \/ Cutting(t) => aborted[t]
    /\ Once(t, "cancel") /\ \A i, j \in Early(t) : i = j
    /\ Sent(t, "cancel") = {} \/ Early(t) = {}
    /\ Cutting(t) => Sent(t, "cancel") = {} /\ Early(t) = {}

\* The queue's entries are of the lane, priority and window of their turn, and
\* a ticket's acquire has run.
Placed ==
    /\ \A id \in DOMAIN tickets :
         /\ tickets[id].lane = TurnLane[id[1]] /\ tickets[id].priority = TurnPriority[id[1]]
         /\ tickets[id].owner_window = TurnWindow[id[1]]
         /\ call[id] # "none"
    /\ \A id \in DOMAIN reservations :
         /\ reservations[id].lane = TurnLane[id[1]]
         /\ reservations[id].owner_window = TurnWindow[id[1]]

Ordered ==
    /\ Wired /\ TypeOK /\ NoLostWakeup /\ Addressed /\ Placed
    /\ \A t \in Turns : Flow(t) /\ Cancelling(t)

\* A step that leaves a turn, its acquires and its releases where they are.
Bystander(t) ==
    /\ pc'[t] = pc[t] /\ request'[t] = request[t]
    /\ \A op \in {"acquire", "release"} : Sent(t, op)' = Sent(t, op) /\ (Once(t, op) => Once(t, op)')
    /\ ReleaseFirst(t) => ReleaseFirst(t)'
    /\ pc[t] \in Live => /\ ResetFirst(t) => ResetFirst(t)'
                         /\ Resets(TurnWindow[t]) = {} => Resets(TurnWindow[t])' = {}
    /\ Spawned(t)' = Spawned(t)

\* The queue leaves a turn's entries or lets them go.
Sheds(t) ==
    \A id \in ReqIds : id[1] = t =>
        /\ CallsGoOn(id)
        /\ id \in DOMAIN tickets' => id \in DOMAIN tickets
        /\ id \in DOMAIN reservations' => id \in DOMAIN reservations

\* Nothing new of the turn is to be cancelled.
Uncut(t) ==
    /\ request'[t] = request[t] /\ (aborted[t] => aborted'[t])
    /\ Sent(t, "cancel")' \subseteq Sent(t, "cancel") /\ (Once(t, "cancel") => Once(t, "cancel")')
    /\ {cancelled_early'[i] : i \in Early(t)'} \subseteq {cancelled_early[i] : i \in Early(t)}
    /\ (\A i, j \in Early(t) : i = j) => \A i, j \in Early(t)' : i = j
    /\ Cutting(t)' => cancelling' = cancelling

LEMMA FlowKept ==
    ASSUME Wired, NEW t \in Turns, Flow(t), Bystander(t), Sheds(t)
    PROVE  Flow(t)'
<1> SUFFICES ASSUME pc[t] # "gone"
             PROVE  (Asking(t) /\ Earlier(t) /\ Later(t) /\ Releasing(t) /\ Resetting(t))'
  BY DEF Flow, Bystander
<1>1. Asking(t) /\ Earlier(t) /\ Later(t) /\ Releasing(t) /\ Resetting(t)
  BY DEF Flow
<1>2. /\ pc'[t] = pc[t] /\ request'[t] = request[t]
      /\ \A op \in {"acquire", "release"} : Sent(t, op)' = Sent(t, op) /\ (Once(t, op) => Once(t, op)')
      /\ ReleaseFirst(t) => ReleaseFirst(t)'
      /\ Spawned(t)' = Spawned(t)
  BY DEF Bystander
<1>3. pc[t] \in Live \cup {"done"} => request[t] \in ReqIds /\ request[t][1] = t
  BY RequestOf
<1>4. ASSUME NEW id \in ReqIds, id[1] = t
      PROVE  /\ call'[id] = "none" <=> call[id] = "none"
             /\ call[id] \in Resolved => call'[id] = call[id]
             /\ id \in DOMAIN tickets' => id \in DOMAIN tickets
             /\ id \in DOMAIN reservations' => id \in DOMAIN reservations
  BY <1>4 DEF Sheds, CallsGoOn, Resolved
<1>5. Asking(t)'
  BY <1>1, <1>2, <1>3, <1>4 DEF Asking, Live, Resolved
<1>6. Earlier(t)'
  BY <1>1, <1>2, <1>4 DEF Earlier, Previous, Resolved
<1>7. Later(t)'
  BY <1>1, <1>2, <1>4 DEF Later
<1>8. Releasing(t)'
  BY <1>1, <1>2, <1>3, <1>4 DEF Releasing, Previous, Live
<1>9. Resetting(t)'
  BY <1>1, <1>2 DEF Resetting, Bystander
<1>. QED  BY <1>5, <1>6, <1>7, <1>8, <1>9

LEMMA CancellingKept ==
    ASSUME Wired, NEW t \in Turns, Cancelling(t), Uncut(t),
           \A id \in ReqIds : id[1] = t /\ call'[id] = "none" => call[id] = "none"
    PROVE  Cancelling(t)'
<1>1. request[t] # NoId => request[t] \in ReqIds /\ request[t][1] = t
  BY QueueAssumption DEF Wired
<1>2. /\ Sent(t, "cancel")' \subseteq Sent(t, "cancel") /\ (Once(t, "cancel") => Once(t, "cancel")')
      /\ request'[t] = request[t] /\ (aborted[t] => aborted'[t])
      /\ (\A i, j \in Early(t) : i = j) => \A i, j \in Early(t)' : i = j
  BY DEF Uncut
<1>3. Early(t)' # {} => Early(t) # {}
  <2> SUFFICES ASSUME NEW i \in Early(t)' PROVE Early(t) # {}
    OBVIOUS
  <2>1. cancelled_early'[i] \in {cancelled_early[j] : j \in Early(t)}
    BY DEF Uncut
  <2>. QED  BY <2>1
<1>4. \A i \in Early(t)' : cancelled_early'[i] = request'[t]
  BY <1>2 DEF Cancelling, Uncut
<1>5. Cutting(t)' => /\ Cutting(t) /\ cancelling' = cancelling
                     /\ request[t] # NoId
  BY DEF Cutting, Uncut, Cancelling
<1>. QED  BY <1>1, <1>2, <1>3, <1>4, <1>5 DEF Cancelling

-----------------------------------------------------------------------------
(* Addressed and Placed stay. *)

\* The queue keeps its calls and its entries, whatever their leases.
SameEntries ==
    /\ UNCHANGED <<call, cancelled_early, cancelling>>
    /\ DOMAIN tickets' = DOMAIN tickets /\ DOMAIN reservations' = DOMAIN reservations

\* What a turn's own step changes: its variables, and the end of its inbox.
LEMMA TurnFrame ==
    ASSUME Wired, TypeOK, NEW t \in Turns, TurnStep(t)
    PROVE  /\ inbox' = inbox \/ \E m \in Commands : Send(t, m) /\ m.op \in Ops /\ m.id[1] = t
           /\ spawned' = spawned
           /\ \A u \in Turns \ {t} : pc'[u] = pc[u] /\ request'[u] = request[u] /\ aborted'[u] = aborted[u]
           /\ Beat(t) \/ UNCHANGED vars
           /\ SameEntries
<1>1. ASSUME pc[t] \in Live, NEW m, m = CancelOf(request[t]) \/ \E reserve \in BOOLEAN : m = ReleaseOf(request[t], reserve)
      PROVE  m \in Commands /\ m.op \in Ops /\ m.id[1] = t
  <2>1. request[t] \in ReqIds /\ request[t][1] = t
    BY <1>1, RequestOf
  <2>2. m \in Commands
    BY <1>1, <2>1, CommandTypes DEF Commands
  <2>3. m.op \in Ops /\ m.id = request[t]
    BY <1>1 DEF CancelOf, ReleaseOf, Ops
  <2>. QED  BY <2>1, <2>2, <2>3
<1>2. ASSUME NEW k \in 1..MaxRequests[t], NEW mp \in MaxParallelArgs
      PROVE  LET m == AcquireOf(<<t, k>>, mp, Replaced(<<t, k>>))
             IN  m \in Commands /\ m.op \in Ops /\ m.id[1] = t
  BY IdOf, CommandTypes DEF Commands, AcquireOf, Ops
<1>3. UNCHANGED vars => SameEntries
  BY DEF vars, queue, SameEntries
<1>4. CASE Begin(t)
  <2>1. 1 \in 1..MaxRequests[t]
    BY TurnsAssumption
  <2>2. \E mp \in MaxParallelArgs : Send(t, AcquireOf(<<t, 1>>, mp, Replaced(<<t, 1>>)))
    BY <1>4 DEF Begin, Replaced
  <2>. QED  BY <1>2, <1>3, <1>4, <2>1, <2>2 DEF Begin, Wired
<1>5. CASE Abort(t)
  BY <1>1, <1>3, <1>5 DEF Abort, Wired
<1>6. CASE NotAdmitted(t) \/ Return(t) \/ GiveBack(t)
  BY <1>1, <1>3, <1>6 DEF NotAdmitted, Return, GiveBack, Finish, Live, Wired
<1>7. CASE TakeBack(t)
  <2>1. request[t] = <<t, request[t][2]>> /\ request[t][2] \in Nat \ {0} /\ request[t][2] + 1 \in 1..MaxRequests[t]
    BY <1>7, RequestOf, TurnsAssumption DEF TakeBack, Live
  <2>2. Replaced(<<t, request[t][2] + 1>>) = request[t]
    BY <2>1 DEF Replaced
  <2>3. \E mp \in MaxParallelArgs :
          Send(t, AcquireOf(<<t, request[t][2] + 1>>, mp, Replaced(<<t, request[t][2] + 1>>)))
    BY <1>7, <2>2 DEF TakeBack
  <2>4. \E m \in Commands : Send(t, m) /\ m.op \in Ops /\ m.id[1] = t
    BY <1>2, <2>1, <2>3
  <2>. QED  BY <1>3, <1>7, <2>4 DEF TakeBack, Wired
<1>8. CASE Admitted(t)
  BY <1>3, <1>8 DEF Admitted, Wired
<1>9. CASE Beat(t)
  <2>1. request[t] \in ReqIds
    BY <1>9, RequestOf DEF Beat
  <2>2. SameEntries
    BY <1>9, <2>1, LeasesChange DEF Beat, SameEntries
  <2>. QED  BY <1>9, <2>2 DEF Beat, clientVars
<1>. QED  BY <1>4, <1>5, <1>6, <1>7, <1>8, <1>9 DEF TurnStep

LEMMA AddressedSend ==
    ASSUME Wired, Addressed, NEW w \in Windows, NEW m \in Commands,
           IF m.op = "release_window" THEN m.window = w ELSE TurnWindow[m.id[1]] = w,
           inbox' = [inbox EXCEPT ![w] = Append(@, m)]
    PROVE  Addressed'
<1>1. inbox[w] \in Seq(Commands) /\ DOMAIN inbox[w] = 1..Len(inbox[w]) /\ Len(inbox[w]) \in Nat
  BY BoxTypes
<1>2. /\ Append(inbox[w], m) \in Seq(Commands) /\ Len(Append(inbox[w], m)) = Len(inbox[w]) + 1
      /\ \A i \in 1..Len(inbox[w]) : Append(inbox[w], m)[i] = inbox[w][i]
      /\ Append(inbox[w], m)[Len(inbox[w]) + 1] = m
  BY <1>1, AppendProperties
<1>3. DOMAIN Append(inbox[w], m) = 1..(Len(inbox[w]) + 1)
  BY <1>2, LenProperties
<1>4. inbox'[w] = Append(inbox[w], m) /\ \A v \in Windows \ {w} : inbox'[v] = inbox[v]
  BY DEF Wired
<1>5. \A i \in DOMAIN inbox'[w] : (i \in DOMAIN inbox[w] /\ inbox'[w][i] = inbox[w][i]) \/ inbox'[w][i] = m
  BY <1>1, <1>2, <1>3, <1>4
<1>6. ASSUME NEW v \in Windows, NEW i \in DOMAIN inbox'[v]
      PROVE  IF inbox'[v][i].op = "release_window" THEN inbox'[v][i].window = v
             ELSE TurnWindow[inbox'[v][i].id[1]] = v
  <2>1. CASE v # w
    BY <1>4, <1>6, <2>1 DEF Addressed
  <2>2. CASE v = w
    BY <1>5, <1>6, <2>2 DEF Addressed
  <2>. QED  BY <2>1, <2>2
<1>. QED  BY <1>6 DEF Addressed

LEMMA AddressedStep ==
    ASSUME Wired, TypeOK, Addressed, [TurnsNext]_allVars
    PROVE  Addressed'
<1>1. inbox' = inbox => Addressed'
  BY DEF Addressed
<1>2. ASSUME NEW t \in Turns, TurnStep(t) PROVE Addressed'
  <2>1. CASE inbox' = inbox
    BY <1>1, <2>1
  <2>2. ASSUME NEW m \in Commands, Send(t, m), m.op \in Ops, m.id[1] = t PROVE Addressed'
    <3>1. inbox' = [inbox EXCEPT ![TurnWindow[t]] = Append(@, m)] /\ TurnWindow[t] \in Windows
      BY <2>2, TurnsAssumption DEF Send
    <3>2. m.op # "release_window"
      BY <2>2 DEF Ops
    <3>. QED  BY <2>2, <3>1, <3>2, AddressedSend
  <2>. QED  BY <1>2, <2>1, <2>2, TurnFrame
<1>3. ASSUME NEW w \in Windows, Dispatch(w) PROVE Addressed'
  <2>1. /\ inbox[w] # <<>> /\ inbox' = [inbox EXCEPT ![w] = Tail(@)]
    BY <1>3 DEF Dispatch
  <2>2. /\ inbox[w] \in Seq(Commands) /\ Tail(inbox[w]) \in Seq(Commands)
        /\ Len(inbox[w]) \in Nat \ {0} /\ Len(Tail(inbox[w])) = Len(inbox[w]) - 1
        /\ \A i \in 1..Len(Tail(inbox[w])) : Tail(inbox[w])[i] = inbox[w][i + 1]
    BY <2>1, HeadTypes
  <2>3. DOMAIN Tail(inbox[w]) = 1..Len(Tail(inbox[w])) /\ DOMAIN inbox[w] = 1..Len(inbox[w])
    BY <2>2, LenProperties
  <2>4. inbox'[w] = Tail(inbox[w]) /\ \A v \in Windows \ {w} : inbox'[v] = inbox[v]
    BY <2>1 DEF Wired
  <2>5. \A i \in DOMAIN inbox'[w] : i + 1 \in DOMAIN inbox[w] /\ inbox'[w][i] = inbox[w][i + 1]
    BY <2>2, <2>3, <2>4
  <2>6. ASSUME NEW v \in Windows, NEW i \in DOMAIN inbox'[v]
        PROVE  IF inbox'[v][i].op = "release_window" THEN inbox'[v][i].window = v
               ELSE TurnWindow[inbox'[v][i].id[1]] = v
    <3>1. CASE v # w
      BY <2>4, <2>6, <3>1 DEF Addressed
    <3>2. CASE v = w
      BY <2>5, <2>6, <3>2 DEF Addressed
    <3>. QED  BY <3>1, <3>2
  <2>. QED  BY <2>6 DEF Addressed
<1>4. ASSUME NEW w \in Windows, Reload(w) PROVE Addressed'
  <2>1. ReleaseWindowOf(w) \in Commands /\ ReleaseWindowOf(w).op = "release_window" /\ ReleaseWindowOf(w).window = w
    BY DEF ReleaseWindowOf, WindowReleases, Commands
  <2>. QED  BY <1>4, <2>1, AddressedSend DEF Reload
<1>5. ASSUME NEW w \in Windows, Close(w) PROVE Addressed'
  <2>1. inbox'[w] = <<ReleaseWindowOf(w)>> /\ \A v \in Windows \ {w} : inbox'[v] = inbox[v]
    BY <1>5 DEF Close, Wired
  <2>2. DOMAIN inbox'[w] = {1} /\ inbox'[w][1].op = "release_window" /\ inbox'[w][1].window = w
    BY <2>1 DEF ReleaseWindowOf
  <2>. QED  BY <2>1, <2>2 DEF Addressed
<1>. QED  BY <1>1, <1>2, <1>3, <1>4, <1>5
          DEF TurnsNext, RunAcquire, HostStep, Tick, Suspend, allVars, clientVars

\* What leaves and what stays was placed before.
LEMMA PlacedKept ==
    ASSUME TypeOK, Placed, NEW S, TicketsLeave(S), NEW R, ReservationsEnd(R)
    PROVE  Placed'
<1>1. \A id \in DOMAIN tickets' : id \in DOMAIN tickets /\ SameTicket(id) /\ id \in ReqIds
  BY DEF TicketsLeave, TypeOK
<1>2. \A id \in ReqIds : call'[id] = "none" => call[id] = "none"
  BY DEF TicketsLeave, CallsGoOn
<1>. QED  BY <1>1, <1>2 DEF Placed, SameTicket, ReservationsEnd

LEMMA PlacedLeases ==
    ASSUME TypeOK, Placed, (\E id \in ReqIds : heartbeat(id)) \/ (\E n \in 1..LeaseTtl : Elapse(n))
    PROVE  Placed'
BY LeasesChange DEF Placed

LEMMA ReleaseWindowEffect ==
    ASSUME TypeOK, NEW w \in Windows, release_window(w)
    PROVE  /\ TicketsLeave({id \in DOMAIN tickets : tickets[id].owner_window = w})
           /\ ReservationsEnd({id \in DOMAIN reservations : reservations[id].owner_window = w})
           /\ UNCHANGED <<cancelled_early, cancelling>>
BY ReclaimEffect DEF release_window, reclaim

LEMMA SweepEffect ==
    ASSUME TypeOK, sweep_expired
    PROVE  /\ TicketsLeave(Lapsed(tickets)) /\ ReservationsEnd(Lapsed(reservations))
           /\ UNCHANGED <<cancelled_early, cancelling>>
BY ReclaimEffect DEF sweep_expired, reclaim, Lapsed

LEMMA PlacedRelease ==
    ASSUME TypeOK, Placed, NEW id \in ReqIds, NEW reserve \in BOOLEAN, release_with(id, reserve)
    PROVE  Placed'
<1>1. TicketsLeave({id})
  BY ReleaseEffect
<1>2. CASE id \notin DOMAIN tickets \/ ~reserve
  BY <1>1, <1>2, ReleaseEffect, PlacedKept
<1>3. CASE id \in DOMAIN tickets /\ reserve
  <2>1. \A i \in DOMAIN tickets' : i \in DOMAIN tickets /\ SameTicket(i) /\ i \in ReqIds
    BY <1>1 DEF TicketsLeave, TypeOK
  <2>2. \A i \in ReqIds : call'[i] = "none" => call[i] = "none"
    BY <1>1 DEF TicketsLeave, CallsGoOn
  <2>3. /\ DOMAIN reservations' = DOMAIN reservations \cup {id}
        /\ \A r \in DOMAIN reservations \ {id} : reservations'[r] = reservations[r]
        /\ reservations'[id] = [lane |-> tickets[id].lane,
                                owner_window |-> tickets[id].owner_window, lease |-> LeaseTtl]
    BY <1>3, ReleaseEffect
  <2>. QED  BY <1>3, <2>1, <2>2, <2>3 DEF Placed, SameTicket
<1>. QED  BY <1>2, <1>3

LEMMA PlacedStep ==
    ASSUME Wired, TypeOK, Placed, [TurnsNext]_allVars
    PROVE  Placed'
<1>1. UNCHANGED queue => Placed'
  BY DEF queue, Placed
<1>2. ASSUME NEW t \in Turns, TurnStep(t) PROVE Placed'
  <2>1. CASE Beat(t)
    BY <2>1, RequestOf, PlacedLeases DEF Beat
  <2>. QED  BY <1>1, <1>2, <2>1, TurnFrame DEF vars
<1>3. ASSUME NEW w \in Windows, Dispatch(w) PROVE Placed'
  <2> DEFINE m == Head(inbox[w])
  <2>1. m \in Commands /\ Handle(m)
    BY <1>3, HeadTypes DEF Dispatch
  <2>. HIDE DEF m
  <2>2. CASE m \in Acquires
    BY <1>1, <2>1, <2>2 DEF Handle, Acquires, vars
  <2>3. CASE m \in Cancels
    <3>1. CancelUnknown(m.id) \/ CancelFound(m.id)
      BY <2>1, <2>3 DEF Handle, Cancels
    <3>. QED  BY <1>1, <3>1 DEF CancelUnknown, CancelFound
  <2>4. CASE m \in Releases
    <3>1. release_with(m.id, m.reserve)
      BY <2>1, <2>4 DEF Handle, Releases
    <3>. QED  BY <2>4, <3>1, PlacedRelease DEF Releases
  <2>5. CASE m \in WindowReleases
    <3>1. release_window(m.window)
      BY <2>1, <2>5 DEF Handle, WindowReleases
    <3>. QED  BY <2>5, <3>1, ReleaseWindowEffect, PlacedKept DEF WindowReleases
  <2>. QED  BY <2>1, <2>2, <2>3, <2>4, <2>5 DEF Commands
<1>4. ASSUME NEW w \in Windows, Reload(w) \/ Close(w) PROVE Placed'
  BY <1>1, <1>4 DEF Reload, Close, vars
<1>5. ASSUME NEW m \in spawned, RunAcquire(m) PROVE Placed'
  <2>1. m \in Acquires /\ m.id \in ReqIds
    BY <1>5 DEF Wired, Acquires
  <2>2. CASE enqueue_with(m.id, TurnLane[m.id[1]], m.max_parallel, TurnWindow[m.id[1]],
                          m.replaces # NoId, TurnPriority[m.id[1]], m.replaces)
    <3>1. /\ m.id \notin DOMAIN tickets
          /\ DOMAIN tickets' = DOMAIN tickets \cup {m.id}
          /\ \A id \in DOMAIN tickets : SameTicket(id)
          /\ tickets'[m.id].lane = TurnLane[m.id[1]]
          /\ tickets'[m.id].priority = TurnPriority[m.id[1]]
          /\ tickets'[m.id].owner_window = TurnWindow[m.id[1]]
          /\ call'[m.id] \in {"waiting", "woken"}
          /\ \A id \in ReqIds \ {m.id} : CallsGoOn(id)
          /\ ReservationsEnd({m.replaces})
      BY <2>1, <2>2, EnterEffect
    <3>2. \A id \in DOMAIN tickets : id # m.id /\ call'[id] # "none"
      BY <3>1 DEF Placed, CallsGoOn, TypeOK
    <3>. QED  BY <3>1, <3>2 DEF Placed, SameTicket, ReservationsEnd
  <2>3. CASE enqueue_cancelled(m.id)
    BY <2>1, <2>3 DEF enqueue_cancelled, Placed, TypeOK
  <2>. QED  BY <1>5, <2>2, <2>3 DEF RunAcquire
<1>6. CASE HostStep
  <2>1. CASE CancelRemove
    BY <2>1, CancelRemoveEffect, PlacedKept
  <2>2. CASE sweep_expired
    BY <2>2, SweepEffect, PlacedKept
  <2>3. CASE \E id \in ReqIds : Resume(id)
    BY <2>3, ResumeEffect, PlacedKept
  <2>. QED  BY <1>6, <2>1, <2>2, <2>3 DEF HostStep
<1>7. CASE Tick \/ Suspend
  <2>1. 1 \in 1..LeaseTtl /\ LeaseTtl \in 1..LeaseTtl
    BY QueueAssumption
  <2>. QED  BY <1>7, <2>1, PlacedLeases DEF Tick, Suspend
<1>8. CASE UNCHANGED allVars
  BY <1>1, <1>8 DEF allVars, vars
<1>. QED  BY <1>2, <1>3, <1>4, <1>5, <1>6, <1>7, <1>8 DEF TurnsNext

-----------------------------------------------------------------------------
(* Flow and Cancelling: a turn's own step. *)

LEMMA SameEarly ==
    ASSUME NEW u \in Turns, cancelled_early' = cancelled_early
    PROVE  /\ Early(u)' = Early(u)
           /\ {cancelled_early'[i] : i \in Early(u)'} = {cancelled_early[i] : i \in Early(u)}
BY DEF Early

LEMMA SameShed ==
    ASSUME NEW u \in Turns, SameEntries
    PROVE  Sheds(u)
BY DEF SameEntries, Sheds, CallsGoOn

\* A turn's step is none of the others'.
LEMMA OthersStay ==
    ASSUME Wired, TypeOK, NEW t \in Turns, TurnStep(t), NEW u \in Turns \ {t}
    PROVE  Bystander(u) /\ Sheds(u) /\ Uncut(u)
<1>1. /\ inbox' = inbox \/ \E m \in Commands : Send(t, m) /\ m.op \in Ops /\ m.id[1] = t
      /\ spawned' = spawned
      /\ pc'[u] = pc[u] /\ request'[u] = request[u] /\ aborted'[u] = aborted[u]
      /\ SameEntries
  BY TurnFrame
<1>2. SameView(u) /\ Resets(TurnWindow[u])' = Resets(TurnWindow[u])
  <2>1. CASE inbox' = inbox
    <3>1. Box(u)' = Box(u) /\ Resets(TurnWindow[u])' = Resets(TurnWindow[u])
      BY <2>1 DEF Box, Resets
    <3>. QED  BY <3>1, SameBox
  <2>2. CASE inbox' # inbox
    BY <1>1, <2>2, SendView
  <2>. QED  BY <2>1, <2>2
<1>3. Spawned(u)' = Spawned(u)
  BY <1>1 DEF Spawned
<1>4. /\ Early(u)' = Early(u)
      /\ {cancelled_early'[i] : i \in Early(u)'} = {cancelled_early[i] : i \in Early(u)}
      /\ cancelling' = cancelling
  BY <1>1, SameEarly DEF SameEntries
<1>5. Bystander(u)
  BY <1>1, <1>2, <1>3 DEF Bystander, SameView, Ops
<1>6. Uncut(u)
  BY <1>1, <1>2, <1>4 DEF Uncut, SameView, Ops
<1>. QED  BY <1>1, <1>5, <1>6, SameShed

\* What the turn sends stands last, so what it sent before stays where it was.
LEMMA OwnSend ==
    ASSUME Wired, NEW t \in Turns, NEW m \in Commands, Send(t, m), m.op \in Ops, m.id[1] = t
    PROVE  /\ Sent(t, m.op)' = Sent(t, m.op) \cup {m}
           /\ \A op \in Ops \ {m.op} : Sent(t, op)' = Sent(t, op) /\ (Once(t, op) => Once(t, op)')
           /\ Sent(t, m.op) = {} => Once(t, m.op)'
           /\ ReleaseFirst(t) /\ (m.op = "release" => Sent(t, "acquire") = {}) => ReleaseFirst(t)'
           /\ ResetFirst(t) \/ m.op = "acquire" => ResetFirst(t)'
           /\ Resets(TurnWindow[t])' = Resets(TurnWindow[t])
BY SendView

\* Where the window is to be released, the turn's acquire is on its way.
LEMMA NoResets ==
    ASSUME NEW t \in Turns, ResetFirst(t), Sent(t, "acquire") = {}
    PROVE  Resets(TurnWindow[t]) = {}
BY DEF ResetFirst, Sent

\* Before a turn is stopped, none of its requests is cancelled.
LEMMA Uncancelled ==
    ASSUME NEW t \in Turns, Cancelling(t), ~aborted[t]
    PROVE  Sent(t, "cancel") = {} /\ Early(t) = {} /\ ~Cutting(t)
BY DEF Cancelling

\* A turn that sends no cancel and keeps its request keeps this.
LEMMA OwnUncut ==
    ASSUME Wired, TypeOK, NEW t \in Turns, SameEntries, Cancelling(t),
           request'[t] = request[t] \/ ~aborted[t], aborted'[t] = aborted[t],
           Sent(t, "cancel")' = Sent(t, "cancel"), Once(t, "cancel") => Once(t, "cancel")'
    PROVE  Cancelling(t)'
<1>1. /\ Early(t)' = Early(t) /\ cancelled_early' = cancelled_early
      /\ cancelling' = cancelling /\ call' = call
  BY SameEarly DEF SameEntries
<1>2. CASE request'[t] = request[t]
  <2>1. Uncut(t)
    BY <1>1, <1>2, SameEarly DEF Uncut
  <2>. QED  BY <1>1, <2>1, CancellingKept
<1>3. CASE ~aborted[t]
  <2>1. Sent(t, "cancel")' = {} /\ Early(t)' = {} /\ ~Cutting(t)'
    BY <1>1, <1>3, Uncancelled DEF Cutting
  <2>. QED  BY <2>1 DEF Cancelling, Once, Sent
<1>. QED  BY <1>2, <1>3

LEMMA BeginKeeps ==
    ASSUME Wired, TypeOK, NEW t \in Turns, Begin(t), Flow(t), Cancelling(t)
    PROVE  Flow(t)' /\ Cancelling(t)'
<1> DEFINE id == <<t, 1>>
<1>1. PICK mp \in MaxParallelArgs : Send(t, AcquireOf(id, mp, NoId))
  BY DEF Begin
<1> DEFINE m == AcquireOf(id, mp, NoId)
<1>2. id \in ReqIds /\ id[1] = t /\ id[2] = 1 /\ id # NoId
  <2>1. 1 \in 1..MaxRequests[t]
    BY TurnsAssumption
  <2>. QED  BY <2>1, IdOf, QueueAssumption
<1>3. m \in Commands /\ m.op = "acquire" /\ m.id = id
  BY <1>2, CommandTypes DEF Replaced, Commands, AcquireOf
<1>4. Send(t, m)
  BY <1>1
<1>. HIDE DEF id, m
<1>5. /\ Sent(t, "acquire")' = Sent(t, "acquire") \cup {m}
      /\ \A op \in {"cancel", "release"} : Sent(t, op)' = Sent(t, op) /\ (Once(t, op) => Once(t, op)')
      /\ Sent(t, "acquire") = {} => Once(t, "acquire")'
      /\ ReleaseFirst(t) => ReleaseFirst(t)'
      /\ ResetFirst(t)'
  BY <1>2, <1>3, <1>4, OwnSend DEF Ops
<1>6. pc[t] = "idle" /\ request[t] = NoId /\ ~aborted[t]
  BY DEF Begin, Wired
<1>7. Asking(t) /\ Later(t) /\ Releasing(t)
  BY <1>6 DEF Flow
<1>8. pc'[t] = "acquiring" /\ request'[t] = id /\ UNCHANGED <<vars, aborted, spawned>>
  BY DEF Begin, Wired, id
<1>9. SameEntries /\ Spawned(t)' = Spawned(t) /\ call' = call
  BY <1>8 DEF SameEntries, vars, queue, Spawned
<1>10. Sent(t, "acquire") = {} /\ Spawned(t) = {} /\ Sent(t, "release") = {}
  BY <1>6, <1>7 DEF Asking, Releasing
<1>11. Asking(t)'
  <2>1. call'[id] = "none"
    BY <1>2, <1>6, <1>7, <1>9 DEF Later
  <2>. QED  BY <1>3, <1>5, <1>7, <1>8, <1>9, <1>10, <2>1 DEF Asking
<1>12. Earlier(t)'
  <2>1. \A i \in ReqIds : i[1] = t => ~(i[2] < 1)
    BY IdShape
  <2>. QED  BY <1>2, <1>8, <2>1 DEF Earlier
<1>13. Later(t)'
  BY <1>2, <1>6, <1>7, <1>8, <1>9 DEF Later, SameEntries
<1>14. Releasing(t)'
  BY <1>5, <1>8, <1>10, <1>7, <1>6 DEF Releasing
<1>15. Resetting(t)'
  BY <1>5, <1>8 DEF Resetting
<1>16. Cancelling(t)'
  BY <1>5, <1>6, <1>8, <1>9, OwnUncut
<1>. QED  BY <1>11, <1>12, <1>13, <1>14, <1>15, <1>16 DEF Flow

LEMMA AbortKeeps ==
    ASSUME Wired, TypeOK, NEW t \in Turns, Abort(t), Flow(t), Cancelling(t)
    PROVE  Flow(t)' /\ Cancelling(t)'
<1> DEFINE m == CancelOf(request[t])
<1>1. request[t] \in ReqIds /\ request[t][1] = t /\ request[t] # NoId
  BY RequestOf, QueueAssumption DEF Abort
<1>2. m \in Commands /\ m.op = "cancel" /\ m.id = request[t]
  BY <1>1, CommandTypes DEF Commands, CancelOf
<1>3. Send(t, m)
  BY DEF Abort
<1>. HIDE DEF m
<1>4. /\ Sent(t, "cancel")' = Sent(t, "cancel") \cup {m}
      /\ \A op \in {"acquire", "release"} : Sent(t, op)' = Sent(t, op) /\ (Once(t, op) => Once(t, op)')
      /\ Sent(t, "cancel") = {} => Once(t, "cancel")'
      /\ ReleaseFirst(t) => ReleaseFirst(t)'
      /\ ResetFirst(t) => ResetFirst(t)'
      /\ Resets(TurnWindow[t])' = Resets(TurnWindow[t])
  BY <1>1, <1>2, <1>3, OwnSend DEF Ops
<1>5. UNCHANGED <<vars, pc, request, spawned>> /\ ~aborted[t] /\ aborted'[t] = TRUE
  BY DEF Abort, Wired
<1>6. SameEntries /\ Spawned(t)' = Spawned(t)
  BY <1>5 DEF SameEntries, vars, queue, Spawned
<1>7. Flow(t)'
  <2>1. Bystander(t)
    BY <1>4, <1>5, <1>6 DEF Bystander
  <2>. QED  BY <1>6, <2>1, SameShed, FlowKept
<1>8. Cancelling(t)'
  <2>1. Sent(t, "cancel") = {} /\ Early(t) = {} /\ ~Cutting(t)
    BY <1>5, Uncancelled
  <2>2. Early(t)' = {} /\ ~Cutting(t)'
    BY <1>6, <2>1, SameEarly DEF SameEntries, Cutting
  <2>. QED  BY <1>2, <1>4, <1>5, <2>1, <2>2 DEF Cancelling
<1>. QED  BY <1>7, <1>8

LEMMA AdmittedKeeps ==
    ASSUME Wired, TypeOK, NEW t \in Turns, Admitted(t), Flow(t), Cancelling(t)
    PROVE  Flow(t)' /\ Cancelling(t)'
<1>1. /\ pc[t] \in {"acquiring", "returning"} /\ call[request[t]] = "admitted" /\ pc'[t] = "held"
      /\ UNCHANGED <<vars, request, aborted, inbox, spawned>>
  BY DEF Admitted, Wired
<1>2. Asking(t) /\ Earlier(t) /\ Later(t) /\ Releasing(t) /\ Resetting(t)
  BY <1>1 DEF Flow
<1>3. Sent(t, "acquire") = {} /\ Spawned(t) = {} /\ Sent(t, "release") = {}
  BY <1>1, <1>2 DEF Asking, Releasing
<1>4. Resets(TurnWindow[t]) = {}
  BY <1>1, <1>2, <1>3, NoResets DEF Resetting, Live
<1>5. /\ \A op : Of(t, op)' = Of(t, op) /\ Sent(t, op)' = Sent(t, op) /\ (Once(t, op) => Once(t, op)')
      /\ Resets(TurnWindow[t])' = Resets(TurnWindow[t]) /\ Spawned(t)' = Spawned(t)
  BY <1>1 DEF Of, Sent, Once, Box, Resets, Spawned
<1>6. SameEntries
  BY <1>1 DEF SameEntries, vars, queue
<1>7. Asking(t)'
  BY <1>1, <1>2, <1>3, <1>5, <1>6 DEF Asking, ReleaseFirst, SameEntries
<1>8. Earlier(t)'
  BY <1>1, <1>2, <1>3, <1>6 DEF Earlier, SameEntries
<1>9. Later(t)'
  BY <1>1, <1>2, <1>6 DEF Later, SameEntries
<1>10. Releasing(t)'
  BY <1>1, <1>2, <1>3, <1>5 DEF Releasing
<1>11. Resetting(t)'
  BY <1>4, <1>5 DEF Resetting, ResetFirst
<1>12. Cancelling(t)'
  BY <1>1, <1>5, <1>6, OwnUncut
<1>. QED  BY <1>7, <1>8, <1>9, <1>10, <1>11, <1>12 DEF Flow

\* A turn is over.
LEMMA FinishKeeps ==
    ASSUME Wired, TypeOK, NEW t \in Turns, Finish(t), pc[t] \in Live,
           call[request[t]] \in Resolved, Flow(t), Cancelling(t)
    PROVE  Flow(t)' /\ Cancelling(t)'
<1> DEFINE m == ReleaseOf(request[t], FALSE)
<1>1. request[t] \in ReqIds /\ request[t][1] = t
  BY RequestOf
<1>2. m \in Commands /\ m.op = "release" /\ m.id = request[t]
  BY <1>1, CommandTypes DEF Commands, ReleaseOf
<1>3. Send(t, m)
  BY DEF Finish
<1>. HIDE DEF m
<1>4. Asking(t) /\ Earlier(t) /\ Releasing(t)
  BY DEF Flow, Live
<1>5. Sent(t, "acquire") = {} /\ Spawned(t) = {}
  BY <1>4 DEF Asking, Resolved
<1>6. /\ \A op \in {"acquire", "cancel"} : Sent(t, op)' = Sent(t, op) /\ (Once(t, op) => Once(t, op)')
      /\ ReleaseFirst(t) => ReleaseFirst(t)'
  BY <1>1, <1>2, <1>3, <1>5, OwnSend DEF Ops
<1>7. UNCHANGED <<vars, request, aborted, spawned>> /\ pc'[t] = "done"
  BY DEF Finish, Wired
<1>8. SameEntries /\ Spawned(t)' = Spawned(t)
  BY <1>7 DEF SameEntries, vars, queue, Spawned
<1>9. Asking(t)'
  BY <1>4, <1>5, <1>6, <1>7, <1>8 DEF Asking, SameEntries
<1>10. Earlier(t)'
  <2>1. ~(pc[t] = "returning" /\ Sent(t, "release") # {})
    BY <1>4, <1>5 DEF Releasing
  <2>. QED  BY <1>4, <1>7, <1>8, <2>1 DEF Earlier, SameEntries
<1>11. Later(t)' /\ Releasing(t)' /\ Resetting(t)'
  BY <1>7 DEF Later, Releasing, Resetting, Live
<1>12. Cancelling(t)'
  BY <1>6, <1>7, <1>8, OwnUncut
<1>. QED  BY <1>9, <1>10, <1>11, <1>12 DEF Flow

LEMMA GiveBackKeeps ==
    ASSUME Wired, TypeOK, NEW t \in Turns, GiveBack(t), Flow(t), Cancelling(t)
    PROVE  Flow(t)' /\ Cancelling(t)'
<1> DEFINE m == ReleaseOf(request[t], TRUE)
<1>0. pc[t] = "held" /\ pc[t] \in Live
  BY DEF GiveBack, Live
<1>1. request[t] \in ReqIds /\ request[t][1] = t
  BY <1>0, RequestOf
<1>2. m \in Commands /\ m.op = "release" /\ m.id = request[t] /\ m.reserve
  BY <1>1, CommandTypes DEF Commands, ReleaseOf
<1>3. Send(t, m)
  BY DEF GiveBack
<1>. HIDE DEF m
<1>4. Asking(t) /\ Earlier(t) /\ Later(t) /\ Releasing(t) /\ Resetting(t)
  BY <1>0 DEF Flow
<1>5. Sent(t, "acquire") = {} /\ Spawned(t) = {} /\ Sent(t, "release") = {}
  BY <1>0, <1>4 DEF Asking, Releasing
<1>6. /\ \A op \in {"acquire", "cancel"} : Sent(t, op)' = Sent(t, op) /\ (Once(t, op) => Once(t, op)')
      /\ Sent(t, "release")' = {m} /\ Once(t, "release")'
      /\ ReleaseFirst(t) => ReleaseFirst(t)'
      /\ ResetFirst(t) => ResetFirst(t)'
      /\ Resets(TurnWindow[t])' = Resets(TurnWindow[t])
  BY <1>1, <1>2, <1>3, <1>5, OwnSend DEF Ops
<1>7. UNCHANGED <<vars, request, aborted, spawned>> /\ pc'[t] = "released"
  BY DEF GiveBack, Wired
<1>8. SameEntries /\ Spawned(t)' = Spawned(t)
  BY <1>7 DEF SameEntries, vars, queue, Spawned
<1>9. Asking(t)'
  BY <1>0, <1>4, <1>5, <1>6, <1>7, <1>8 DEF Asking, SameEntries
<1>10. Earlier(t)'
  BY <1>0, <1>4, <1>7, <1>8 DEF Earlier, SameEntries
<1>11. Later(t)'
  BY <1>0, <1>4, <1>7, <1>8 DEF Later, SameEntries
<1>12. Releasing(t)'
  BY <1>2, <1>6, <1>7 DEF Releasing
<1>13. Resetting(t)'
  BY <1>0, <1>4, <1>6, <1>7 DEF Resetting, Live
<1>14. Cancelling(t)'
  BY <1>6, <1>7, <1>8, OwnUncut
<1>. QED  BY <1>9, <1>10, <1>11, <1>12, <1>13, <1>14 DEF Flow

LEMMA TakeBackKeeps ==
    ASSUME Wired, TypeOK, NEW t \in Turns, TakeBack(t), Flow(t), Cancelling(t)
    PROVE  Flow(t)' /\ Cancelling(t)'
<1> DEFINE next == <<t, request[t][2] + 1>>
<1>1. PICK mp \in MaxParallelArgs : Send(t, AcquireOf(next, mp, request[t]))
  BY DEF TakeBack
<1> DEFINE m == AcquireOf(next, mp, request[t])
<1>2. pc[t] = "released" /\ pc[t] \in Live /\ ~aborted[t]
  BY DEF TakeBack, Live
<1>3. /\ request[t] \in ReqIds /\ request[t] = <<t, request[t][2]>> /\ request[t][2] \in Nat \ {0}
      /\ request[t] # NoId
  BY <1>2, RequestOf, QueueAssumption
<1>4. next \in ReqIds /\ next[1] = t /\ next[2] = request[t][2] + 1 /\ next # NoId
  <2>1. request[t][2] + 1 \in 1..MaxRequests[t]
    BY <1>3, TurnsAssumption DEF TakeBack
  <2>. QED  BY <2>1, IdOf, QueueAssumption
<1>5. m \in Commands /\ m.op = "acquire" /\ m.id = next
  <2>1. Replaced(next) = request[t]
    BY <1>3 DEF Replaced
  <2>. QED  BY <1>4, <2>1, CommandTypes DEF Commands, AcquireOf
<1>6. Send(t, m) /\ <<t, next[2] - 1>> = request[t]
  BY <1>1, <1>3, <1>4
<1>7. pc'[t] = "returning" /\ request'[t] = next /\ UNCHANGED <<vars, aborted, spawned>>
  BY DEF TakeBack, Wired
<1>. HIDE DEF next, m
<1>8. Asking(t) /\ Earlier(t) /\ Later(t) /\ Releasing(t) /\ Resetting(t)
  BY <1>2 DEF Flow
<1>9. Sent(t, "acquire") = {} /\ Spawned(t) = {} /\ call[request[t]] = "admitted"
  BY <1>2, <1>8 DEF Asking
<1>10. /\ Sent(t, "acquire")' = {m} /\ Once(t, "acquire")'
       /\ \A op \in {"release", "cancel"} : Sent(t, op)' = Sent(t, op) /\ (Once(t, op) => Once(t, op)')
       /\ ReleaseFirst(t) => ReleaseFirst(t)'
       /\ ResetFirst(t)'
       /\ Resets(TurnWindow[t])' = Resets(TurnWindow[t])
  BY <1>4, <1>5, <1>6, <1>9, OwnSend DEF Ops
<1>11. SameEntries /\ Spawned(t)' = Spawned(t) /\ Previous(t)' = request[t]
  BY <1>6, <1>7 DEF SameEntries, vars, queue, Spawned, Previous
<1>12. ASSUME NEW id \in ReqIds, id[1] = t
       PROVE  /\ id[2] < next[2] <=> id[2] < request[t][2] \/ id = request[t]
              /\ id[2] > next[2] => id[2] > request[t][2]
              /\ next[2] > request[t][2]
  <2>1. id[2] \in Nat /\ id = <<t, id[2]>>
    BY <1>12, IdShape
  <2>. QED  BY <1>3, <1>4, <2>1
<1>13. Asking(t)'
  <2>1. call[next] = "none"
    BY <1>2, <1>4, <1>8, <1>12 DEF Later
  <2>. QED  BY <1>5, <1>7, <1>8, <1>9, <1>10, <1>11, <2>1 DEF Asking, SameEntries
<1>14. Earlier(t)'
  <2> SUFFICES ASSUME NEW id \in ReqIds, id[1] = t, id[2] < next[2]
               PROVE  /\ call'[id] = "admitted"
                      /\ id \in DOMAIN tickets' => id = request[t] /\ Sent(t, "release")' # {}
    BY <1>7, <1>11 DEF Earlier
  <2>1. id[2] < request[t][2] \/ id = request[t]
    BY <1>12
  <2>2. CASE id[2] < request[t][2]
    BY <1>2, <1>3, <1>8, <1>11, <2>2 DEF Earlier, SameEntries
  <2>3. CASE id = request[t]
    BY <1>2, <1>8, <1>9, <1>10, <1>11, <2>3 DEF Releasing, SameEntries
  <2>. QED  BY <2>1, <2>2, <2>3
<1>15. Later(t)'
  BY <1>2, <1>4, <1>7, <1>8, <1>11, <1>12 DEF Later, SameEntries
<1>16. Releasing(t)'
  BY <1>2, <1>7, <1>8, <1>10, <1>11 DEF Releasing
<1>17. Resetting(t)'
  BY <1>2, <1>7, <1>8, <1>10 DEF Resetting, Live
<1>18. Cancelling(t)'
  BY <1>2, <1>7, <1>10, <1>11, OwnUncut
<1>. QED  BY <1>13, <1>14, <1>15, <1>16, <1>17, <1>18 DEF Flow

LEMMA TurnKeeps ==
    ASSUME Wired, TypeOK, NEW t \in Turns, TurnStep(t), \A u \in Turns : Flow(u) /\ Cancelling(u)
    PROVE  \A u \in Turns : Flow(u)' /\ Cancelling(u)'
<1>1. ASSUME NEW u \in Turns \ {t} PROVE Flow(u)' /\ Cancelling(u)'
  <2>1. Bystander(u) /\ Sheds(u) /\ Uncut(u)
    BY OthersStay
  <2>2. \A id \in ReqIds : id[1] = u /\ call'[id] = "none" => call[id] = "none"
    BY <2>1 DEF Sheds, CallsGoOn
  <2>. QED  BY <2>1, <2>2, FlowKept, CancellingKept
<1>2. CASE Begin(t)
  BY <1>2, BeginKeeps, <1>1
<1>3. CASE Abort(t)
  BY <1>3, AbortKeeps, <1>1
<1>4. CASE Admitted(t)
  BY <1>4, AdmittedKeeps, <1>1
<1>5. CASE NotAdmitted(t)
  BY <1>5, FinishKeeps, <1>1 DEF NotAdmitted, Resolved, Live
<1>6. CASE GiveBack(t)
  BY <1>6, GiveBackKeeps, <1>1
<1>7. CASE TakeBack(t)
  BY <1>7, TakeBackKeeps, <1>1
<1>8. CASE Return(t)
  <2>1. call[request[t]] = "admitted"
    BY <1>8 DEF Return, Flow, Asking
  <2>. QED  BY <1>1, <1>8, <2>1, FinishKeeps DEF Return, Resolved, Live
<1>9. CASE Beat(t)
  <2>1. SameEntries /\ UNCHANGED clientVars
    BY <1>9, TurnFrame DEF Beat
  <2>2. Box(t)' = Box(t) /\ Resets(TurnWindow[t])' = Resets(TurnWindow[t]) /\ Spawned(t)' = Spawned(t)
    BY <2>1 DEF clientVars, Box, Resets, Spawned
  <2>3. SameView(t)
    BY <2>2, SameBox
  <2>4. Bystander(t) /\ Sheds(t)
    BY <2>1, <2>2, <2>3, SameShed DEF Bystander, SameView, Ops, clientVars
  <2>5. Cancelling(t)'
    BY <2>1, <2>3, OwnUncut DEF SameView, Ops, clientVars
  <2>. QED  BY <1>1, <2>4, <2>5, FlowKept
<1>. QED  BY <1>2, <1>3, <1>4, <1>5, <1>6, <1>7, <1>8, <1>9 DEF TurnStep

-----------------------------------------------------------------------------
(* Flow and Cancelling: the host, the windows and time. *)

\* What the queue does without hearing of new requests.
LEMMA LeavingSheds ==
    ASSUME TypeOK, NEW t \in Turns, NEW S, TicketsLeave(S), NEW R, ReservationsEnd(R)
    PROVE  Sheds(t)
BY DEF TicketsLeave, ReservationsEnd, Sheds

LEMMA QuietStep ==
    ASSUME Wired, NEW t \in Turns, Flow(t), Cancelling(t), Sheds(t),
           UNCHANGED <<pc, request, aborted, inbox, spawned, cancelled_early>>,
           cancelling' \in {cancelling, NoId}
    PROVE  Flow(t)' /\ Cancelling(t)'
<1>1. /\ SameView(t) /\ Resets(TurnWindow[t])' = Resets(TurnWindow[t]) /\ Spawned(t)' = Spawned(t)
  <2>1. Box(t)' = Box(t) /\ Resets(TurnWindow[t])' = Resets(TurnWindow[t]) /\ Spawned(t)' = Spawned(t)
    BY DEF Box, Resets, Spawned
  <2>. QED  BY <2>1, SameBox
<1>2. Bystander(t)
  BY <1>1 DEF Bystander, SameView, Ops
<1>3. Uncut(t)
  <2>1. Early(t)' = Early(t) /\ {cancelled_early'[i] : i \in Early(t)'} = {cancelled_early[i] : i \in Early(t)}
    BY SameEarly
  <2>2. Cutting(t)' => cancelling' = cancelling
    BY DEF Cutting
  <2>. QED  BY <1>1, <2>1, <2>2 DEF Uncut, SameView, Ops
<1>4. \A id \in ReqIds : id[1] = t /\ call'[id] = "none" => call[id] = "none"
  BY DEF Sheds, CallsGoOn
<1>. QED  BY <1>2, <1>3, <1>4, FlowKept, CancellingKept

LEMMA HostKeeps ==
    ASSUME Wired, TypeOK, NEW t \in Turns, HostStep \/ Tick \/ Suspend, Flow(t), Cancelling(t)
    PROVE  Flow(t)' /\ Cancelling(t)'
<1>1. CASE HostStep
  <2>1. CASE CancelRemove
    BY <1>1, <2>1, CancelRemoveEffect, LeavingSheds, QuietStep DEF HostStep, clientVars
  <2>2. CASE sweep_expired
    BY <1>1, <2>2, SweepEffect, LeavingSheds, QuietStep DEF HostStep, clientVars
  <2>3. CASE \E id \in ReqIds : Resume(id)
    BY <1>1, <2>3, ResumeEffect, LeavingSheds, QuietStep DEF HostStep, clientVars, Resume
  <2>. QED  BY <1>1, <2>1, <2>2, <2>3 DEF HostStep
<1>2. CASE Tick \/ Suspend
  <2>1. 1 \in 1..LeaseTtl /\ LeaseTtl \in 1..LeaseTtl
    BY QueueAssumption
  <2>2. SameEntries
    BY <1>2, <2>1, LeasesChange DEF Tick, Suspend, SameEntries
  <2>3. UNCHANGED <<pc, request, aborted, inbox, spawned>>
    BY <1>2 DEF Tick, Suspend, clientVars
  <2>. QED  BY <2>2, <2>3, SameShed, QuietStep DEF SameEntries
<1>. QED  BY <1>1, <1>2

\* A window goes, with its turns.
LEMMA LossKeeps ==
    ASSUME Wired, TypeOK, NEW w \in Windows, Reload(w) \/ Close(w), NEW t \in Turns, Flow(t), Cancelling(t)
    PROVE  Flow(t)' /\ Cancelling(t)'
<1>1. UNCHANGED <<vars, request, aborted, spawned>> /\ (pc'[t] = pc[t] \/ pc'[t] = "gone")
  BY DEF Reload, Close, Wired
<1>2. SameEntries /\ Spawned(t)' = Spawned(t)
  BY <1>1 DEF SameEntries, vars, queue, Spawned
<1>3. CASE TurnWindow[t] # w
  <2>1. SameView(t) /\ Resets(TurnWindow[t])' = Resets(TurnWindow[t]) /\ pc'[t] = pc[t]
    BY <1>3, ReloadView, CloseView DEF Reload, Close, TurnsOf, Wired
  <2>2. Bystander(t)
    BY <1>1, <1>2, <2>1 DEF Bystander, SameView, Ops
  <2>3. Cancelling(t)'
    BY <1>1, <1>2, <2>1, OwnUncut DEF SameView, Ops
  <2>. QED  BY <1>2, <2>2, <2>3, SameShed, FlowKept
<1>4. CASE TurnWindow[t] = w /\ Reload(w)
  <2>1. \A op \in Ops : Sent(t, op)' = Sent(t, op) /\ (Once(t, op) => Once(t, op)')
    BY <1>4, ReloadView DEF Reload
  <2>2. ReleaseFirst(t) => ReleaseFirst(t)'
    BY <1>4, ReloadView DEF Reload
  <2>3. pc[t] \in Live => pc'[t] = "gone"
    BY <1>4 DEF Reload, TurnsOf, Wired
  <2>4. Flow(t)'
    <3>1. CASE pc'[t] = "gone"
      BY <3>1 DEF Flow
    <3>2. CASE pc'[t] = pc[t] /\ pc[t] \notin Live
      <4>1. Bystander(t)
        BY <1>1, <1>2, <2>1, <2>2, <3>2 DEF Bystander, Ops
      <4>. QED  BY <1>2, <4>1, SameShed, FlowKept
    <3>. QED  BY <1>1, <2>3, <3>1, <3>2
  <2>5. Cancelling(t)'
    BY <1>1, <1>2, <2>1, OwnUncut DEF Ops
  <2>. QED  BY <2>4, <2>5
<1>5. CASE TurnWindow[t] = w /\ Close(w)
  <2>1. \A op \in Ops : Sent(t, op)' = {} /\ Once(t, op)'
    BY <1>5, CloseView DEF Close
  <2>2. ReleaseFirst(t)'
    BY <1>5, CloseView DEF Close
  <2>3. pc[t] # "done" => pc'[t] = "gone"
    BY <1>5 DEF Close, TurnsOf, Wired
  <2>4. Flow(t)'
    <3>1. CASE pc'[t] = "gone"
      BY <3>1 DEF Flow
    <3>2. CASE pc'[t] = pc[t] /\ pc[t] = "done"
      <4>1. Asking(t) /\ Earlier(t)
        BY <3>2 DEF Flow
      <4>2. Asking(t)'
        BY <1>1, <1>2, <2>1, <2>2, <3>2, <4>1 DEF Asking, Ops, SameEntries
      <4>3. Earlier(t)'
        BY <1>1, <1>2, <3>2, <4>1 DEF Earlier, SameEntries
      <4>. QED  BY <3>2, <4>2, <4>3 DEF Flow, Later, Releasing, Resetting, Live
    <3>. QED  BY <1>1, <2>3, <3>1, <3>2
  <2>5. Uncut(t)
    <3>1. Early(t)' = Early(t) /\ {cancelled_early'[i] : i \in Early(t)'} = {cancelled_early[i] : i \in Early(t)}
      BY <1>2, SameEarly DEF SameEntries
    <3>. QED  BY <1>1, <1>2, <2>1, <3>1 DEF Uncut, Ops, SameEntries
  <2>6. Cancelling(t)'
    BY <1>2, <2>5, CancellingKept DEF SameEntries
  <2>. QED  BY <2>4, <2>6
<1>. QED  BY <1>3, <1>4, <1>5

\* The sequence to holds elements of from, each at most once.
Thins(to, from) ==
    \E f \in [DOMAIN to -> DOMAIN from] :
        \A i, j \in DOMAIN to : to[i] = from[f[i]] /\ (f[i] = f[j] => i = j)

LEMMA ThinsEarly ==
    ASSUME NEW t \in Turns, Thins(cancelled_early', cancelled_early)
    PROVE  /\ {cancelled_early'[i] : i \in Early(t)'} \subseteq {cancelled_early[i] : i \in Early(t)}
           /\ (\A i, j \in Early(t) : i = j) => \A i, j \in Early(t)' : i = j
<1>1. PICK f \in [DOMAIN cancelled_early' -> DOMAIN cancelled_early] :
        \A i, j \in DOMAIN cancelled_early' :
            cancelled_early'[i] = cancelled_early[f[i]] /\ (f[i] = f[j] => i = j)
  BY DEF Thins
<1>2. \A i \in Early(t)' : i \in DOMAIN cancelled_early' /\ f[i] \in Early(t) /\ cancelled_early'[i] = cancelled_early[f[i]]
  BY <1>1 DEF Early
<1>. QED  BY <1>1, <1>2

LEMMA NewestThins ==
    ASSUME NEW S, NEW s \in Seq(S), NEW n \in Nat
    PROVE  /\ Newest(s, n) \in Seq(S) /\ Len(Newest(s, n)) = (IF Len(s) > n THEN n ELSE Len(s))
           /\ Thins(Newest(s, n), s)
           /\ Len(s) <= n => Newest(s, n) = s
<1> DEFINE b == IF Len(s) > n THEN Len(s) - n + 1 ELSE 1
           to == Newest(s, n)
<1>1. Len(s) \in Nat /\ DOMAIN s = 1..Len(s)
  BY LenProperties
<1>2. b \in 1..(Len(s) + 1) /\ Len(s) - b + 1 = (IF Len(s) > n THEN n ELSE Len(s))
  BY <1>1
<1>3. to = SubSeq(s, b, Len(s))
  BY DEF Newest
<1>. HIDE DEF b, to
<1>4. /\ to \in Seq(S) /\ Len(to) = Len(s) - b + 1
      /\ \A i \in 1..(Len(s) - b + 1) : to[i] = s[b + i - 1]
  <2>1. \A i \in b..Len(s) : s[i] \in S
    BY <1>1, <1>2, ElementOfSeq
  <2>. QED  BY <1>1, <1>2, <1>3, <2>1, SubSeqProperties
<1>5. DOMAIN to = 1..(Len(s) - b + 1)
  BY <1>4, LenProperties
<1>6. Thins(to, s)
  <2> DEFINE f == [i \in DOMAIN to |-> b + i - 1]
  <2>1. \A i \in DOMAIN to : b + i - 1 \in DOMAIN s
    BY <1>1, <1>2, <1>5
  <2>2. f \in [DOMAIN to -> DOMAIN s]
    BY <2>1
  <2>3. \A i, j \in DOMAIN to : to[i] = s[f[i]] /\ (f[i] = f[j] => i = j)
    BY <1>2, <1>4, <1>5
  <2>. QED  BY <2>2, <2>3 DEF Thins
<1>7. Len(s) <= n => to = s
  <2> SUFFICES ASSUME Len(s) <= n PROVE to = s
    OBVIOUS
  <2>1. b = 1
    BY <1>1 DEF b
  <2>2. Len(to) = Len(s) /\ \A i \in 1..Len(s) : to[i] = s[i]
    BY <1>1, <1>4, <2>1
  <2>. QED  BY <1>1, <1>4, <2>2, SeqEqual
<1>. QED  BY <1>2, <1>4, <1>6, <1>7 DEF to

LEMMA WithoutThins ==
    ASSUME NEW S, NEW s \in Seq(S), NEW k \in DOMAIN s
    PROVE  LET to == SubSeq(s, 1, k - 1) \o SubSeq(s, k + 1, Len(s))
           IN  /\ Thins(to, s)
               /\ \A i \in DOMAIN s \ {k} : \E j \in DOMAIN to : to[j] = s[i]
<1> DEFINE a == SubSeq(s, 1, k - 1)
           c == SubSeq(s, k + 1, Len(s))
           to == a \o c
<1>1. Len(s) \in Nat /\ DOMAIN s = 1..Len(s) /\ k \in 1..Len(s)
  BY LenProperties
<1>2. \A i \in 1..Len(s) : s[i] \in S
  BY <1>1, ElementOfSeq
<1>3. /\ a \in Seq(S) /\ Len(a) = k - 1
      /\ \A i \in 1..(k - 1) : a[i] = s[i]
  BY <1>1, <1>2, SubSeqProperties
<1>4. /\ c \in Seq(S) /\ Len(c) = Len(s) - k
      /\ \A i \in 1..(Len(s) - k) : c[i] = s[k + i]
  BY <1>1, <1>2, SubSeqProperties
<1>. HIDE DEF a, c
<1>5. /\ to \in Seq(S) /\ Len(to) = Len(s) - 1
      /\ \A i \in 1..(Len(s) - 1) : to[i] = IF i <= k - 1 THEN s[i] ELSE s[i + 1]
  <2>1. /\ Len(to) = Len(a) + Len(c)
        /\ \A i \in 1..(Len(a) + Len(c)) : to[i] = IF i <= Len(a) THEN a[i] ELSE c[i - Len(a)]
    BY <1>3, <1>4, ConcatProperties
  <2>2. to \in Seq(S)
    BY <1>3, <1>4, ConcatProperties
  <2>3. ASSUME NEW i \in 1..(Len(s) - 1) PROVE to[i] = IF i <= k - 1 THEN s[i] ELSE s[i + 1]
    <3>1. CASE i <= k - 1
      BY <1>1, <1>3, <1>4, <2>1, <3>1
    <3>2. CASE i > k - 1
      <4> DEFINE j == i - (k - 1)
      <4>1. j \in 1..(Len(s) - k) /\ k + j = i + 1 /\ i \in 1..(Len(a) + Len(c)) /\ ~(i <= Len(a))
            /\ i - Len(a) = j
        BY <1>1, <1>3, <1>4, <3>2
      <4>. HIDE DEF j
      <4>2. to[i] = c[j]
        BY <2>1, <4>1
      <4>3. c[j] = s[i + 1]
        <5>1. c[j] = s[k + j]
          BY <1>4, <4>1
        <5>2. k + j = i + 1
          BY <4>1
        <5>. QED  BY <5>1, <5>2
      <4>4. ~(i <= k - 1)
        BY <1>1, <3>2
      <4>. QED  BY <4>2, <4>3, <4>4
    <3>3. i <= k - 1 \/ i > k - 1
      BY <1>1
    <3>. QED  BY <3>1, <3>2, <3>3
  <2>. QED  BY <1>1, <1>3, <1>4, <2>1, <2>2, <2>3
<1>6. DOMAIN to = 1..(Len(s) - 1)
  BY <1>5, LenProperties
<1>. HIDE DEF to
<1> DEFINE f == [i \in DOMAIN to |-> IF i <= k - 1 THEN i ELSE i + 1]
<1>7. f \in [DOMAIN to -> DOMAIN s]
  BY <1>1, <1>6
<1>8. \A i, j \in DOMAIN to : to[i] = s[f[i]] /\ (f[i] = f[j] => i = j)
  BY <1>1, <1>5, <1>6
<1>9. Thins(to, s)
  BY <1>7, <1>8 DEF Thins
<1>10. ASSUME NEW i \in DOMAIN s \ {k} PROVE \E j \in DOMAIN to : to[j] = s[i]
  <2>1. i \in 1..Len(s) /\ i # k
    BY <1>1
  <2>2. CASE i < k
    <3>1. i \in 1..(Len(s) - 1) /\ i <= k - 1
      BY <1>1, <2>1, <2>2
    <3>. QED  BY <1>5, <1>6, <3>1
  <2>3. CASE i > k
    <3>1. i - 1 \in 1..(Len(s) - 1) /\ ~(i - 1 <= k - 1) /\ (i - 1) + 1 = i
      BY <1>1, <2>1, <2>3
    <3>2. to[i - 1] = s[(i - 1) + 1]
      BY <1>5, <3>1
    <3>3. to[i - 1] = s[i]
      BY <3>1, <3>2
    <3>. QED  BY <1>6, <3>1, <3>3
  <2>. QED  BY <1>1, <2>1, <2>2, <2>3
<1>. QED  BY <1>9, <1>10 DEF to, a, c

\* A cancel that is remembered.
LEMMA RememberEarly ==
    ASSUME TypeOK, NEW id \in ReqIds, NEW t \in Turns,
           cancelled_early' = Newest(Append(cancelled_early, id), EarlyCancelCap)
    PROVE  /\ id[1] # t =>
                /\ {cancelled_early'[i] : i \in Early(t)'} \subseteq {cancelled_early[i] : i \in Early(t)}
                /\ (\A i, j \in Early(t) : i = j) => \A i, j \in Early(t)' : i = j
           /\ id[1] = t /\ Early(t) = {} =>
                \A i, j \in Early(t)' : i = j /\ cancelled_early'[i] = id
<1> DEFINE s == Append(cancelled_early, id)
           n == Len(cancelled_early) + 1
<1>1. cancelled_early \in Seq(ReqIds) /\ Len(cancelled_early) \in Nat /\ DOMAIN cancelled_early = 1..Len(cancelled_early)
  BY LenProperties DEF TypeOK
<1>2. /\ s \in Seq(ReqIds) /\ Len(s) = n /\ s[n] = id
      /\ \A i \in 1..Len(cancelled_early) : s[i] = cancelled_early[i]
  BY <1>1, AppendProperties
<1>3. DOMAIN s = 1..n
  BY <1>2, LenProperties
<1>4. Thins(cancelled_early', s)
  BY <1>2, NewestThins, QueueAssumption
<1>5. \A i \in DOMAIN s : i = n \/ (i \in DOMAIN cancelled_early /\ s[i] = cancelled_early[i])
  BY <1>1, <1>2, <1>3
<1>. HIDE DEF s, n
<1>6. PICK f \in [DOMAIN cancelled_early' -> DOMAIN s] :
        \A i, j \in DOMAIN cancelled_early' : cancelled_early'[i] = s[f[i]] /\ (f[i] = f[j] => i = j)
  BY <1>4 DEF Thins
<1>7. \A i \in Early(t)' : /\ i \in DOMAIN cancelled_early' /\ cancelled_early'[i] = s[f[i]]
                           /\ s[f[i]][1] = t /\ f[i] \in DOMAIN s
  BY <1>6 DEF Early
<1>8. ASSUME id[1] # t
      PROVE  \A i \in Early(t)' : f[i] \in Early(t) /\ cancelled_early'[i] = cancelled_early[f[i]]
  BY <1>2, <1>5, <1>7, <1>8 DEF Early
<1>9. ASSUME id[1] = t, Early(t) = {}
      PROVE  \A i \in Early(t)' : f[i] = n /\ cancelled_early'[i] = id
  BY <1>2, <1>5, <1>7, <1>9 DEF Early
<1>. QED  BY <1>6, <1>7, <1>8, <1>9

\* The effect of a cancel on another turn, and on the one it is for.
LEMMA CancelKeeps ==
    ASSUME Wired, TypeOK, Placed, NEW id \in ReqIds, CancelUnknown(id) \/ CancelFound(id),
           UNCHANGED <<pc, request, aborted, spawned>>,
           NEW t \in Turns, Flow(t), Cancelling(t), Bystander(t),
           IF id[1] = t
           THEN Sent(t, "cancel") # {} /\ id = request[t] /\ Sent(t, "cancel")' = {} /\ Once(t, "cancel")'
           ELSE Sent(t, "cancel")' = Sent(t, "cancel") /\ (Once(t, "cancel") => Once(t, "cancel")')
    PROVE  Flow(t)' /\ Cancelling(t)'
<1>1. UNCHANGED queue
  BY DEF CancelUnknown, CancelFound
<1>2. Flow(t)'
  BY <1>1, NothingLeaves, LeavingSheds, FlowKept
<1>3. call' = call
  BY <1>1 DEF queue
<1>4. CASE CancelUnknown(id)
  <2>1. /\ cancelled_early' = Newest(Append(cancelled_early, id), EarlyCancelCap)
        /\ cancelling' = NoId
    BY <1>4 DEF CancelUnknown
  <2>2. CASE id[1] # t
    <3>1. Uncut(t)
      BY <2>1, <2>2, RememberEarly DEF Uncut, Cutting
    <3>. QED  BY <1>2, <1>3, <3>1, CancellingKept
  <2>3. CASE id[1] = t
    <3>1. Early(t) = {} /\ aborted[t]
      BY <2>3 DEF Cancelling
    <3>2. \A i, j \in Early(t)' : i = j /\ cancelled_early'[i] = id
      BY <2>1, <2>3, <3>1, RememberEarly
    <3>. QED  BY <1>2, <2>1, <2>3, <3>1, <3>2 DEF Cancelling, Cutting
  <2>. QED  BY <2>2, <2>3
<1>5. CASE CancelFound(id)
  <2>1. id \in DOMAIN tickets /\ cancelling' = id /\ cancelled_early' = cancelled_early
    BY <1>5 DEF CancelFound
  <2>2. Early(t)' = Early(t) /\ {cancelled_early'[i] : i \in Early(t)'} = {cancelled_early[i] : i \in Early(t)}
    BY <2>1, SameEarly
  <2>3. CASE id[1] # t
    <3>1. Uncut(t)
      BY <2>1, <2>2, <2>3 DEF Uncut, Cutting
    <3>. QED  BY <1>2, <1>3, <3>1, CancellingKept
  <2>4. CASE id[1] = t
    <3>1. Early(t) = {} /\ aborted[t] /\ call[id] # "none"
      BY <2>1, <2>4 DEF Cancelling, Placed
    <3>. QED  BY <1>2, <1>3, <2>1, <2>2, <2>4, <3>1 DEF Cancelling
  <2>. QED  BY <2>3, <2>4
<1>. QED  BY <1>4, <1>5

\* A release of another turn, and one of this turn.
LEMMA ReleaseKeeps ==
    ASSUME Wired, TypeOK, NEW id \in ReqIds, NEW reserve \in BOOLEAN, release_with(id, reserve),
           UNCHANGED <<pc, request, aborted, spawned>>,
           NEW t \in Turns, Flow(t), Cancelling(t),
           Sent(t, "cancel")' = Sent(t, "cancel"), Once(t, "cancel") => Once(t, "cancel")',
           id[1] # t => Bystander(t),
           id[1] = t => /\ \E m \in Sent(t, "release") : m.id = id
                        /\ Sent(t, "acquire")' = Sent(t, "acquire")
                        /\ Once(t, "acquire") => Once(t, "acquire")'
                        /\ Once(t, "release") => Sent(t, "release")' = {} /\ Once(t, "release")'
                        /\ ReleaseFirst(t) => ReleaseFirst(t)'
                        /\ ResetFirst(t) /\ Once(t, "acquire") => ResetFirst(t)'
                        /\ Resets(TurnWindow[t]) = {} => Resets(TurnWindow[t])' = {}
    PROVE  Flow(t)' /\ Cancelling(t)'
<1>1. /\ TicketsLeave({id})
      /\ DOMAIN reservations' \subseteq DOMAIN reservations \cup {id}
      /\ UNCHANGED <<cancelled_early, cancelling>>
  <2>1. TicketsLeave({id}) /\ DOMAIN reservations' \subseteq DOMAIN reservations \cup {id}
    BY ReleaseEffect DEF ReservationsEnd
  <2>. QED  BY <2>1 DEF release_with
<1>2. \A i \in ReqIds : CallsGoOn(i) /\ (i \in DOMAIN tickets' => i \in DOMAIN tickets /\ i # id)
  BY <1>1 DEF TicketsLeave
<1>3. Cancelling(t)'
  <2>1. Uncut(t)
    BY <1>1, SameEarly DEF Uncut
  <2>. QED  BY <1>2, <2>1, CancellingKept DEF CallsGoOn
<1>4. CASE id[1] # t
  <2>1. Sheds(t)
    BY <1>1, <1>2, <1>4 DEF Sheds
  <2>. QED  BY <1>3, <1>4, <2>1, FlowKept
<1>5. CASE id[1] = t
  <2> SUFFICES ASSUME pc[t] # "gone"
               PROVE  (Asking(t) /\ Earlier(t) /\ Later(t) /\ Releasing(t) /\ Resetting(t))'
    BY <1>3 DEF Flow
  <2>1. Asking(t) /\ Earlier(t) /\ Later(t) /\ Releasing(t) /\ Resetting(t)
    BY DEF Flow
  <2>2. pc[t] \in Live \cup {"idle", "done"}
    BY DEF Wired
  <2>3. PICK m \in Sent(t, "release") : m.id = id
    BY <1>5
  <2>4. Spawned(t)' = Spawned(t)
    BY DEF Spawned
  <2>5. pc[t] \in Live \cup {"done"} => request[t] \in ReqIds
    BY RequestOf
  <2>6. pc[t] # "done" => /\ pc[t] \in {"released", "returning"}
                          /\ id = (IF pc[t] = "released" THEN request[t] ELSE Previous(t))
                          /\ Sent(t, "release")' = {} /\ Once(t, "release")'
    BY <1>5, <2>1, <2>3 DEF Releasing
  <2>7. Asking(t)'
    BY <1>2, <1>5, <2>1, <2>2, <2>4, <2>5 DEF Asking, CallsGoOn, Resolved, Live
  <2>8. Earlier(t)'
    BY <1>2, <1>5, <2>1, <2>6 DEF Earlier, CallsGoOn, Previous
  <2>9. Later(t)'
    <3>1. CASE pc[t] = "done"
      BY <3>1 DEF Later
    <3>2. CASE pc[t] # "done"
      <4>1. request[t] # NoId /\ request[t] = <<t, request[t][2]>> /\ request[t][2] \in Nat
        BY <2>6, <3>2, RequestOf, QueueAssumption DEF Live
      <4>2. id[2] = request[t][2] \/ id[2] = request[t][2] - 1
        BY <2>6, <3>2 DEF Previous
      <4>3. ~(id[2] > request[t][2])
        BY <4>1, <4>2
      <4>. QED  BY <1>1, <1>2, <2>1, <3>2, <4>1, <4>3 DEF Later, CallsGoOn
    <3>. QED  BY <3>1, <3>2
  <2>10. Releasing(t)'
    BY <1>2, <2>6 DEF Releasing
  <2>11. Resetting(t)'
    BY <1>5, <2>1 DEF Resetting, Asking
  <2>. QED  BY <2>7, <2>8, <2>9, <2>10, <2>11
<1>. QED  BY <1>4, <1>5

\* When the host takes up a turn's acquire, the turn has nothing to release.
LEMMA TakesAcquire ==
    ASSUME Wired, NEW t \in Turns, NEW w \in Windows, TurnWindow[t] = w, inbox[w] # <<>>, ReleaseFirst(t),
           Head(inbox[w]).op = "acquire", Head(inbox[w]).id[1] = t
    PROVE  Sent(t, "release") = {}
<1>1. Box(t) = inbox[w] /\ Len(inbox[w]) \in Nat \ {0} /\ Head(inbox[w]) = inbox[w][1]
  BY HeadTypes DEF Box
<1>2. DOMAIN Box(t) = 1..Len(inbox[w])
  BY <1>1, BoxTypes
<1>3. 1 \in Of(t, "acquire")
  BY <1>1, <1>2 DEF Of
<1>4. ASSUME NEW j \in Of(t, "release") PROVE FALSE
  <2>1. j < 1 /\ j \in 1..Len(inbox[w])
    BY <1>2, <1>3 DEF ReleaseFirst, Of
  <2>. QED  BY <1>1, <2>1
<1>. QED  BY <1>4 DEF Sent

LEMMA DispatchKeeps ==
    ASSUME Wired, TypeOK, Addressed, Placed, NEW w \in Windows, Dispatch(w),
           NEW t \in Turns, Flow(t), Cancelling(t)
    PROVE  Flow(t)' /\ Cancelling(t)'
<1>0. PICK m \in Commands : m = Head(inbox[w])
  BY HeadTypes DEF Dispatch
<1>1. /\ inbox[w] # <<>> /\ Handle(m) /\ inbox' = [inbox EXCEPT ![w] = Tail(@)]
      /\ spawned' = IF m.op = "acquire" THEN spawned \cup {m} ELSE spawned
      /\ UNCHANGED <<pc, request, aborted>>
  BY <1>0 DEF Dispatch
<1> DEFINE mine == m.op # "release_window" /\ m.id[1] = t
<1>3. /\ ~mine => SameView(t)
      /\ mine => /\ m \in Sent(t, m.op)
                 /\ \A op \in Ops \ {m.op} : Sent(t, op)' = Sent(t, op) /\ (Once(t, op) => Once(t, op)')
                 /\ Once(t, m.op) => Sent(t, m.op)' = {} /\ Once(t, m.op)'
                 /\ ReleaseFirst(t) => ReleaseFirst(t)'
                 /\ ResetFirst(t) /\ Once(t, "acquire") => ResetFirst(t)'
                 /\ m.op = "acquire" /\ Once(t, "acquire") /\ ReleaseFirst(t) => Sent(t, "release") = {}
      /\ Resets(TurnWindow[t]) = {} => Resets(TurnWindow[t])' = {}
  <2>1. ~mine => SameView(t)
    BY <1>0, <1>1, TakeView
  <2>2. Resets(w) = {} => Resets(w)' = {}
    BY <1>0, <1>1, TakeView
  <2>3. \A v \in Windows \ {w} : Resets(v)' = Resets(v)
    BY <1>0, <1>1, TakeView
  <2>4. Resets(TurnWindow[t]) = {} => Resets(TurnWindow[t])' = {}
    BY <2>2, <2>3, TurnsAssumption
  <2>5. mine => m \in Sent(t, m.op)
    BY <1>0, <1>1, TakeView
  <2>6. mine => \A op \in Ops \ {m.op} : Sent(t, op)' = Sent(t, op) /\ (Once(t, op) => Once(t, op)')
    BY <1>0, <1>1, TakeView
  <2>7. mine => (Once(t, m.op) => Sent(t, m.op)' = {} /\ Once(t, m.op)')
    BY <1>0, <1>1, TakeView
  <2>8. mine => (ReleaseFirst(t) => ReleaseFirst(t)')
    BY <1>0, <1>1, TakeView
  <2>9. mine => (ResetFirst(t) /\ Once(t, "acquire") => ResetFirst(t)')
    BY <1>0, <1>1, TakeView
  <2>10. ASSUME mine, m.op = "acquire", ReleaseFirst(t) PROVE Sent(t, "release") = {}
    <3>1. TurnWindow[t] = w
      <4>1. 1 \in DOMAIN inbox[w] /\ m = inbox[w][1]
        BY <1>0, <1>1, HeadTypes, BoxTypes
      <4>. QED  BY <2>10, <4>1 DEF Addressed
    <3>. QED  BY <1>0, <1>1, <2>10, <3>1, TakesAcquire
  <2>. QED  BY <2>1, <2>4, <2>5, <2>6, <2>7, <2>8, <2>9, <2>10
<1>4. m.op # "acquire" => Spawned(t)' = Spawned(t)
  BY <1>1 DEF Spawned
<1>5. ASSUME ~mine PROVE m.op # "acquire" \/ m.id[1] # t => Bystander(t)
  <2>1. m.id[1] # t => Spawned(t)' = Spawned(t)
    BY <1>1 DEF Spawned
  <2>. QED  BY <1>1, <1>3, <1>4, <1>5, <2>1 DEF Bystander, SameView, Ops
<1>6. CASE m \in Acquires
  <2>0. m.op = "acquire" /\ m.op # "release_window" /\ m.id[1] = t <=> mine
    BY <1>6 DEF Acquires
  <2>1. UNCHANGED vars
    BY <1>1, <1>6 DEF Handle, Acquires
  <2>2. SameEntries
    BY <2>1 DEF SameEntries, vars, queue
  <2>3. CASE ~mine
    <3>1. Bystander(t)
      BY <1>5, <1>6, <2>3 DEF Acquires
    <3>2. Cancelling(t)'
      BY <1>1, <1>3, <2>2, <2>3, OwnUncut DEF SameView, Ops
    <3>. QED  BY <2>2, <3>1, <3>2, SameShed, FlowKept
  <2>4. CASE mine
    <3>1. m.op = "acquire"
      BY <1>6 DEF Acquires
    <3>2. \A op \in {"release", "cancel"} : Sent(t, op)' = Sent(t, op) /\ (Once(t, op) => Once(t, op)')
      BY <1>3, <2>4, <3>1 DEF Ops
    <3>3. Cancelling(t)'
      BY <1>1, <2>2, <3>2, OwnUncut
    <3> SUFFICES ASSUME pc[t] # "gone"
                 PROVE  (Asking(t) /\ Earlier(t) /\ Later(t) /\ Releasing(t) /\ Resetting(t))'
      BY <1>1, <3>3 DEF Flow
    <3>4. Asking(t) /\ Earlier(t) /\ Later(t) /\ Releasing(t) /\ Resetting(t)
      BY DEF Flow
    <3>5. m \in Sent(t, "acquire") /\ Spawned(t) = {} /\ Sent(t, "acquire")' = {} /\ Once(t, "acquire")'
          /\ Sent(t, "release") = {} /\ ReleaseFirst(t)'
      BY <1>3, <2>4, <3>1, <3>4 DEF Asking
    <3>6. Spawned(t)' = {m}
      BY <1>1, <2>4, <3>1, <3>5 DEF Spawned
    <3>7. Asking(t)'
      BY <1>1, <2>2, <3>4, <3>5, <3>6 DEF Asking, SameEntries
    <3>8. Earlier(t)' /\ Later(t)'
      BY <1>1, <2>2, <3>2, <3>4 DEF Earlier, Later, Previous, SameEntries
    <3>9. Releasing(t)'
      BY <1>1, <2>2, <3>2, <3>4, <3>5 DEF Releasing, Previous, SameEntries
    <3>10. Resetting(t)'
      BY <1>1, <1>3, <2>4, <3>4 DEF Resetting, Asking
    <3>. QED  BY <3>7, <3>8, <3>9, <3>10
  <2>. QED  BY <2>3, <2>4
<1>7. CASE m \in Cancels
  <2>1. m.id \in ReqIds /\ m.op = "cancel" /\ (m.id[1] = t <=> mine)
    BY <1>7 DEF Cancels
  <2>2. CancelUnknown(m.id) \/ CancelFound(m.id)
    BY <1>1, <2>1 DEF Handle
  <2>3. UNCHANGED <<pc, request, aborted, spawned>>
    BY <1>1, <2>1
  <2>4. mine => /\ m \in Sent(t, "cancel") /\ m.id = request[t]
                /\ Sent(t, "cancel")' = {} /\ Once(t, "cancel")'
    BY <1>3, <2>1 DEF Cancelling
  <2>5. ~mine => Sent(t, "cancel")' = Sent(t, "cancel") /\ (Once(t, "cancel") => Once(t, "cancel")')
    BY <1>3 DEF SameView, Ops
  <2>6. Bystander(t)
    <3>1. CASE ~mine
      BY <1>5, <2>1, <3>1
    <3>2. CASE mine
      <4>1. \A op \in {"acquire", "release"} : Sent(t, op)' = Sent(t, op) /\ (Once(t, op) => Once(t, op)')
        BY <1>3, <2>1, <3>2 DEF Ops
      <4>2. pc[t] \in Live => Once(t, "acquire")
        BY DEF Flow, Asking, Live
      <4>. QED  BY <1>3, <1>4, <2>1, <2>3, <3>2, <4>1, <4>2 DEF Bystander
    <3>. QED  BY <3>1, <3>2
  <2>. QED  BY <2>1, <2>2, <2>3, <2>4, <2>5, <2>6, CancelKeeps
<1>8. CASE m \in Releases
  <2>1. m.id \in ReqIds /\ m.op = "release" /\ m.reserve \in BOOLEAN /\ (m.id[1] = t <=> mine)
    BY <1>8 DEF Releases
  <2>2. release_with(m.id, m.reserve)
    BY <1>1, <2>1 DEF Handle
  <2>3. UNCHANGED <<pc, request, aborted, spawned>>
    BY <1>1, <2>1
  <2>4. Sent(t, "cancel")' = Sent(t, "cancel") /\ (Once(t, "cancel") => Once(t, "cancel")')
    BY <1>3, <2>1 DEF SameView, Ops
  <2>5. ~mine => Bystander(t)
    BY <1>5, <2>1
  <2>6. mine => /\ \E r \in Sent(t, "release") : r.id = m.id
                /\ Sent(t, "acquire")' = Sent(t, "acquire")
                /\ Once(t, "acquire") => Once(t, "acquire")'
                /\ Once(t, "release") => Sent(t, "release")' = {} /\ Once(t, "release")'
                /\ ReleaseFirst(t) => ReleaseFirst(t)'
                /\ ResetFirst(t) /\ Once(t, "acquire") => ResetFirst(t)'
    BY <1>3, <2>1 DEF Ops
  <2>. QED  BY <1>3, <2>1, <2>2, <2>3, <2>4, <2>5, <2>6, ReleaseKeeps
<1>9. CASE m \in WindowReleases
  <2>1. m.window \in Windows /\ m.op = "release_window" /\ ~mine
    BY <1>9 DEF WindowReleases
  <2>2. release_window(m.window)
    BY <1>1, <2>1 DEF Handle
  <2>3. Bystander(t)
    BY <1>5, <2>1
  <2>4. Sheds(t) /\ UNCHANGED <<cancelled_early, cancelling>>
    BY <2>1, <2>2, ReleaseWindowEffect, LeavingSheds
  <2>5. Uncut(t)
    BY <1>1, <1>3, <2>1, <2>4, SameEarly DEF Uncut, SameView, Ops
  <2>6. \A id \in ReqIds : id[1] = t /\ call'[id] = "none" => call[id] = "none"
    BY <2>4 DEF Sheds, CallsGoOn
  <2>. QED  BY <2>3, <2>4, <2>5, <2>6, FlowKept, CancellingKept
<1>. QED  BY <1>6, <1>7, <1>8, <1>9 DEF Commands

\* A call that is refused, its cancel being used up.
LEMMA RefuseEffect ==
    ASSUME TypeOK, NEW id \in ReqIds, enqueue_cancelled(id)
    PROVE  /\ call[id] = "none" /\ call'[id] = "refused"
           /\ \A other \in ReqIds \ {id} : call'[other] = call[other]
           /\ UNCHANGED <<tickets, reservations, cancelling>>
           /\ Thins(cancelled_early', cancelled_early)
           /\ \E i \in DOMAIN cancelled_early : cancelled_early[i] = id
           /\ \A i \in DOMAIN cancelled_early :
                cancelled_early[i] # id => \E j \in DOMAIN cancelled_early' : cancelled_early'[j] = cancelled_early[i]
<1>1. cancelled_early \in Seq(ReqIds) /\ call \in [ReqIds -> CallState]
  BY DEF TypeOK
<1>2. PICK i \in DOMAIN cancelled_early :
        /\ cancelled_early[i] = id
        /\ cancelled_early' = SubSeq(cancelled_early, 1, i - 1)
                                \o SubSeq(cancelled_early, i + 1, Len(cancelled_early))
  BY DEF enqueue_cancelled
<1>3. /\ Thins(cancelled_early', cancelled_early)
      /\ \A j \in DOMAIN cancelled_early \ {i} : \E k \in DOMAIN cancelled_early' : cancelled_early'[k] = cancelled_early[j]
  BY <1>1, <1>2, WithoutThins
<1>4. /\ call[id] = "none" /\ call' = [call EXCEPT ![id] = "refused"]
      /\ UNCHANGED <<tickets, reservations, cancelling>>
  BY DEF enqueue_cancelled
<1>. QED  BY <1>1, <1>2, <1>3, <1>4

\* An acquire's body runs: it enters the queue or is refused.
LEMMA RunEffect ==
    ASSUME Wired, TypeOK, NEW m \in spawned, RunAcquire(m)
    PROVE  /\ m \in Acquires /\ m.id \in ReqIds /\ m.id[1] \in Turns
           /\ UNCHANGED <<pc, request, aborted, inbox, losses, suspends, cancelling>>
           /\ spawned' = spawned \ {m}
           /\ call[m.id] = "none" /\ call'[m.id] \in {"waiting", "woken", "refused"}
           /\ \A id \in ReqIds \ {m.id} : CallsGoOn(id)
           /\ DOMAIN tickets' \subseteq DOMAIN tickets \cup {m.id}
           /\ DOMAIN reservations' \subseteq DOMAIN reservations
           /\ Thins(cancelled_early', cancelled_early)
<1>1. m \in Acquires /\ m.id \in ReqIds
  BY DEF Wired, Acquires
<1>2. UNCHANGED <<pc, request, aborted, inbox, losses, suspends>> /\ spawned' = spawned \ {m}
  BY DEF RunAcquire
<1>3. m.id[1] \in Turns
  BY <1>1, IdShape
<1>4. CASE enqueue_with(m.id, TurnLane[m.id[1]], m.max_parallel, TurnWindow[m.id[1]],
                        m.replaces # NoId, TurnPriority[m.id[1]], m.replaces)
  <2>1. Thins(cancelled_early', cancelled_early)
    <3>1. cancelled_early' = cancelled_early
      BY <1>1, <1>4, EnterEffect
    <3> DEFINE f == [i \in DOMAIN cancelled_early |-> i]
    <3>2. f \in [DOMAIN cancelled_early' -> DOMAIN cancelled_early]
      BY <3>1
    <3>3. \A i, j \in DOMAIN cancelled_early' : cancelled_early'[i] = cancelled_early[f[i]] /\ (f[i] = f[j] => i = j)
      BY <3>1
    <3>. QED  BY <3>2, <3>3 DEF Thins
  <2>2. /\ call[m.id] = "none" /\ call'[m.id] \in {"waiting", "woken"}
        /\ \A id \in ReqIds \ {m.id} : CallsGoOn(id)
        /\ DOMAIN tickets' = DOMAIN tickets \cup {m.id}
        /\ ReservationsEnd({m.replaces}) /\ cancelling' = cancelling
    BY <1>1, <1>4, EnterEffect
  <2>. QED  BY <1>1, <1>2, <1>3, <2>1, <2>2 DEF ReservationsEnd
<1>5. CASE enqueue_cancelled(m.id)
  BY <1>1, <1>2, <1>3, <1>5, RefuseEffect DEF CallsGoOn
<1>. QED  BY <1>4, <1>5 DEF RunAcquire

LEMMA AcquireKeeps ==
    ASSUME Wired, TypeOK, NEW m \in spawned, RunAcquire(m), NEW t \in Turns, Flow(t), Cancelling(t)
    PROVE  Flow(t)' /\ Cancelling(t)'
<1>1. /\ m \in Acquires /\ m.id \in ReqIds /\ m.id[1] \in Turns
      /\ UNCHANGED <<pc, request, aborted, inbox, losses, suspends, cancelling>>
      /\ spawned' = spawned \ {m}
      /\ call[m.id] = "none" /\ call'[m.id] \in {"waiting", "woken", "refused"}
      /\ \A id \in ReqIds \ {m.id} : CallsGoOn(id)
      /\ DOMAIN tickets' \subseteq DOMAIN tickets \cup {m.id}
      /\ DOMAIN reservations' \subseteq DOMAIN reservations
      /\ Thins(cancelled_early', cancelled_early)
  BY RunEffect
<1>2. /\ \A op : Of(t, op)' = Of(t, op) /\ Sent(t, op)' = Sent(t, op) /\ (Once(t, op) => Once(t, op)')
      /\ Resets(TurnWindow[t])' = Resets(TurnWindow[t])
      /\ (ReleaseFirst(t) => ReleaseFirst(t)') /\ (ResetFirst(t) => ResetFirst(t)')
  BY <1>1 DEF Of, Sent, Once, Box, Resets, ReleaseFirst, ResetFirst
<1>3. Cancelling(t)'
  <2>1. Uncut(t)
    BY <1>1, <1>2, ThinsEarly DEF Uncut
  <2>. QED  BY <1>1, <2>1, CancellingKept DEF CallsGoOn
<1>4. CASE m.id[1] # t
  <2>1. Spawned(t)' = Spawned(t)
    BY <1>1, <1>4 DEF Spawned
  <2>2. Bystander(t)
    BY <1>1, <1>2, <2>1 DEF Bystander
  <2>3. Sheds(t)
    BY <1>1, <1>4 DEF Sheds
  <2>. QED  BY <1>3, <2>2, <2>3, FlowKept
<1>5. CASE m.id[1] = t
  <2> SUFFICES ASSUME pc[t] # "gone"
               PROVE  (Asking(t) /\ Earlier(t) /\ Later(t) /\ Releasing(t) /\ Resetting(t))'
    BY <1>1, <1>3 DEF Flow
  <2>1. Asking(t) /\ Earlier(t) /\ Later(t) /\ Releasing(t) /\ Resetting(t)
    BY DEF Flow
  <2>2. /\ m.id = request[t] /\ Spawned(t) = {m} /\ Sent(t, "acquire") = {}
        /\ pc[t] \in {"acquiring", "returning"} /\ Sent(t, "release") = {}
    <3>1. m \in Spawned(t)
      BY <1>5 DEF Spawned
    <3>. QED  BY <2>1, <3>1 DEF Asking, Releasing
  <2>3. Spawned(t)' = {}
    BY <1>1, <2>2 DEF Spawned
  <2>4. Asking(t)'
    BY <1>1, <1>2, <2>1, <2>2, <2>3 DEF Asking
  <2>5. ASSUME NEW id \in ReqIds, id # request[t]
        PROVE  CallsGoOn(id) /\ (id \in DOMAIN tickets' => id \in DOMAIN tickets)
    BY <1>1, <2>2, <2>5
  <2>6. request[t][2] \in Nat
    BY <2>2, RequestOf DEF Live
  <2>7. Earlier(t)'
    <3> SUFFICES ASSUME NEW id \in ReqIds, id[1] = t, request[t] # NoId, id[2] < request[t][2]
                 PROVE  call'[id] = "admitted" /\ id \notin DOMAIN tickets'
      BY <1>1 DEF Earlier
    <3>1. id # request[t]
      BY <2>6
    <3>. QED  BY <2>1, <2>2, <2>5, <3>1 DEF Earlier, CallsGoOn
  <2>8. Later(t)'
    <3> SUFFICES ASSUME NEW id \in ReqIds, id[1] = t, id[2] > request[t][2]
                 PROVE  call'[id] = "none" /\ id \notin DOMAIN tickets' /\ id \notin DOMAIN reservations'
      BY <1>1, <2>2, QueueAssumption DEF Later
    <3>1. id # request[t]
      BY <2>6
    <3>2. call[id] = "none" /\ id \notin DOMAIN tickets /\ id \notin DOMAIN reservations
      BY <2>1, <2>2 DEF Later
    <3>. QED  BY <1>1, <2>5, <3>1, <3>2 DEF CallsGoOn
  <2>9. Releasing(t)'
    BY <1>1, <1>2, <2>1, <2>2 DEF Releasing
  <2>10. Resetting(t)'
    BY <1>1, <1>2, <2>1 DEF Resetting
  <2>. QED  BY <2>4, <2>7, <2>8, <2>9, <2>10
<1>. QED  BY <1>4, <1>5

LEMMA OrderedStep ==
    ASSUME Ordered, TypeOK', NoLostWakeup', [TurnsNext]_allVars
    PROVE  Ordered'
<1>. USE DEF Ordered
<1>1. Wired'
  BY WiredStep
<1>2. Addressed'
  BY AddressedStep
<1>3. Placed'
  BY PlacedStep
<1>4. \A u \in Turns : Flow(u)' /\ Cancelling(u)'
  <2>1. ASSUME NEW t \in Turns, TurnStep(t) PROVE \A u \in Turns : Flow(u)' /\ Cancelling(u)'
    BY <2>1, TurnKeeps
  <2>2. ASSUME NEW w \in Windows, Dispatch(w) PROVE \A u \in Turns : Flow(u)' /\ Cancelling(u)'
    BY <2>2, DispatchKeeps
  <2>3. ASSUME NEW w \in Windows, Reload(w) \/ Close(w) PROVE \A u \in Turns : Flow(u)' /\ Cancelling(u)'
    BY <2>3, LossKeeps
  <2>4. ASSUME NEW m \in spawned, RunAcquire(m) PROVE \A u \in Turns : Flow(u)' /\ Cancelling(u)'
    BY <2>4, AcquireKeeps
  <2>5. CASE HostStep \/ Tick \/ Suspend
    BY <2>5, HostKeeps
  <2>6. CASE UNCHANGED allVars
    <3>1. SameEntries /\ UNCHANGED <<pc, request, aborted, inbox, spawned, cancelled_early, cancelling>>
      BY <2>6 DEF allVars, clientVars, vars, queue, SameEntries
    <3>. QED  BY <3>1, SameShed, QuietStep
  <2>. QED  BY <2>1, <2>2, <2>3, <2>4, <2>5, <2>6 DEF TurnsNext
<1>. QED  BY <1>1, <1>2, <1>3, <1>4

LEMMA OrderedInit == TurnsInit /\ TypeOK /\ NoLostWakeup => Ordered
<1> SUFFICES ASSUME TurnsInit, TypeOK, NoLostWakeup PROVE Ordered
  OBVIOUS
<1>1. Wired
  BY WiredInit
<1>2. /\ pc = [t \in Turns |-> "idle"] /\ request = [t \in Turns |-> NoId]
      /\ aborted = [t \in Turns |-> FALSE] /\ inbox = [w \in Windows |-> <<>>] /\ spawned = {}
      /\ DOMAIN tickets = {} /\ DOMAIN reservations = {} /\ cancelled_early = <<>>
      /\ call = [id \in ReqIds |-> "none"] /\ cancelling = NoId
  BY DEF TurnsInit, Init, NoEntries
<1>3. \A w \in Windows : DOMAIN inbox[w] = {}
  BY <1>2
<1>4. Addressed /\ Placed
  BY <1>2, <1>3 DEF Addressed, Placed
<1>5. ASSUME NEW t \in Turns PROVE Flow(t) /\ Cancelling(t)
  <2>1. /\ \A op : Of(t, op) = {} /\ Sent(t, op) = {}
        /\ Resets(TurnWindow[t]) = {} /\ Spawned(t) = {} /\ Early(t) = {}
    BY <1>2, <1>3, TurnsAssumption DEF Of, Sent, Box, Resets, Spawned, Early
  <2>2. Asking(t) /\ Earlier(t) /\ Later(t)
    BY <1>2, <2>1 DEF Asking, Once, ReleaseFirst, Earlier, Later
  <2>3. Releasing(t) /\ Resetting(t)
    BY <1>2, <2>1 DEF Releasing, Once, Resetting, Live
  <2>4. Cancelling(t)
    BY <1>2, <2>1 DEF Cancelling, Once, Cutting
  <2>. QED  BY <2>2, <2>3, <2>4 DEF Flow
<1>. QED  BY <1>1, <1>4, <1>5 DEF Ordered

LEMMA OrderedAlways == TurnsSpec => []Ordered
<1>1. TurnsSpec => []TypeOK /\ []NoLostWakeup
  BY TurnsUseTheQueue, TypeCorrect, NobodyForgotten, PTL
<1>. QED  BY <1>1, OrderedInit, OrderedStep, PTL DEF TurnsSpec

-----------------------------------------------------------------------------
(* What a turn that is over leaves behind. *)

\* Each of its tickets has a release on its way, of the ticket or its window.
Leaving(t) ==
    pc[t] = "done" =>
        \A id \in DOMAIN tickets : id[1] = t =>
            \/ Resets(TurnWindow[t]) # {}
            \/ \E m \in Sent(t, "release") : m.id = id

LEMMA LeavingKept ==
    ASSUME NEW t \in Turns, Leaving(t), pc'[t] = "done" => pc[t] = "done",
           \A id \in DOMAIN tickets' : id[1] = t => id \in DOMAIN tickets,
           Sent(t, "release") \subseteq Sent(t, "release")',
           Resets(TurnWindow[t]) # {} => Resets(TurnWindow[t])' # {}
    PROVE  Leaving(t)'
BY DEF Leaving

LEMMA LeavingFinish ==
    ASSUME Ordered, NEW t \in Turns, pc[t] \in Live, Finish(t), call[request[t]] \in Resolved
    PROVE  Leaving(t)'
<1>. USE DEF Ordered
<1>1. request[t] \in ReqIds /\ request[t] = <<t, request[t][2]>> /\ request[t][2] \in Nat /\ request[t] # NoId
  BY RequestOf, QueueAssumption
<1>2. ReleaseOf(request[t], FALSE) \in Sent(t, "release")'
  <2>1. ReleaseOf(request[t], FALSE) \in Commands
    BY <1>1, CommandTypes DEF Commands
  <2>2. ReleaseOf(request[t], FALSE).op = "release" /\ ReleaseOf(request[t], FALSE).id = request[t]
    BY DEF ReleaseOf
  <2>0. Wired
    OBVIOUS
  <2> HIDE DEF Ordered
  <2>3. PICK m \in Commands : m = ReleaseOf(request[t], FALSE)
    BY <2>1
  <2>4. Sent(t, m.op)' = Sent(t, m.op) \cup {m}
    <3>1. Send(t, m) /\ m.op \in Ops /\ m.id[1] = t
      <4>1. request[t][1] = t
        BY <2>0, RequestOf
      <4>2. m.id = request[t] /\ m.op = "release" /\ Send(t, m)
        BY <2>2, <2>3 DEF Finish
      <4>. QED  BY <4>1, <4>2 DEF Ops
    <3>. QED  BY <2>0, <3>1, OwnSend
  <2>5. request' = request /\ m.op = "release"
    BY <2>2, <2>3 DEF Finish
  <2>6. m \in Sent(t, "release")'
    BY <2>4, <2>5
  <2>. QED  BY <2>3, <2>5, <2>6
<1>3. \A id \in DOMAIN tickets' : id[1] = t => id = request[t]
  <2> SUFFICES ASSUME NEW id \in DOMAIN tickets, id[1] = t PROVE id = request[t]
    BY DEF Finish, vars, queue
  <2>1. id \in ReqIds /\ id = <<t, id[2]>> /\ id[2] \in Nat
    <3>1. id \in ReqIds
      BY DEF TypeOK
    <3>. QED  BY <3>1, IdShape
  <2>2. Asking(t) /\ Earlier(t) /\ Later(t) /\ Releasing(t)
    BY DEF Flow, Live
  <2>3. ~(pc[t] = "returning" /\ Sent(t, "release") # {})
    BY <2>2 DEF Asking, Releasing, Resolved
  <2>4. ~(id[2] < request[t][2])
    BY <1>1, <2>1, <2>2, <2>3 DEF Earlier
  <2>5. ~(id[2] > request[t][2])
    BY <2>1, <2>2 DEF Later, Live
  <2>6. id[2] = request[t][2]
    BY <1>1, <2>1, <2>4, <2>5
  <2>. QED  BY <1>1, <2>1, <2>6
<1>4. ReleaseOf(request[t], FALSE).id = request[t] /\ request' = request
  BY DEF ReleaseOf, Finish
<1>5. \A id \in DOMAIN tickets' : id[1] = t => \E m \in Sent(t, "release")' : m.id = id
  BY <1>2, <1>3, <1>4
<1>. QED  BY <1>5 DEF Leaving

LEMMA LeavingTurn ==
    ASSUME Ordered, NEW u \in Turns, TurnStep(u), NEW t \in Turns, Leaving(t)
    PROVE  Leaving(t)'
<1>. USE DEF Ordered
<1>1. SameEntries
  BY TurnFrame
<1>2. CASE u # t
  <2>1. Bystander(t)
    BY <1>2, OthersStay
  <2>2. Resets(TurnWindow[t])' = Resets(TurnWindow[t])
    <3>1. inbox' = inbox \/ \E m \in Commands : Send(u, m) /\ m.op \in Ops /\ m.id[1] = u
      BY TurnFrame
    <3>2. CASE inbox' = inbox
      BY <3>2 DEF Resets
    <3>3. CASE inbox' # inbox
      BY <3>1, <3>3, SendView
    <3>. QED  BY <3>2, <3>3
  <2>3. pc'[t] = pc[t] /\ Sent(t, "release")' = Sent(t, "release")
    BY <2>1 DEF Bystander
  <2>4. DOMAIN tickets' = DOMAIN tickets
    BY <1>1 DEF SameEntries
  <2> HIDE DEF Ordered
  <2>. QED  BY <2>2, <2>3, <2>4, LeavingKept
<1>3. CASE u = t /\ (NotAdmitted(t) \/ Return(t))
  <2>1. CASE NotAdmitted(t)
    BY <2>1, LeavingFinish DEF NotAdmitted, Live, Resolved
  <2>2. CASE Return(t)
    <3>1. Flow(t)
      OBVIOUS
    <3>2. call[request[t]] = "admitted"
      BY <2>2, <3>1 DEF Return, Flow, Asking
    <3>. QED  BY <2>2, <3>2, LeavingFinish DEF Return, Live, Resolved
  <2>. QED  BY <1>3, <2>1, <2>2
<1>4. CASE u = t /\ ~(NotAdmitted(t) \/ Return(t))
  <2>1. pc'[t] # "done"
    <3>1. pc \in [Turns -> Live \cup {"idle", "done", "gone"}]
      BY DEF Wired
    <3>. HIDE DEF Ordered
    <3>. QED  BY <1>4, <3>1 DEF TurnStep, Begin, Abort, Admitted, GiveBack, TakeBack, Beat, Live, clientVars
  <2>. QED  BY <2>1 DEF Leaving
<1>. QED  BY <1>2, <1>3, <1>4

LEMMA LeavingDispatch ==
    ASSUME Ordered, NEW w \in Windows, Dispatch(w), NEW t \in Turns, Leaving(t)
    PROVE  Leaving(t)'
<1>0. Wired /\ TypeOK /\ Addressed /\ Placed
  BY DEF Ordered
<1>1. PICK m \in Commands : m = Head(inbox[w])
  BY <1>0, HeadTypes DEF Dispatch
<1>2. /\ inbox[w] # <<>> /\ Handle(m) /\ inbox' = [inbox EXCEPT ![w] = Tail(@)] /\ pc' = pc
  BY <1>1 DEF Dispatch
<1> DEFINE mine == m.op # "release_window" /\ m.id[1] = t
<1>3. /\ m.op = "release_window" => m.window = w
      /\ ~mine => SameView(t)
      /\ m.op # "release_window" /\ Resets(w)' = {} => Resets(w) = {}
  BY <1>0, <1>1, <1>2, TakeView
<1>4. \A v \in Windows \ {w} : Resets(v)' = Resets(v)
  BY <1>0, <1>1, <1>2, TakeView
<1>5. mine => TurnWindow[t] = w
  <2>1. 1 \in DOMAIN inbox[w] /\ m = inbox[w][1]
    BY <1>0, <1>1, <1>2, HeadTypes, BoxTypes
  <2>. QED  BY <1>0, <2>1 DEF Addressed
<1>6. Sent(t, "release") \ {m} \subseteq Sent(t, "release")'
  <2>1. CASE mine
    BY <1>0, <1>1, <1>2, <1>5, <2>1, TakeRest DEF Ops
  <2>2. CASE ~mine
    BY <1>3, <2>2 DEF SameView, Ops
  <2>. QED  BY <2>1, <2>2
<1>7. m \in Sent(t, "release") => m.op = "release" /\ mine
  BY DEF Sent, Of
<1>8. CASE m \in Releases
  <2>1. m.id \in ReqIds /\ m.op = "release" /\ m.reserve \in BOOLEAN
    BY <1>8 DEF Releases
  <2>2. release_with(m.id, m.reserve)
    BY <1>2, <2>1 DEF Handle
  <2>3. \A id \in DOMAIN tickets' : id \in DOMAIN tickets /\ id # m.id
    BY <1>0, <2>1, <2>2, ReleaseEffect DEF TicketsLeave
  <2>4. Resets(TurnWindow[t]) # {} => Resets(TurnWindow[t])' # {}
    BY <1>3, <1>4, <2>1, TurnsAssumption
  <2> SUFFICES ASSUME pc[t] = "done", NEW id \in DOMAIN tickets', id[1] = t, Resets(TurnWindow[t])' = {}
               PROVE  \E r \in Sent(t, "release")' : r.id = id
    BY <1>2 DEF Leaving
  <2>5. PICK r \in Sent(t, "release") : r.id = id
    BY <2>3, <2>4 DEF Leaving
  <2>6. r # m
    BY <2>3, <2>5
  <2>. QED  BY <1>6, <2>5, <2>6
<1>9. CASE m \in WindowReleases
  <2>1. m.window \in Windows /\ m.op = "release_window" /\ m.window = w
    BY <1>3, <1>9 DEF WindowReleases
  <2>2. release_window(w)
    BY <1>2, <2>1 DEF Handle
  <2>3. TicketsLeave({id \in DOMAIN tickets : tickets[id].owner_window = w})
    BY <1>0, <2>2, ReleaseWindowEffect
  <2>4. CASE TurnWindow[t] = w
    <3>1. \A id \in DOMAIN tickets' : id[1] # t
      BY <1>0, <2>3, <2>4 DEF TicketsLeave, Placed
    <3>. QED  BY <3>1 DEF Leaving
  <2>5. CASE TurnWindow[t] # w
    <3>1. Resets(TurnWindow[t])' = Resets(TurnWindow[t])
      BY <1>4, <2>5, TurnsAssumption
    <3>2. m \notin Sent(t, "release")
      BY <1>7, <2>1
    <3>3. \A id \in DOMAIN tickets' : id \in DOMAIN tickets
      BY <2>3 DEF TicketsLeave
    <3>4. Sent(t, "release") \subseteq Sent(t, "release")' /\ (pc'[t] = "done" => pc[t] = "done")
      BY <1>2, <1>6, <3>2
    <3>. QED  BY <3>1, <3>3, <3>4, LeavingKept
  <2>. QED  BY <2>4, <2>5
<1>10. CASE m \in Acquires \cup Cancels
  <2>1. m.op \in {"acquire", "cancel"}
    BY <1>10 DEF Acquires, Cancels
  <2>2. DOMAIN tickets' = DOMAIN tickets
    BY <1>2, <2>1 DEF Handle, CancelUnknown, CancelFound, vars, queue
  <2>3. m \notin Sent(t, "release")
    BY <1>7, <2>1
  <2>4. Resets(TurnWindow[t]) # {} => Resets(TurnWindow[t])' # {}
    BY <1>3, <1>4, <2>1, TurnsAssumption
  <2>5. Sent(t, "release") \subseteq Sent(t, "release")' /\ (pc'[t] = "done" => pc[t] = "done")
    BY <1>2, <1>6, <2>3
  <2>. QED  BY <2>2, <2>4, <2>5, LeavingKept
<1>. QED  BY <1>8, <1>9, <1>10 DEF Commands

LEMMA LeavingStep ==
    ASSUME Ordered, [TurnsNext]_allVars, NEW t \in Turns, Leaving(t)
    PROVE  Leaving(t)'
<1>1. Wired /\ TypeOK
  BY DEF Ordered
<1>2. ASSUME NEW u \in Turns, TurnStep(u) PROVE Leaving(t)'
  BY <1>2, LeavingTurn
<1>3. ASSUME NEW w \in Windows, Dispatch(w) PROVE Leaving(t)'
  BY <1>3, LeavingDispatch
<1>4. ASSUME NEW w \in Windows, Reload(w) \/ Close(w) PROVE Leaving(t)'
  <2>1. CASE TurnWindow[t] = w
    <3>1. Resets(TurnWindow[t])' # {}
      BY <1>1, <1>4, <2>1, ReloadView, CloseView DEF Reload, Close
    <3>. QED  BY <3>1 DEF Leaving
  <2>2. CASE TurnWindow[t] # w
    <3>1. SameView(t) /\ Resets(TurnWindow[t])' = Resets(TurnWindow[t])
      BY <1>1, <1>4, <2>2, ReloadView, CloseView DEF Reload, Close
    <3>2. pc'[t] = pc[t] /\ DOMAIN tickets' = DOMAIN tickets
      BY <1>4, <2>2 DEF Reload, Close, TurnsOf, vars, queue
    <3>3. Sent(t, "release") \subseteq Sent(t, "release")'
      BY <3>1 DEF SameView, Ops
    <3>. QED  BY <3>1, <3>2, <3>3, LeavingKept
  <2>. QED  BY <2>1, <2>2
<1>5. inbox' = inbox => Sent(t, "release")' = Sent(t, "release") /\ Resets(TurnWindow[t])' = Resets(TurnWindow[t])
  BY DEF Sent, Of, Box, Resets
<1>6. ASSUME NEW m \in spawned, RunAcquire(m) PROVE Leaving(t)'
  <2>1. /\ UNCHANGED <<pc, inbox>> /\ DOMAIN tickets' \subseteq DOMAIN tickets \cup {m.id}
    BY <1>1, <1>6, RunEffect
  <2>2. CASE pc[t] = "done"
    <3>1. m.id[1] # t
      <4>1. Asking(t)
        BY <2>2 DEF Ordered, Flow
      <4>2. Spawned(t) = {}
        BY <2>2, <4>1 DEF Asking
      <4>. QED  BY <4>2 DEF Spawned
    <3>. QED  BY <1>5, <2>1, <3>1, LeavingKept
  <2>3. CASE pc[t] # "done"
    BY <2>1, <2>3 DEF Leaving
  <2>. QED  BY <2>2, <2>3
<1>7. ASSUME UNCHANGED <<pc, inbox>>, DOMAIN tickets' \subseteq DOMAIN tickets PROVE Leaving(t)'
  BY <1>5, <1>7, LeavingKept
<1>8. CASE HostStep
  <2>1. DOMAIN tickets' \subseteq DOMAIN tickets
    <3>1. CASE CancelRemove
      BY <1>1, <3>1, CancelRemoveEffect DEF TicketsLeave
    <3>2. CASE sweep_expired
      BY <1>1, <3>2, SweepEffect DEF TicketsLeave
    <3>. QED  BY <1>8, <3>1, <3>2 DEF HostStep, Resume
  <2>. QED  BY <1>7, <1>8, <2>1 DEF HostStep, clientVars
<1>9. CASE Tick \/ Suspend
  <2>1. DOMAIN tickets' = DOMAIN tickets
    BY <1>9 DEF Tick, Suspend, Elapse
  <2>. QED  BY <1>7, <1>9, <2>1 DEF Tick, Suspend, clientVars
<1>10. CASE UNCHANGED allVars
  BY <1>7, <1>10 DEF allVars, clientVars, vars, queue
<1>. QED  BY <1>2, <1>3, <1>4, <1>6, <1>8, <1>9, <1>10 DEF TurnsNext

\* A turn that returned leaves no ticket behind once its commands are through,
\* whichever of acquire, cancel and release overtook which.
THEOREM TurnsLeaveNothing == TurnsSpec => []NoTicketLeftBehind
<1> DEFINE Left == \A t \in Turns : Leaving(t)
<1>1. TurnsInit => Left
  BY DEF TurnsInit, Leaving
<1>2. Left /\ Ordered /\ [TurnsNext]_allVars => Left'
  BY LeavingStep
<1>3. Left /\ Ordered => NoTicketLeftBehind
  <2> SUFFICES ASSUME Left, Ordered, NEW t \in Turns, pc[t] = "done", ~Pending(t),
                      NEW id \in DOMAIN tickets, id[1] = t
               PROVE  FALSE
    BY DEF NoTicketLeftBehind
  <2>1. inbox[TurnWindow[t]] = <<>>
    BY DEF Pending
  <2>2. Resets(TurnWindow[t]) = {} /\ Sent(t, "release") = {}
    BY <2>1 DEF Resets, Sent, Of, Box
  <2>. QED  BY <2>2 DEF Leaving
<1>. HIDE DEF Left
<1>. QED  BY <1>1, <1>2, <1>3, OrderedAlways, PTL DEF TurnsSpec

-----------------------------------------------------------------------------
(* Whom a waiting turn waits for. *)

\* While a turn goes on, a reservation of it is for the slot it has given back:
\* it runs without, or the acquire to come back has not run or was refused.
Away(t) ==
    pc[t] \in Live =>
        \A id \in DOMAIN reservations : id[1] = t =>
            \/ pc[t] = "released" /\ id = request[t]
            \/ pc[t] = "returning" /\ id = Previous(t) /\ call[request[t]] \in {"none", "refused"}

LEMMA AwayKept ==
    ASSUME Wired, TypeOK', NEW t \in Turns, Away(t), Sheds(t),
           pc'[t] \in Live => pc'[t] = pc[t] /\ request'[t] = request[t]
    PROVE  Away(t)'
<1> SUFFICES ASSUME pc'[t] \in Live, NEW id \in DOMAIN reservations', id[1] = t
             PROVE  \/ pc[t] = "released" /\ id = request[t]
                    \/ pc[t] = "returning" /\ id = Previous(t) /\ call'[request[t]] \in {"none", "refused"}
  BY DEF Away, Previous
<1>1. pc[t] \in Live /\ request[t] \in ReqIds /\ request[t][1] = t
  BY RequestOf
<1>2. id \in ReqIds
  BY DEF TypeOK
<1>3. id \in DOMAIN reservations /\ (call[request[t]] \in {"none", "refused"} => call'[request[t]] = call[request[t]])
  BY <1>1, <1>2 DEF Sheds, CallsGoOn
<1>. QED  BY <1>1, <1>3 DEF Away

LEMMA AwayTurn ==
    ASSUME Ordered, TypeOK', NEW u \in Turns, TurnStep(u), NEW t \in Turns, Away(t)
    PROVE  Away(t)'
<1>0. Wired /\ TypeOK /\ pc \in [Turns -> Live \cup {"idle", "done", "gone"}] /\ request \in [Turns -> ReqIds \cup {NoId}]
  BY DEF Ordered, Wired
<1>1. SameEntries
  BY <1>0, TurnFrame
<1>2. CASE u # t
  BY <1>0, <1>2, OthersStay, AwayKept DEF Bystander
<1>3. ASSUME pc[t] \notin {"released", "returning"}, pc[t] \in Live \/ pc[t] = "idle"
      PROVE  \A id \in DOMAIN reservations' : id[1] # t
  <2>1. CASE pc[t] = "idle"
    BY <1>0, <1>1, <2>1 DEF Ordered, Flow, Later, Wired, TypeOK, SameEntries
  <2>2. CASE pc[t] \in Live
    BY <1>1, <1>3, <2>2 DEF Away, SameEntries
  <2>. QED  BY <1>3, <2>1, <2>2
<1>4. CASE Begin(t) \/ GiveBack(t)
  BY <1>3, <1>4 DEF Away, Begin, GiveBack, Live
<1>5. CASE Abort(t) \/ Beat(t)
  <2>1. pc' = pc /\ request' = request
    BY <1>5 DEF Abort, Beat, clientVars
  <2>. QED  BY <1>0, <1>1, <2>1, SameShed, AwayKept
<1>6. CASE Admitted(t)
  <2>1. call[request[t]] = "admitted" /\ pc[t] \in {"acquiring", "returning"}
    BY <1>6 DEF Admitted
  <2>2. \A id \in DOMAIN reservations' : id[1] # t
    BY <1>1, <2>1 DEF Away, SameEntries, Live
  <2>. QED  BY <2>2 DEF Away
<1>7. CASE NotAdmitted(t) \/ Return(t)
  <2>1. pc' = [pc EXCEPT ![t] = "done"]
    BY <1>7 DEF NotAdmitted, Return, Finish
  <2>. QED  BY <1>0, <2>1 DEF Away, Live
<1>8. CASE TakeBack(t)
  <2> DEFINE next == <<t, request[t][2] + 1>>
  <2>1. /\ pc[t] = "released" /\ pc'[t] = "returning" /\ request'[t] = next
        /\ request[t][2] < MaxRequests[t]
    BY <1>0, <1>8 DEF TakeBack
  <2>2. /\ request[t] = <<t, request[t][2]>> /\ request[t][2] \in Nat \ {0} /\ request[t] \in ReqIds
    BY <1>0, <2>1, RequestOf DEF Live
  <2>3. next \in ReqIds /\ next[1] = t /\ next[2] > request[t][2]
    <3>1. request[t][2] + 1 \in 1..MaxRequests[t]
      BY <2>1, <2>2, TurnsAssumption
    <3>. QED  BY <2>2, <3>1, IdOf
  <2>4. call[next] = "none"
    BY <2>1, <2>3 DEF Ordered, Flow, Later
  <2>5. Previous(t)' = request[t]
    BY <2>1, <2>2 DEF Previous
  <2>. HIDE DEF next
  <2>. QED  BY <1>1, <2>1, <2>4, <2>5 DEF Away, SameEntries, Live
<1>. QED  BY <1>2, <1>4, <1>5, <1>6, <1>7, <1>8 DEF TurnStep

LEMMA AwayDispatch ==
    ASSUME Ordered, TypeOK', NEW w \in Windows, Dispatch(w), NEW t \in Turns, Away(t)
    PROVE  Away(t)'
<1>0. Wired /\ TypeOK /\ Addressed
  BY DEF Ordered
<1>1. PICK m \in Commands : m = Head(inbox[w])
  BY <1>0, HeadTypes DEF Dispatch
<1>2. /\ inbox[w] # <<>> /\ Handle(m) /\ inbox' = [inbox EXCEPT ![w] = Tail(@)]
      /\ pc' = pc /\ request' = request
  BY <1>1 DEF Dispatch
<1>3. CASE m \in Releases
  <2>1. m.id \in ReqIds /\ m.op = "release" /\ m.reserve \in BOOLEAN
    BY <1>3 DEF Releases
  <2>2. release_with(m.id, m.reserve)
    BY <1>2, <2>1 DEF Handle
  <2>3. TicketsLeave({m.id}) /\ DOMAIN reservations' \subseteq DOMAIN reservations \cup {m.id}
    BY <1>0, <2>1, <2>2, ReleaseEffect DEF ReservationsEnd
  <2>4. CASE m.id[1] # t
    <3>1. Sheds(t)
      BY <2>3, <2>4 DEF Sheds, TicketsLeave
    <3>. QED  BY <1>0, <1>2, <3>1, AwayKept
  <2>5. CASE m.id[1] = t
    <3> SUFFICES ASSUME pc[t] \in Live PROVE Away(t)'
      BY <1>2 DEF Away
    <3>1. m \in Sent(t, "release")
      <4>1. m.op # "release_window" /\ m.id[1] = t
        BY <2>1, <2>5
      <4>2. m \in Sent(t, m.op)
        BY <1>0, <1>1, <1>2, <4>1, TakeView
      <4>. QED  BY <2>1, <4>2
    <3>2. Asking(t) /\ Releasing(t)
      BY DEF Ordered, Flow, Live
    <3>3. \/ pc[t] = "released" /\ m.id = request[t]
          \/ pc[t] = "returning" /\ m.id = Previous(t) /\ call[request[t]] = "none"
      BY <3>1, <3>2 DEF Releasing, Asking, Live
    <3>4. request[t] \in ReqIds
      BY <1>0, RequestOf
    <3>5. call[request[t]] \in {"none", "refused"} => call'[request[t]] = call[request[t]]
      BY <2>3, <3>4 DEF TicketsLeave, CallsGoOn
    <3>. QED  BY <1>2, <2>3, <3>3, <3>5 DEF Away, Previous
  <2>. QED  BY <2>4, <2>5
<1>4. CASE m \in WindowReleases
  <2>1. m.window \in Windows /\ release_window(m.window)
    BY <1>2, <1>4 DEF WindowReleases, Handle
  <2>2. Sheds(t)
    BY <1>0, <2>1, ReleaseWindowEffect, LeavingSheds
  <2>. QED  BY <1>0, <1>2, <2>2, AwayKept
<1>5. CASE m \in Acquires \cup Cancels
  <2>1. m.op \in {"acquire", "cancel"}
    BY <1>5 DEF Acquires, Cancels
  <2>2. UNCHANGED queue
    BY <1>2, <2>1 DEF Handle, CancelUnknown, CancelFound, vars
  <2>3. Sheds(t)
    BY <1>0, <2>2, NothingLeaves, LeavingSheds
  <2>. QED  BY <1>0, <1>2, <2>3, AwayKept
<1>. QED  BY <1>3, <1>4, <1>5 DEF Commands

\* The acquire of a turn that comes back ends the reservation it replaces.
LEMMA AwayAcquire ==
    ASSUME Ordered, TypeOK', NEW m \in spawned, RunAcquire(m), NEW t \in Turns, Away(t)
    PROVE  Away(t)'
<1>0. Wired /\ TypeOK
  BY DEF Ordered
<1>1. /\ m \in Acquires /\ m.id \in ReqIds /\ m.id[1] \in Turns
      /\ UNCHANGED <<pc, request>>
      /\ \A id \in ReqIds \ {m.id} : CallsGoOn(id)
      /\ DOMAIN tickets' \subseteq DOMAIN tickets \cup {m.id}
      /\ DOMAIN reservations' \subseteq DOMAIN reservations
  BY <1>0, RunEffect
<1>2. CASE m.id[1] # t
  <2>1. Sheds(t)
    BY <1>1, <1>2 DEF Sheds
  <2>. QED  BY <1>0, <1>1, <2>1, AwayKept
<1>3. CASE m.id[1] = t
  <2> SUFFICES ASSUME pc[t] \in Live, NEW id \in DOMAIN reservations', id[1] = t
               PROVE  pc[t] = "returning" /\ id = Previous(t) /\ call'[request[t]] \in {"none", "refused"}
    BY <1>1 DEF Away, Previous
  <2>1. m.id = request[t] /\ pc[t] \in {"acquiring", "returning"}
    <3>1. m \in Spawned(t)
      BY <1>3 DEF Spawned
    <3>. QED  BY <3>1 DEF Ordered, Flow, Asking, Live
  <2>2. pc[t] = "returning" /\ id = Previous(t)
    BY <1>1, <2>1 DEF Away
  <2>3. CASE enqueue_cancelled(m.id)
    BY <1>0, <1>1, <2>1, <2>2, <2>3, RefuseEffect
  <2>4. CASE enqueue_with(m.id, TurnLane[m.id[1]], m.max_parallel, TurnWindow[m.id[1]],
                          m.replaces # NoId, TurnPriority[m.id[1]], m.replaces)
    <3>1. m.replaces = Previous(t)
      <4>1. m.replaces = Replaced(request[t]) /\ request[t][1] = t /\ request[t][2] > 1
        BY <1>0, <1>1, <1>3, <2>1, <2>2 DEF Acquires, Wired
      <4>. QED  BY <4>1 DEF Replaced, Previous
    <3>2. ReservationsEnd({m.replaces})
      BY <1>0, <1>1, <2>4, EnterEffect
    <3>. QED  BY <2>2, <3>1, <3>2 DEF ReservationsEnd
  <2>. QED  BY <2>3, <2>4 DEF RunAcquire
<1>. QED  BY <1>2, <1>3

LEMMA AwayStep ==
    ASSUME Ordered, TypeOK', [TurnsNext]_allVars, NEW t \in Turns, Away(t)
    PROVE  Away(t)'
<1>0. Wired /\ TypeOK
  BY DEF Ordered
<1>1. ASSUME NEW u \in Turns, TurnStep(u) PROVE Away(t)'
  BY <1>1, AwayTurn
<1>2. ASSUME NEW w \in Windows, Dispatch(w) PROVE Away(t)'
  BY <1>2, AwayDispatch
<1>3. ASSUME NEW m \in spawned, RunAcquire(m) PROVE Away(t)'
  BY <1>3, AwayAcquire
<1>4. ASSUME NEW w \in Windows, Reload(w) \/ Close(w) PROVE Away(t)'
  <2>1. UNCHANGED vars /\ request' = request /\ (pc'[t] = pc[t] \/ pc'[t] = "gone")
    BY <1>4 DEF Reload, Close
  <2>2. Sheds(t)
    BY <1>0, <2>1, NothingLeaves, LeavingSheds DEF vars
  <2>. QED  BY <1>0, <2>1, <2>2, AwayKept DEF Live
<1>5. CASE HostStep
  <2>1. UNCHANGED <<pc, request>>
    BY <1>5 DEF HostStep, clientVars
  <2>2. Sheds(t)
    <3>1. CASE CancelRemove
      BY <1>0, <3>1, CancelRemoveEffect, LeavingSheds
    <3>2. CASE sweep_expired
      BY <1>0, <3>2, SweepEffect, LeavingSheds
    <3>3. CASE \E id \in ReqIds : Resume(id)
      BY <1>0, <3>3, ResumeEffect, LeavingSheds
    <3>. QED  BY <1>5, <3>1, <3>2, <3>3 DEF HostStep
  <2>. QED  BY <1>0, <2>1, <2>2, AwayKept
<1>6. CASE Tick \/ Suspend
  <2>1. 1 \in 1..LeaseTtl /\ LeaseTtl \in 1..LeaseTtl
    BY QueueAssumption
  <2>2. SameEntries
    BY <1>0, <1>6, <2>1, LeasesChange DEF Tick, Suspend, SameEntries
  <2>3. UNCHANGED <<pc, request>>
    BY <1>6 DEF Tick, Suspend, clientVars
  <2>. QED  BY <1>0, <2>2, <2>3, SameShed, AwayKept
<1>7. CASE UNCHANGED allVars
  <2>1. UNCHANGED queue /\ UNCHANGED <<pc, request>>
    BY <1>7 DEF allVars, vars, clientVars
  <2>2. Sheds(t)
    BY <1>0, <2>1, NothingLeaves, LeavingSheds
  <2>. QED  BY <1>0, <2>1, <2>2, AwayKept
<1>. QED  BY <1>1, <1>2, <1>3, <1>4, <1>5, <1>6, <1>7 DEF TurnsNext

\* A turn that has its slot: its next step is its own.
GoesOn(u) ==
    /\ Runs(request[u])
    /\ pc[u] \in {"held", "acquiring", "returning"} /\ call[request[u]] \in Resolved

\* What t may wait for: a turn that has its slot; one whose page is gone, until
\* the sweeper takes its ticket; in the background also a reservation, of a turn
\* that runs without its slot, or left until its lease lapses.
KeepsWaiting(u, t) ==
    \/ GoesOn(u)
    \/ pc[u] = "gone" /\ \E id \in DOMAIN tickets : id[1] = u
    \/ /\ TurnPriority[t] = "background"
       /\ \E id \in DOMAIN reservations : id[1] = u
       /\ pc[u] \in {"released", "done", "gone"} \/ call[request[u]] = "refused"

\* Turns never wait for each other in a ring: when nothing is on its way, a turn
\* that waits does so for another one on its lane that does not.
NoRingOfTurns ==
    ~InFlight =>
        \A t \in Turns :
            pc[t] \in {"acquiring", "returning"} /\ call[request[t]] = "waiting" =>
                \E u \in Turns \ {t} : TurnLane[u] = TurnLane[t] /\ KeepsWaiting(u, t)

\* When nothing is on its way, a turn that goes on has at most the ticket of its
\* newest request, and none while it runs without its slot.
LEMMA TicketOwner ==
    ASSUME Ordered, NoTicketLeftBehind, ~InFlight, NEW id \in DOMAIN tickets
    PROVE  /\ id[1] \in Turns /\ pc[id[1]] \in {"acquiring", "held", "returning", "gone"}
           /\ pc[id[1]] # "gone" => id = request[id[1]]
<1> DEFINE u == id[1]
<1>0. Wired /\ TypeOK
  BY DEF Ordered
<1>1. id \in ReqIds /\ u \in Turns /\ id = <<u, id[2]>> /\ id[2] \in Nat
  <2>1. id \in ReqIds
    BY <1>0 DEF TypeOK
  <2>. QED  BY <2>1, IdShape
<1>2. inbox[TurnWindow[u]] = <<>> /\ spawned = {} /\ cancelling = NoId
  BY <1>1, TurnsAssumption DEF InFlight
<1>3. Sent(u, "release") = {}
  BY <1>2 DEF Sent, Of, Box
<1>4. pc[u] # "done"
  BY <1>1, <1>2 DEF NoTicketLeftBehind, Pending
<1>5. pc[u] # "idle"
  <2> SUFFICES ASSUME pc[u] = "idle" PROVE FALSE
    OBVIOUS
  <2>1. request[u] = NoId /\ Later(u)
    BY <1>0, <1>1 DEF Wired, Ordered, Flow
  <2>. QED  BY <1>1, <2>1 DEF Later
<1>6. CASE pc[u] \in Live
  <2>1. /\ request[u] \in ReqIds /\ request[u] = <<u, request[u][2]>> /\ request[u][2] \in Nat
        /\ request[u] # NoId
    BY <1>0, <1>1, <1>6, RequestOf, QueueAssumption
  <2>2. Earlier(u) /\ Later(u) /\ Releasing(u)
    BY <1>1, <1>6 DEF Ordered, Flow, Live
  <2>3. ~(id[2] < request[u][2])
    BY <1>1, <1>3, <2>1, <2>2 DEF Earlier
  <2>4. ~(id[2] > request[u][2])
    BY <1>1, <1>6, <2>2 DEF Later, Live
  <2>5. id = request[u]
    <3>1. id[2] = request[u][2]
      BY <1>1, <2>1, <2>3, <2>4
    <3>. QED  BY <1>1, <2>1, <3>1
  <2>6. pc[u] # "released"
    BY <1>3, <2>2, <2>5 DEF Releasing
  <2>. QED  BY <1>1, <1>6, <2>5, <2>6 DEF Live
<1>. QED  BY <1>0, <1>1, <1>4, <1>5, <1>6 DEF Wired

\* Who has a slot on the lane keeps a waiting turn from it.
LEMMA RunningOwner ==
    ASSUME Ordered, NoTicketLeftBehind, ~InFlight, NEW t \in Turns,
           pc[t] \in {"acquiring", "returning"}, call[request[t]] = "waiting",
           NEW id \in DOMAIN tickets, tickets[id].state = "running", tickets[id].lane = TurnLane[t]
    PROVE  \E u \in Turns \ {t} : TurnLane[u] = TurnLane[t] /\ KeepsWaiting(u, t)
<1> DEFINE u == id[1]
<1>0. Wired /\ TypeOK
  BY DEF Ordered
<1>1. /\ u \in Turns /\ pc[u] \in {"acquiring", "held", "returning", "gone"}
      /\ pc[u] # "gone" => id = request[u]
  BY TicketOwner
<1>2. id \in ReqIds
  BY <1>0 DEF TypeOK
<1>3. TurnLane[u] = TurnLane[t] /\ call[id] # "none"
  BY DEF Ordered, Placed
<1>4. call[id] # "waiting"
  BY <1>2 DEF Ordered, NoLostWakeup
<1>5. u # t
  BY <1>1, <1>4
<1>6. call[id] \in Resolved
  <2>1. call[id] \notin {"woken", "dropped"}
    BY <1>2 DEF InFlight
  <2>2. call[id] \in CallState
    BY <1>0, <1>2 DEF TypeOK
  <2>. QED  BY <1>3, <1>4, <2>1, <2>2 DEF CallState, Resolved
<1>7. pc[u] # "gone" => GoesOn(u)
  BY <1>1, <1>6 DEF GoesOn, Runs
<1>. QED  BY <1>1, <1>3, <1>5, <1>7 DEF KeepsWaiting

\* Who has a reservation on the lane keeps a background turn waiting.
LEMMA ReservationOwner ==
    ASSUME Ordered, NEW t \in Turns, Away(t), ~InFlight,
           pc[t] \in {"acquiring", "returning"}, call[request[t]] = "waiting",
           TurnPriority[t] = "background",
           NEW id \in DOMAIN reservations, reservations[id].lane = TurnLane[t], Away(id[1])
    PROVE  \E u \in Turns \ {t} : TurnLane[u] = TurnLane[t] /\ KeepsWaiting(u, t)
<1> DEFINE u == id[1]
<1>0. Wired /\ TypeOK
  BY DEF Ordered
<1>1. id \in ReqIds /\ u \in Turns
  <2>1. id \in ReqIds
    BY <1>0 DEF TypeOK
  <2>. QED  BY <2>1, IdShape
<1>2. TurnLane[u] = TurnLane[t]
  BY DEF Ordered, Placed
<1>3. u # t
  BY DEF Away, Live
<1>4. pc[u] # "idle"
  <2> SUFFICES ASSUME pc[u] = "idle" PROVE FALSE
    OBVIOUS
  <2>1. request[u] = NoId /\ Later(u)
    BY <1>0, <1>1 DEF Wired, Ordered, Flow
  <2>. QED  BY <1>1, <2>1 DEF Later
<1>5. pc[u] \in Live => pc[u] = "released" \/ call[request[u]] = "refused"
  <2> SUFFICES ASSUME pc[u] = "returning", call[request[u]] = "none" PROVE FALSE
    BY DEF Away
  <2>1. inbox[TurnWindow[u]] = <<>> /\ spawned = {}
    BY <1>1, TurnsAssumption DEF InFlight
  <2>2. Sent(u, "acquire") = {} /\ Spawned(u) = {}
    BY <2>1 DEF Sent, Of, Box, Spawned
  <2>. QED  BY <1>1, <2>2 DEF Ordered, Flow, Asking
<1>6. pc[u] \in {"released", "done", "gone"} \/ call[request[u]] = "refused"
  BY <1>0, <1>1, <1>4, <1>5 DEF Wired
<1>. QED  BY <1>1, <1>2, <1>3, <1>6 DEF KeepsWaiting

\* What keeps a turn waiting is never itself waiting for a slot: whatever turns
\* hold, give back and take back, a waiting turn waits for one that has its
\* slot, for a ticket whose page is gone, or, in the background, for a
\* reservation.
THEOREM TurnsWaitInNoRing == TurnsSpec => []NoRingOfTurns
<1> DEFINE AllAway == \A t \in Turns : Away(t)
<1>1. TurnsInit => AllAway
  BY DEF TurnsInit, Away, Live
<1>2. AllAway /\ Ordered /\ Ordered' /\ [TurnsNext]_allVars => AllAway'
  BY AwayStep DEF Ordered
<1>3. AllAway /\ Ordered /\ NoTicketLeftBehind /\ WorkConserving => NoRingOfTurns
  <2> SUFFICES ASSUME AllAway, Ordered, NoTicketLeftBehind, WorkConserving, ~InFlight, NEW t \in Turns,
                      pc[t] \in {"acquiring", "returning"}, call[request[t]] = "waiting"
               PROVE  \E u \in Turns \ {t} : TurnLane[u] = TurnLane[t] /\ KeepsWaiting(u, t)
    BY DEF NoRingOfTurns
  <2>0. Wired /\ TypeOK /\ NoLostWakeup /\ Placed
    BY DEF Ordered
  <2>1. request[t] \in ReqIds /\ request[t][1] = t
    BY <2>0, RequestOf DEF Live
  <2>2. request[t] \in DOMAIN tickets /\ tickets[request[t]].state = "waiting"
    BY <2>0, <2>1 DEF NoLostWakeup
  <2>3. tickets[request[t]].lane = TurnLane[t] /\ tickets[request[t]].priority = TurnPriority[t]
    BY <2>0, <2>1, <2>2 DEF Placed
\* A full lane has a ticket that runs.
  <2>4. ASSUME Cardinality(running_by_lane(tickets, TurnLane[t])) >= lane_capacity[TurnLane[t]]
        PROVE  \E id \in DOMAIN tickets : tickets[id].state = "running" /\ tickets[id].lane = TurnLane[t]
    <3>1. lane_capacity[TurnLane[t]] \in Nat \ {0}
      BY <2>0, TurnsAssumption DEF TypeOK
    <3>2. running_by_lane(tickets, TurnLane[t]) # {}
      BY <2>4, <3>1, FS_EmptySet
    <3>. QED  BY <3>2 DEF running_by_lane
  <2>5. CASE Cardinality(running_by_lane(tickets, TurnLane[t])) >= lane_capacity[TurnLane[t]]
    BY <2>4, <2>5, RunningOwner
  <2>6. CASE TurnPriority[t] = "background" /\ ~LaneIsClear(TurnLane[t])
    <3>1. CASE \E id \in DOMAIN reservations : reservations[id].lane = TurnLane[t]
      <4>1. PICK id \in DOMAIN reservations : reservations[id].lane = TurnLane[t]
        BY <3>1
      <4>2. id[1] \in Turns
        <5>1. id \in ReqIds
          BY <2>0 DEF TypeOK
        <5>. QED  BY <5>1, IdShape
      <4>. QED  BY <2>6, <4>1, <4>2, ReservationOwner
    <3>2. CASE \E id \in DOMAIN tickets : tickets[id].lane = TurnLane[t] /\ tickets[id].priority = "foreground"
      <4>1. PICK id \in DOMAIN tickets : tickets[id].lane = TurnLane[t] /\ tickets[id].priority = "foreground"
        BY <3>2
      <4>2. CASE tickets[id].state = "running"
        BY <4>1, <4>2, RunningOwner
      <4>3. CASE tickets[id].state = "waiting"
        <5>1. Cardinality(running_by_lane(tickets, TurnLane[t])) >= lane_capacity[TurnLane[t]]
          BY <4>1, <4>3 DEF WorkConserving
        <5>. QED  BY <2>5, <5>1
      <4>4. tickets[id] \in Ticket
        BY <2>0 DEF TypeOK
      <4>. QED  BY <4>2, <4>3, <4>4 DEF Ticket, TicketState
    <3>3. \A id \in DOMAIN tickets : tickets[id].priority \in {"foreground", "background"}
      BY <2>0 DEF TypeOK, Ticket, Priority
    <3>. QED  BY <2>6, <3>1, <3>2, <3>3 DEF LaneIsClear
  <2>. QED  BY <2>2, <2>3, <2>5, <2>6 DEF WorkConserving
<1>. HIDE DEF AllAway
<1>4. TurnsSpec => []WorkConserving
  BY TurnsUseTheQueue, NoIdleSlot, PTL
<1>. QED  BY <1>1, <1>2, <1>3, <1>4, OrderedAlways, TurnsLeaveNothing, PTL DEF TurnsSpec

-----------------------------------------------------------------------------
(* What becomes of a stopped turn. *)

\* Its cancel is on its way, remembered for the acquire to come, or at work; or
\* the call it was for is not waiting.
Stopped(t) ==
    aborted[t] /\ pc[t] # "gone" =>
        \/ Sent(t, "cancel") # {}
        \/ cancelling = request[t]
        \/ call[request[t]] = "none" /\ Early(t) # {}
        \/ call[request[t]] \notin {"none", "waiting"}

LEMMA StoppedKept ==
    ASSUME Ordered, NEW t \in Turns, Stopped(t),
           request'[t] = request[t], aborted'[t] = aborted[t], pc'[t] # "gone" => pc[t] # "gone",
           Sent(t, "cancel") # {} => Sent(t, "cancel")' # {},
           cancelling' = cancelling, Early(t) # {} => Early(t)' # {},
           \A id \in ReqIds : id[1] = t => CallsGoOn(id)
    PROVE  Stopped(t)'
<1> SUFFICES ASSUME aborted'[t], pc'[t] # "gone"
             PROVE  \/ Sent(t, "cancel")' # {}
                    \/ cancelling' = request[t]
                    \/ call'[request[t]] = "none" /\ Early(t)' # {}
                    \/ call'[request[t]] \notin {"none", "waiting"}
  BY DEF Stopped
<1>1. aborted[t] /\ pc[t] # "gone"
  OBVIOUS
<1>2. request[t] \in ReqIds /\ request[t][1] = t
  <2>1. pc[t] \in Live \cup {"done"}
    BY <1>1 DEF Ordered, Wired
  <2>. QED  BY <2>1, RequestOf DEF Ordered
<1>3. CallsGoOn(request[t])
  BY <1>2
<1>. QED  BY <1>1, <1>3 DEF Stopped, CallsGoOn

\* There is room to remember one cancel for each turn.
Room == IsFiniteSet(Turns) /\ Cardinality(Turns) <= EarlyCancelCap

LEMMA EarlyCount ==
    ASSUME Ordered, Room, NEW t \in Turns, Early(t) = {}
    PROVE  Len(cancelled_early) + 1 <= EarlyCancelCap
<1> DEFINE n == Len(cancelled_early)
           f == [i \in 1..n |-> cancelled_early[i][1]]
           others == Turns \ {t}
<1>1. cancelled_early \in Seq(ReqIds) /\ n \in Nat /\ DOMAIN cancelled_early = 1..n
  BY LenProperties DEF Ordered, TypeOK
<1>2. ASSUME NEW i \in 1..n PROVE cancelled_early[i][1] \in others
  <2>1. cancelled_early[i] \in ReqIds
    BY <1>1, ElementOfSeq
  <2>2. i \notin Early(t)
    OBVIOUS
  <2>. QED  BY <1>1, <2>1, <2>2, IdShape DEF Early
<1>3. ASSUME NEW i \in 1..n, NEW j \in 1..n, f[i] = f[j] PROVE i = j
  <2> DEFINE u == cancelled_early[i][1]
  <2>1. u \in Turns /\ i \in Early(u) /\ j \in Early(u)
    BY <1>1, <1>2, <1>3 DEF Early
  <2>2. Cancelling(u)
    BY <2>1 DEF Ordered
  <2>. QED  BY <2>1, <2>2 DEF Cancelling
<1>4. f \in Injection(1..n, others)
  <2>1. f \in [1..n -> others]
    BY <1>2
  <2>. QED  BY <1>3, <2>1 DEF Injection, IsInjective
<1>5. IsFiniteSet(others) /\ Cardinality(others) = Cardinality(Turns) - 1
  BY FS_RemoveElement DEF Room
<1>6. Cardinality(1..n) <= Cardinality(others)
  <2>. HIDE DEF f, others, n
  <2>. QED  BY <1>4, <1>5, FS_Injection
<1>7. Cardinality(1..n) = n
  <2>1. 1 \in Int /\ n \in Int
    BY <1>1
  <2>. QED  BY <1>1, <2>1, FS_Interval
<1>8. Cardinality(Turns) \in Nat
  BY FS_CardinalityType DEF Room
<1>. QED  BY <1>1, <1>5, <1>6, <1>7, <1>8, QueueAssumption DEF Room

\* A cancel that comes early is remembered, and no other is forgotten for it.
LEMMA NoneForgotten ==
    ASSUME Ordered, Room, NEW id \in ReqIds, Early(id[1]) = {},
           cancelled_early' = Newest(Append(cancelled_early, id), EarlyCancelCap)
    PROVE  /\ Early(id[1])' # {}
           /\ \A t \in Turns : Early(t) # {} => Early(t)' # {}
<1> DEFINE n == Len(cancelled_early) + 1
<1>1. cancelled_early \in Seq(ReqIds) /\ Len(cancelled_early) \in Nat /\ DOMAIN cancelled_early = 1..Len(cancelled_early)
  BY LenProperties DEF Ordered, TypeOK
<1>2. /\ Append(cancelled_early, id) \in Seq(ReqIds) /\ Len(Append(cancelled_early, id)) = n
      /\ Append(cancelled_early, id)[n] = id
      /\ \A i \in 1..Len(cancelled_early) : Append(cancelled_early, id)[i] = cancelled_early[i]
  BY <1>1, AppendProperties
<1>3. n <= EarlyCancelCap
  BY EarlyCount, IdShape
<1>4. cancelled_early' = Append(cancelled_early, id)
  BY <1>2, <1>3, NewestThins, QueueAssumption
<1>5. DOMAIN cancelled_early' = 1..n
  BY <1>2, <1>4, LenProperties
<1>6. n \in Early(id[1])'
  BY <1>1, <1>2, <1>4, <1>5 DEF Early
<1>7. ASSUME NEW t \in Turns, NEW i \in Early(t) PROVE i \in Early(t)'
  BY <1>1, <1>2, <1>4, <1>5, <1>7 DEF Early
<1>. QED  BY <1>6, <1>7

LEMMA StoppedDispatch ==
    ASSUME Ordered, Room, NEW w \in Windows, Dispatch(w), NEW t \in Turns, Stopped(t)
    PROVE  Stopped(t)'
<1>0. Wired /\ TypeOK /\ Addressed /\ Placed /\ NoLostWakeup
  BY DEF Ordered
<1>1. PICK m \in Commands : m = Head(inbox[w])
  BY <1>0, HeadTypes DEF Dispatch
<1>2. /\ inbox[w] # <<>> /\ Handle(m) /\ inbox' = [inbox EXCEPT ![w] = Tail(@)]
      /\ UNCHANGED <<pc, request, aborted>>
  BY <1>1 DEF Dispatch
<1> DEFINE mine == m.op # "release_window" /\ m.id[1] = t
<1>3. m.op # "cancel" \/ ~mine => Sent(t, "cancel")' = Sent(t, "cancel")
  <2>1. ~mine => SameView(t)
    BY <1>0, <1>1, <1>2, TakeView
  <2>2. mine => \A op \in Ops \ {m.op} : Sent(t, op)' = Sent(t, op) /\ (Once(t, op) => Once(t, op)')
    BY <1>0, <1>1, <1>2, TakeView
  <2>. QED  BY <2>1, <2>2 DEF SameView, Ops
<1>4. CASE m \in Acquires \cup Releases \cup WindowReleases
  <2>1. m.op # "cancel"
    BY <1>4 DEF Acquires, Releases, WindowReleases
  <2>2. UNCHANGED <<cancelled_early, cancelling>> /\ \A id \in ReqIds : CallsGoOn(id)
    <3>1. CASE m \in Acquires
      <4>1. UNCHANGED vars
        BY <1>2, <3>1 DEF Handle, Acquires
      <4>. QED  BY <4>1 DEF vars, queue, CallsGoOn
    <3>2. CASE m \in Releases
      <4>1. m.id \in ReqIds /\ m.reserve \in BOOLEAN /\ release_with(m.id, m.reserve)
        BY <1>2, <3>2 DEF Handle, Releases
      <4>. QED  BY <1>0, <4>1, ReleaseEffect DEF TicketsLeave, release_with
    <3>3. CASE m \in WindowReleases
      <4>1. m.window \in Windows /\ release_window(m.window)
        BY <1>2, <3>3 DEF Handle, WindowReleases
      <4>. QED  BY <1>0, <4>1, ReleaseWindowEffect DEF TicketsLeave
    <3>. QED  BY <1>4, <3>1, <3>2, <3>3
  <2>3. Early(t)' = Early(t)
    BY <2>2, SameEarly
  <2>. QED  BY <1>2, <1>3, <2>1, <2>2, <2>3, StoppedKept
<1>5. CASE m \in Cancels
  <2>1. m.id \in ReqIds /\ m.op = "cancel" /\ (m.id[1] = t <=> mine) /\ m.id[1] \in Turns
    BY <1>5, IdShape DEF Cancels
  <2>2. CancelUnknown(m.id) \/ CancelFound(m.id)
    BY <1>2, <2>1 DEF Handle
  <2>3. cancelling = NoId /\ UNCHANGED queue
    BY <2>2 DEF CancelUnknown, CancelFound
  <2>4. m \in Sent(m.id[1], "cancel")
    <3>1. m.op # "release_window" /\ m.id[1] \in Turns
      BY <2>1
    <3>2. m \in Sent(m.id[1], m.op)
      BY <1>0, <1>1, <1>2, <3>1, TakeView
    <3>. QED  BY <2>1, <3>2
  <2>5. Cancelling(m.id[1])
    BY <2>1 DEF Ordered
  <2>6. Early(m.id[1]) = {} /\ m.id = request[m.id[1]]
    BY <2>4, <2>5 DEF Cancelling
  <2>7. CASE ~mine
    <3>1. /\ call' = call /\ \A id \in ReqIds : CallsGoOn(id)
      BY <2>3 DEF queue, CallsGoOn
    <3>2. Early(t) # {} => Early(t)' # {}
      <4>1. CASE CancelUnknown(m.id)
        <5>1. cancelled_early' = Newest(Append(cancelled_early, m.id), EarlyCancelCap)
          BY <4>1 DEF CancelUnknown
        <5>. QED  BY <2>1, <2>6, <5>1, NoneForgotten
      <4>2. CASE CancelFound(m.id)
        BY <4>2 DEF CancelFound, Early
      <4>. QED  BY <2>2, <4>1, <4>2
    <3>3. CASE CancelUnknown(m.id)
      <4>1. cancelling' = cancelling
        BY <3>3 DEF CancelUnknown
      <4>. QED  BY <1>2, <1>3, <2>7, <3>1, <3>2, <4>1, StoppedKept
    <3>4. CASE CancelFound(m.id)
      <4> SUFFICES ASSUME aborted'[t], pc'[t] # "gone"
                   PROVE  \/ Sent(t, "cancel")' # {}
                          \/ call'[request'[t]] = "none" /\ Early(t)' # {}
                          \/ call'[request'[t]] \notin {"none", "waiting"}
        BY DEF Stopped
      <4>1. request[t] # NoId
        <5>1. pc[t] \in Live \cup {"done"}
          BY <1>0, <1>2 DEF Wired
        <5>. QED  BY <1>0, <5>1, RequestOf, QueueAssumption
      <4>. QED  BY <1>2, <1>3, <2>3, <2>7, <3>1, <3>2, <4>1 DEF Stopped
    <3>. QED  BY <2>2, <3>3, <3>4
  <2>8. CASE mine
    <3>1. m.id[1] = t /\ m.id = request[t] /\ request' = request
      BY <1>2, <2>1, <2>6, <2>8
    <3>2. CASE CancelFound(m.id)
      BY <3>1, <3>2 DEF CancelFound, Stopped
    <3>3. CASE CancelUnknown(m.id)
      <4>1. cancelled_early' = Newest(Append(cancelled_early, m.id), EarlyCancelCap)
            /\ m.id \notin DOMAIN tickets
        BY <3>3 DEF CancelUnknown
      <4>2. Early(t)' # {}
        BY <2>1, <2>6, <3>1, <4>1, NoneForgotten
      <4>3. call[m.id] # "waiting"
        BY <1>0, <2>1, <4>1 DEF NoLostWakeup
      <4>4. call'[request'[t]] = call[m.id]
        BY <2>3, <3>1 DEF queue
      <4>. QED  BY <4>2, <4>3, <4>4 DEF Stopped
    <3>. QED  BY <2>2, <3>2, <3>3
  <2>. QED  BY <2>7, <2>8
<1>. QED  BY <1>4, <1>5 DEF Commands

LEMMA StoppedAcquire ==
    ASSUME Ordered, NEW m \in spawned, RunAcquire(m), NEW t \in Turns, Stopped(t)
    PROVE  Stopped(t)'
<1>0. Wired /\ TypeOK /\ Cancelling(t)
  BY DEF Ordered
<1>1. /\ m \in Acquires /\ m.id \in ReqIds /\ m.id[1] \in Turns
      /\ UNCHANGED <<pc, request, aborted, inbox, cancelling>>
      /\ call[m.id] = "none" /\ call'[m.id] \in {"waiting", "woken", "refused"}
      /\ \A id \in ReqIds \ {m.id} : CallsGoOn(id)
  BY <1>0, RunEffect
<1>2. Sent(t, "cancel")' = Sent(t, "cancel")
  BY <1>1 DEF Sent, Of, Box
<1>3. \/ enqueue_cancelled(m.id)
      \/ /\ \A i \in DOMAIN cancelled_early : cancelled_early[i] # m.id
         /\ cancelled_early' = cancelled_early
  BY DEF RunAcquire, enqueue_with
<1>4. CASE m.id[1] # t
  <2>1. Early(t) # {} => Early(t)' # {}
    <3>1. CASE enqueue_cancelled(m.id)
      <4> SUFFICES ASSUME NEW i \in Early(t) PROVE Early(t)' # {}
        OBVIOUS
      <4>1. cancelled_early[i] # m.id /\ i \in DOMAIN cancelled_early /\ cancelled_early[i][1] = t
        BY <1>4 DEF Early
      <4>2. \E j \in DOMAIN cancelled_early' : cancelled_early'[j] = cancelled_early[i]
        BY <1>0, <1>1, <3>1, <4>1, RefuseEffect
      <4>. QED  BY <4>1, <4>2 DEF Early
    <3>2. CASE cancelled_early' = cancelled_early
      BY <3>2 DEF Early
    <3>. QED  BY <1>3, <3>1, <3>2
  <2>2. \A id \in ReqIds : id[1] = t => CallsGoOn(id)
    BY <1>1, <1>4
  <2>. QED  BY <1>1, <1>2, <2>1, <2>2, StoppedKept
<1>5. CASE m.id[1] = t
  <2> SUFFICES ASSUME aborted[t], pc[t] # "gone"
               PROVE  Sent(t, "cancel") # {} \/ call'[request[t]] \notin {"none", "waiting"}
    BY <1>1, <1>2 DEF Stopped
  <2>1. m.id = request[t]
    <3>1. m \in Spawned(t)
      BY <1>5 DEF Spawned
    <3>. QED  BY <3>1 DEF Ordered, Flow, Asking
  <2>2. ~Cutting(t)
    BY <1>0, <1>1, <2>1 DEF Cancelling
  <2>3. cancelling # request[t]
    BY <1>1, <1>5, <2>1, <2>2, QueueAssumption DEF Cutting
  <2>4. CASE enqueue_cancelled(m.id)
    BY <1>0, <1>1, <2>1, <2>4, RefuseEffect
  <2>5. CASE \A i \in DOMAIN cancelled_early : cancelled_early[i] # m.id
    <3>1. Early(t) = {}
      BY <1>0, <2>1, <2>5 DEF Early, Cancelling
    <3>. QED  BY <1>1, <2>1, <2>3, <3>1 DEF Stopped
  <2>. QED  BY <1>3, <2>4, <2>5
<1>. QED  BY <1>4, <1>5

LEMMA StoppedTurn ==
    ASSUME Ordered, NEW u \in Turns, TurnStep(u), NEW t \in Turns, Stopped(t)
    PROVE  Stopped(t)'
<1>0. Wired /\ TypeOK /\ Cancelling(t)
  BY DEF Ordered
<1>1. SameEntries /\ \A id \in ReqIds : CallsGoOn(id)
  <2>1. SameEntries
    BY <1>0, TurnFrame
  <2>. QED  BY <2>1 DEF SameEntries, CallsGoOn
<1>2. Early(t)' = Early(t) /\ cancelling' = cancelling
  BY <1>1, SameEarly DEF SameEntries
<1>3. CASE u # t
  <2>1. pc'[t] = pc[t] /\ request'[t] = request[t] /\ aborted'[t] = aborted[t]
    BY <1>0, <1>3, TurnFrame
  <2>2. Sent(t, "cancel")' = Sent(t, "cancel")
    <3>1. inbox' = inbox \/ \E m \in Commands : Send(u, m) /\ m.op \in Ops /\ m.id[1] = u
      BY <1>0, TurnFrame
    <3>2. CASE inbox' = inbox
      BY <3>2 DEF Sent, Of, Box
    <3>3. CASE inbox' # inbox
      <4>1. SameView(t)
        BY <1>0, <1>3, <3>1, <3>3, SendView
      <4>. QED  BY <4>1 DEF SameView, Ops
    <3>. QED  BY <3>2, <3>3
  <2>. QED  BY <1>1, <1>2, <2>1, <2>2, StoppedKept
<1>4. CASE u = t
  <2>1. /\ inbox' = inbox \/ \E m \in Commands : Send(t, m) /\ m.op \in Ops /\ m.id[1] = t
    BY <1>0, <1>4, TurnFrame
  <2>2. Sent(t, "cancel") # {} => Sent(t, "cancel")' # {}
    <3>1. CASE inbox' = inbox
      BY <3>1 DEF Sent, Of, Box
    <3>2. ASSUME NEW m \in Commands, Send(t, m), m.op \in Ops, m.id[1] = t
          PROVE  Sent(t, "cancel") \subseteq Sent(t, "cancel")'
      <4>1. CASE m.op = "cancel"
        <5>1. Sent(t, m.op)' = Sent(t, m.op) \cup {m}
          BY <1>0, <3>2, OwnSend
        <5>. QED  BY <4>1, <5>1
      <4>2. CASE m.op # "cancel"
        BY <1>0, <3>2, <4>2, OwnSend DEF Ops
      <4>. QED  BY <4>1, <4>2
    <3>. QED  BY <2>1, <3>1, <3>2
  <2>3. CASE Abort(t)
    <3>1. request[t] \in ReqIds /\ request[t][1] = t
      BY <1>0, <2>3, RequestOf DEF Abort
    <3>2. PICK m \in Commands : m = CancelOf(request[t])
      BY <3>1, CommandTypes DEF Commands
    <3>3. m.op = "cancel" /\ m.id = request[t] /\ Send(t, m)
      BY <2>3, <3>2 DEF Abort, CancelOf
    <3>4. Sent(t, m.op)' = Sent(t, m.op) \cup {m}
      BY <1>0, <3>1, <3>3, OwnSend DEF Ops
    <3>5. Sent(t, "cancel")' # {}
      BY <3>3, <3>4
    <3>. QED  BY <3>5 DEF Stopped
  <2>4. CASE Begin(t) \/ TakeBack(t)
    <3>1. ~aborted[t] /\ aborted' = aborted
      BY <1>0, <2>4 DEF Begin, TakeBack, Wired
    <3>. QED  BY <3>1 DEF Stopped
  <2>5. CASE Admitted(t) \/ NotAdmitted(t) \/ GiveBack(t) \/ Return(t) \/ Beat(t)
    <3>1. request' = request /\ aborted' = aborted /\ pc[t] # "gone"
      BY <2>5 DEF Admitted, NotAdmitted, Finish, GiveBack, Return, Beat, clientVars, Live
    <3>. QED  BY <1>1, <1>2, <2>2, <3>1, StoppedKept
  <2>. QED  BY <1>4, <2>3, <2>4, <2>5 DEF TurnStep
<1>. QED  BY <1>3, <1>4

LEMMA StoppedStep ==
    ASSUME Ordered, NoLostWakeup', Room, [TurnsNext]_allVars, NEW t \in Turns, Stopped(t)
    PROVE  Stopped(t)'
<1>0. Wired /\ TypeOK /\ Cancelling(t) /\ NoLostWakeup
  BY DEF Ordered
<1>1. ASSUME NEW u \in Turns, TurnStep(u) PROVE Stopped(t)'
  BY <1>1, StoppedTurn
<1>2. ASSUME NEW w \in Windows, Dispatch(w) PROVE Stopped(t)'
  BY <1>2, StoppedDispatch
<1>3. ASSUME NEW w \in Windows, Reload(w) \/ Close(w) PROVE Stopped(t)'
  <2>1. UNCHANGED <<vars, request, aborted>> /\ (pc'[t] = pc[t] \/ pc'[t] = "gone")
    BY <1>0, <1>3 DEF Reload, Close, Wired
  <2>2. UNCHANGED <<call, cancelling, cancelled_early>> /\ Early(t)' = Early(t)
    BY <2>1, SameEarly DEF vars, queue
  <2>3. CASE TurnWindow[t] # w \/ Reload(w)
    <3>1. Sent(t, "cancel")' = Sent(t, "cancel")
      <4>1. CASE Reload(w)
        BY <1>0, <4>1, ReloadView DEF Reload, Ops
      <4>2. CASE Close(w) /\ TurnWindow[t] # w
        BY <1>0, <4>2, CloseView DEF Close, SameView, Ops
      <4>. QED  BY <1>3, <2>3, <4>1, <4>2
    <3>. QED  BY <2>1, <2>2, <3>1, StoppedKept DEF CallsGoOn
  <2>4. CASE TurnWindow[t] = w /\ Close(w)
    <3>1. pc'[t] = "gone" \/ pc[t] = "done"
      BY <1>0, <2>4 DEF Close, TurnsOf, Wired
    <3>2. CASE pc[t] = "done"
      <4>1. call[request[t]] \in Resolved
        BY <3>2 DEF Ordered, Flow, Asking
      <4>. QED  BY <2>1, <2>2, <4>1 DEF Stopped, Resolved
    <3>. QED  BY <3>1, <3>2 DEF Stopped
  <2>. QED  BY <1>3, <2>3, <2>4
<1>4. ASSUME NEW m \in spawned, RunAcquire(m) PROVE Stopped(t)'
  BY <1>4, StoppedAcquire
<1>5. inbox' = inbox => Sent(t, "cancel")' = Sent(t, "cancel")
  BY DEF Sent, Of, Box
<1>6. ASSUME UNCHANGED <<pc, request, aborted, inbox, cancelled_early, cancelling>>,
             \A id \in ReqIds : CallsGoOn(id)
      PROVE  Stopped(t)'
  BY <1>5, <1>6, SameEarly, StoppedKept
<1>7. CASE HostStep
  <2>1. UNCHANGED <<pc, request, aborted, inbox>>
    BY <1>7 DEF HostStep, clientVars
  <2>2. CASE sweep_expired
    BY <1>0, <1>6, <2>1, <2>2, SweepEffect DEF TicketsLeave
  <2>3. CASE \E id \in ReqIds : Resume(id)
    <3>1. UNCHANGED <<cancelled_early, cancelling>> /\ \A id \in ReqIds : CallsGoOn(id)
      BY <1>0, <2>3, ResumeEffect DEF TicketsLeave, Resume
    <3>. QED  BY <1>6, <2>1, <3>1
  <2>4. CASE CancelRemove
    <3>1. /\ cancelling \in ReqIds /\ cancelling' = NoId /\ cancelled_early' = cancelled_early
          /\ \A id \in ReqIds : CallsGoOn(id)
      BY <1>0, <2>4, CancelRemoveEffect DEF TicketsLeave
    <3>2. CASE cancelling # request[t]
      <4> SUFFICES ASSUME aborted[t], pc[t] # "gone"
                   PROVE  \/ Sent(t, "cancel") # {}
                          \/ call'[request[t]] = "none" /\ Early(t) # {}
                          \/ call'[request[t]] \notin {"none", "waiting"}
        BY <1>5, <2>1, <3>1, SameEarly DEF Stopped
      <4>1. request[t] \in ReqIds
        <5>1. pc[t] \in Live \cup {"done"}
          BY <1>0 DEF Wired
        <5>. QED  BY <1>0, <5>1, RequestOf
      <4>2. CallsGoOn(request[t])
        BY <3>1, <4>1
      <4>. QED  BY <3>2, <4>2 DEF Stopped, CallsGoOn
    <3>3. CASE cancelling = request[t]
      <4>1. request[t] \in ReqIds /\ CallsGoOn(request[t]) /\ request[t][1] = t
        <5>1. request[t] # NoId
          BY <3>1, <3>3, QueueAssumption
        <5>. QED  BY <1>0, <3>1, <3>3, <5>1 DEF Wired
      <4>2. call[request[t]] # "none"
        BY <1>0, <3>1, <3>3, <4>1, QueueAssumption DEF Cancelling, Cutting
      <4>3. call'[request[t]] # "waiting"
        <5>1. CASE cancelling \in DOMAIN tickets /\ tickets[cancelling].state = "waiting"
          <6>1. cancelling \notin DOMAIN tickets'
            BY <1>0, <2>4, <5>1, CancelRemoveEffect DEF TicketsLeave
          <6>. QED  BY <3>3, <4>1, <6>1 DEF NoLostWakeup
        <5>2. CASE ~(cancelling \in DOMAIN tickets /\ tickets[cancelling].state = "waiting")
          <6>1. call[request[t]] # "waiting"
            BY <1>0, <3>3, <4>1, <5>2 DEF NoLostWakeup
          <6>. QED  BY <4>1, <6>1 DEF CallsGoOn
        <5>. QED  BY <5>1, <5>2
      <4>4. call'[request[t]] # "none"
        BY <4>1, <4>2 DEF CallsGoOn
      <4>. QED  BY <2>1, <4>3, <4>4 DEF Stopped
    <3>. QED  BY <3>2, <3>3
  <2>. QED  BY <1>7, <2>2, <2>3, <2>4 DEF HostStep
<1>8. CASE Tick \/ Suspend
  <2>1. UNCHANGED <<pc, request, aborted, inbox, call, cancelled_early, cancelling>>
    BY <1>8 DEF Tick, Suspend, Elapse, clientVars
  <2>. QED  BY <1>6, <2>1 DEF CallsGoOn
<1>9. CASE UNCHANGED allVars
  BY <1>6, <1>9 DEF allVars, clientVars, vars, queue, CallsGoOn
<1>. QED  BY <1>1, <1>2, <1>3, <1>4, <1>7, <1>8, <1>9 DEF TurnsNext

\* A stopped turn does not stand in the queue once its commands are through, as
\* long as there is room to remember the cancels that come before their
\* acquires.
THEOREM StoppedTurnsLeave ==
    ASSUME IsFiniteSet(Turns), Cardinality(Turns) <= EarlyCancelCap
    PROVE  TurnsSpec => []StoppedNotQueued
<1> DEFINE AllStopped == \A t \in Turns : Stopped(t)
<1>0. Room
  BY DEF Room
<1>1. TurnsInit => AllStopped
  BY DEF TurnsInit, Stopped
<1>2. AllStopped /\ Ordered /\ Ordered' /\ [TurnsNext]_allVars => AllStopped'
  BY <1>0, StoppedStep DEF Ordered
<1>3. AllStopped /\ Ordered /\ NoTicketLeftBehind => StoppedNotQueued
  <2> SUFFICES ASSUME AllStopped, Ordered, NoTicketLeftBehind, NEW t \in Turns, aborted[t], pc[t] # "gone",
                      ~Pending(t), NEW id \in DOMAIN tickets, id[1] = t
               PROVE  tickets[id].state = "running"
    BY DEF StoppedNotQueued
  <2>1. pc[t] \in Live
    BY DEF NoTicketLeftBehind, Ordered, Wired
  <2>2. request[t] \in ReqIds /\ request[t] = <<t, request[t][2]>> /\ request[t][2] \in Nat /\ request[t] # NoId
    BY <2>1, RequestOf, QueueAssumption DEF Ordered
  <2>3. id \in ReqIds /\ id = <<t, id[2]>> /\ id[2] \in Nat
    <3>1. id \in ReqIds
      BY DEF Ordered, TypeOK
    <3>. QED  BY <3>1, IdShape
  <2>4. \A op : Sent(t, op) = {}
    BY DEF Pending, Sent, Of, Box
  <2>5. Asking(t) /\ Earlier(t) /\ Later(t)
    BY <2>1 DEF Ordered, Flow, Live
  <2>6. id = request[t]
    <3>1. ~(id[2] < request[t][2])
      BY <2>2, <2>3, <2>4, <2>5 DEF Earlier
    <3>2. ~(id[2] > request[t][2])
      BY <2>1, <2>3, <2>5 DEF Later, Live
    <3>3. id[2] = request[t][2]
      BY <2>2, <2>3, <3>1, <3>2
    <3>. QED  BY <2>2, <2>3, <3>3
  <2>7. cancelling # request[t]
    BY <2>2, QueueAssumption DEF Pending
  <2>8. call[id] # "none"
    BY DEF Ordered, Placed
  <2>9. call[id] # "waiting"
    BY <2>4, <2>6, <2>7, <2>8 DEF Stopped
  <2>10. tickets[id].state \in {"waiting", "running"}
    BY DEF Ordered, TypeOK, Ticket, TicketState
  <2>. QED  BY <2>3, <2>9, <2>10 DEF Ordered, NoLostWakeup
<1>. HIDE DEF AllStopped
<1>. QED  BY <1>1, <1>2, <1>3, OrderedAlways, TurnsLeaveNothing, PTL DEF TurnsSpec

-----------------------------------------------------------------------------
(* What the queue holds for a turn. *)

\* An entry beaten since the last tick, or once ticked since: the sweeper, which
\* takes those whose lease is over, leaves it.
Young(f, id) == id \in DOMAIN f => f[id].lease >= LeaseTtl - 1

\* Where the request that a turn gives back stands.
Place(t) == IF Sent(t, "release") # {} THEN DOMAIN tickets ELSE DOMAIN reservations

Holding(t) ==
    /\ pc[t] = "held" => request[t] \in DOMAIN tickets
    /\ pc[t] = "released" => request[t] \in Place(t)

\* Until its acquire has run, the request before keeps the turn's place; then it
\* has a ticket of its own.
Awaiting(t) ==
    pc[t] \in {"acquiring", "returning"} /\ ~aborted[t] =>
        IF call[request[t]] = "none"
        THEN pc[t] = "returning" =>
                /\ Previous(t) \in Place(t)
                /\ Young(tickets, Previous(t)) /\ Young(reservations, Previous(t))
        ELSE /\ call[request[t]] \in {"waiting", "woken", "admitted"}
             /\ request[t] \in DOMAIN tickets

Standing(t) ==
    suspends = 0 /\ pc[t] \in Live =>
        /\ Young(tickets, request[t]) /\ Young(reservations, request[t])
        /\ Holding(t) /\ Awaiting(t)

\* A lease is longer than the time between two beats.
LongLease == LeaseTtl >= 2

\* What leaves an entry alone, or renews it.
Ages(f, g, id) == id \in DOMAIN g => id \in DOMAIN f /\ g[id].lease \in {f[id].lease, LeaseTtl}
Survives(f, g, id) == id \in DOMAIN f /\ f[id].lease # 0 => id \in DOMAIN g

\* Of a turn's entries, only the ticket of a stopped waiter goes before its
\* lease is over.
Remain(t) ==
    \A id \in ReqIds : id[1] = t =>
        /\ CallsGoOn(id) /\ StaysAsked(id)
        /\ Ages(tickets, tickets', id) /\ Ages(reservations, reservations', id)
        /\ Survives(reservations, reservations', id)
        /\ Survives(tickets, tickets', id) \/ (aborted[t] /\ tickets[id].state = "waiting")

LEMMA AgesYoung ==
    ASSUME NEW f, NEW g, NEW id, Ages(f, g, id), Young(f, id)
    PROVE  Young(g, id)
<1>1. LeaseTtl \in Nat
  BY QueueAssumption
<1>. QED  BY <1>1 DEF Ages, Young

LEMMA SurvivesYoung ==
    ASSUME LongLease, NEW f, NEW g, NEW id, Survives(f, g, id), Young(f, id), id \in DOMAIN f
    PROVE  id \in DOMAIN g
<1>1. LeaseTtl \in Nat
  BY QueueAssumption
<1>. QED  BY <1>1 DEF Survives, Young, LongLease

LEMMA PreviousOf ==
    ASSUME Wired, NEW t \in Turns, pc[t] = "returning"
    PROVE  Previous(t) \in ReqIds /\ Previous(t)[1] = t /\ Previous(t) # request[t]
<1>1. /\ request[t] \in ReqIds /\ request[t] = <<t, request[t][2]>> /\ request[t][2] \in Nat \ {0}
      /\ request[t][2] > 1
  BY RequestOf DEF Live, Wired
<1>2. request[t][2] \in 1..MaxRequests[t] /\ MaxRequests[t] \in Nat
  BY <1>1, IdShape
<1>3. request[t][2] - 1 \in 1..MaxRequests[t]
  BY <1>1, <1>2
<1>. QED  BY <1>1, <1>3, IdOf DEF Previous

LEMMA StandingKept ==
    ASSUME Ordered, LongLease, NEW t \in Turns, Standing(t), Remain(t),
           pc'[t] = pc[t], request'[t] = request[t], aborted[t] => aborted'[t],
           Sent(t, "release")' = Sent(t, "release"), suspends' = suspends
    PROVE  Standing(t)'
<1>0. Wired /\ TypeOK /\ NoLostWakeup /\ Placed
  BY DEF Ordered
<1> SUFFICES ASSUME suspends = 0, pc[t] \in Live
             PROVE  /\ Young(tickets', request[t]) /\ Young(reservations', request[t])
                    /\ Holding(t)' /\ Awaiting(t)'
  BY DEF Standing, Young
<1>1. request[t] \in ReqIds /\ request[t][1] = t
  BY <1>0, RequestOf
<1>2. /\ CallsGoOn(request[t]) /\ StaysAsked(request[t])
      /\ Ages(tickets, tickets', request[t]) /\ Ages(reservations, reservations', request[t])
      /\ Survives(reservations, reservations', request[t])
      /\ \/ Survives(tickets, tickets', request[t])
         \/ aborted[t] /\ tickets[request[t]].state = "waiting"
  BY <1>1 DEF Remain
<1>3. /\ Young(tickets, request[t]) /\ Young(reservations, request[t])
      /\ Holding(t) /\ Awaiting(t)
  BY DEF Standing
<1>4. Young(tickets', request[t]) /\ Young(reservations', request[t])
  BY <1>2, <1>3, AgesYoung
<1>5. pc[t] \in {"held", "released"} /\ request[t] \in DOMAIN tickets => request[t] \in DOMAIN tickets'
  <2> SUFFICES ASSUME pc[t] \in {"held", "released"}, request[t] \in DOMAIN tickets
               PROVE  request[t] \in DOMAIN tickets'
    OBVIOUS
  <2>1. call[request[t]] = "admitted"
    BY DEF Ordered, Flow, Asking
  <2>2. tickets[request[t]].state # "waiting"
    BY <1>0, <1>1, <2>1 DEF NoLostWakeup
  <2>. QED  BY <1>2, <1>3, <2>2, SurvivesYoung
<1>6. request[t] \in DOMAIN reservations => request[t] \in DOMAIN reservations'
  BY <1>2, <1>3, SurvivesYoung
<1>7. Holding(t)'
  <2>1. request[t] \in Place(t) /\ pc[t] = "released" => request[t] \in Place(t)'
    BY <1>5, <1>6 DEF Place
  <2>. QED  BY <1>3, <1>5, <2>1 DEF Holding
<1>8. Awaiting(t)'
  <2> SUFFICES ASSUME pc[t] \in {"acquiring", "returning"}, ~aborted[t]
               PROVE  IF call'[request[t]] = "none"
                      THEN pc[t] = "returning" =>
                              /\ Previous(t) \in Place(t)'
                              /\ Young(tickets', Previous(t)) /\ Young(reservations', Previous(t))
                      ELSE /\ call'[request[t]] \in {"waiting", "woken", "admitted"}
                           /\ request[t] \in DOMAIN tickets'
    <3>1. Previous(t)' = Previous(t)
      BY DEF Previous
    <3>. QED  BY <3>1 DEF Awaiting, Young
  <2>1. call'[request[t]] = "none" <=> call[request[t]] = "none"
    BY <1>2 DEF CallsGoOn
  <2>2. CASE call[request[t]] = "none"
    <3> SUFFICES ASSUME pc[t] = "returning"
                 PROVE  /\ Previous(t) \in Place(t)'
                        /\ Young(tickets', Previous(t)) /\ Young(reservations', Previous(t))
      BY <2>1, <2>2
    <3>1. Previous(t) \in ReqIds /\ Previous(t)[1] = t
      BY <1>0, PreviousOf
    <3>2. /\ Ages(tickets, tickets', Previous(t)) /\ Ages(reservations, reservations', Previous(t))
          /\ Survives(reservations, reservations', Previous(t)) /\ Survives(tickets, tickets', Previous(t))
      BY <3>1 DEF Remain
    <3>3. /\ Previous(t) \in Place(t)
          /\ Young(tickets, Previous(t)) /\ Young(reservations, Previous(t))
      BY <1>3, <2>2 DEF Awaiting
    <3>4. Young(tickets', Previous(t)) /\ Young(reservations', Previous(t))
      BY <3>2, <3>3, AgesYoung
    <3>5. /\ Previous(t) \in DOMAIN tickets => Previous(t) \in DOMAIN tickets'
          /\ Previous(t) \in DOMAIN reservations => Previous(t) \in DOMAIN reservations'
      BY <3>2, <3>3, SurvivesYoung
    <3>. QED  BY <3>3, <3>4, <3>5 DEF Place
  <2>3. CASE call[request[t]] # "none"
    <3>1. call[request[t]] \in {"waiting", "woken", "admitted"} /\ request[t] \in DOMAIN tickets
      BY <1>3, <2>3 DEF Awaiting
    <3>2. request[t] \in DOMAIN tickets'
      BY <1>2, <1>3, <3>1, SurvivesYoung
    <3>. QED  BY <1>2, <2>1, <2>3, <3>1, <3>2 DEF StaysAsked
  <2>. QED  BY <2>2, <2>3
<1>. QED  BY <1>4, <1>7, <1>8

-----------------------------------------------------------------------------
(* Steps that let a turn's entries remain. *)

LEMMA RemainSame ==
    ASSUME NEW t \in Turns, UNCHANGED queue
    PROVE  Remain(t)
BY DEF queue, Remain, CallsGoOn, StaysAsked, Ages, Survives

LEMMA RemainBeat ==
    ASSUME TypeOK, NEW id \in ReqIds, heartbeat(id), NEW t \in Turns
    PROVE  Remain(t)
<1>1. UNCHANGED call
  BY DEF heartbeat
<1>2. DOMAIN tickets' = DOMAIN tickets /\ DOMAIN reservations' = DOMAIN reservations
  BY DEF heartbeat
<1>3. ASSUME NEW i \in DOMAIN tickets PROVE tickets'[i].lease \in {tickets[i].lease, LeaseTtl}
  <2>1. tickets[i] \in Ticket
    BY DEF TypeOK
  <2>2. tickets'[i] = IF i = id THEN [tickets[i] EXCEPT !.lease = LeaseTtl] ELSE tickets[i]
    BY DEF heartbeat
  <2>. QED  BY <2>1, <2>2 DEF Ticket
<1>4. ASSUME NEW i \in DOMAIN reservations
      PROVE  reservations'[i].lease \in {reservations[i].lease, LeaseTtl}
  <2>1. reservations[i] \in Reservation
    BY DEF TypeOK
  <2>2. reservations'[i] = IF i = id THEN [reservations[i] EXCEPT !.lease = LeaseTtl] ELSE reservations[i]
    BY DEF heartbeat
  <2>. QED  BY <2>1, <2>2 DEF Reservation
<1>. QED  BY <1>1, <1>2, <1>3, <1>4 DEF Remain, CallsGoOn, StaysAsked, Ages, Survives

LEMMA RemainLeaving ==
    ASSUME TypeOK, NEW t \in Turns, NEW S, TicketsLeave(S), NEW R, ReservationsEnd(R),
           \A id \in S : id \in DOMAIN tickets /\ id[1] = t =>
               tickets[id].lease = 0 \/ (aborted[t] /\ tickets[id].state = "waiting"),
           \A id \in R : id \in DOMAIN reservations /\ id[1] = t => reservations[id].lease = 0
    PROVE  Remain(t)
<1> SUFFICES ASSUME NEW id \in ReqIds, id[1] = t
             PROVE  /\ CallsGoOn(id) /\ StaysAsked(id)
                    /\ Ages(tickets, tickets', id) /\ Ages(reservations, reservations', id)
                    /\ Survives(reservations, reservations', id)
                    /\ Survives(tickets, tickets', id) \/ (aborted[t] /\ tickets[id].state = "waiting")
  BY DEF Remain
<1>1. CallsGoOn(id) /\ StaysAsked(id)
  BY DEF TicketsLeave
<1>2. Ages(tickets, tickets', id) /\ Ages(reservations, reservations', id)
  BY DEF TicketsLeave, ReservationsEnd, SameTicket, Ages
<1>3. Survives(reservations, reservations', id)
  BY DEF ReservationsEnd, Survives
<1>4. Survives(tickets, tickets', id) \/ (aborted[t] /\ tickets[id].state = "waiting")
  BY DEF TicketsLeave, Survives
<1>. QED  BY <1>1, <1>2, <1>3, <1>4

LEMMA RemainRelease ==
    ASSUME TypeOK, NEW id \in ReqIds, NEW reserve \in BOOLEAN, release_with(id, reserve),
           NEW t \in Turns, id[1] # t
    PROVE  Remain(t)
<1>1. TicketsLeave({id})
  BY ReleaseEffect
<1>2. CASE id \notin DOMAIN tickets \/ ~reserve
  <2>1. ReservationsEnd({id})
    BY <1>2, ReleaseEffect
  <2>. QED  BY <1>1, <2>1, RemainLeaving
<1>3. CASE id \in DOMAIN tickets /\ reserve
  <2>1. /\ DOMAIN reservations' = DOMAIN reservations \cup {id}
        /\ \A r \in DOMAIN reservations \ {id} : reservations'[r] = reservations[r]
    BY <1>3, ReleaseEffect
  <2>. QED  BY <1>1, <2>1 DEF TicketsLeave, SameTicket, Remain, Ages, Survives
<1>. QED  BY <1>2, <1>3

LEMMA RemainHost ==
    ASSUME Ordered, HostStep, NEW t \in Turns
    PROVE  Remain(t)
<1>0. TypeOK /\ Cancelling(t)
  BY DEF Ordered
<1>1. CASE CancelRemove
  <2>1. ReservationsEnd({})
    BY <1>0, <1>1, CancelRemoveEffect
  <2>2. CASE TicketsLeave({})
    BY <1>0, <2>1, <2>2, RemainLeaving
  <2>3. CASE TicketsLeave({cancelling}) /\ cancelling \in DOMAIN tickets /\ tickets[cancelling].state = "waiting"
    <3>1. cancelling[1] = t => aborted[t]
      BY <1>0, <1>1, CancelRemoveEffect DEF CancelRemove, Cancelling, Cutting
    <3>. QED  BY <1>0, <2>1, <2>3, <3>1, RemainLeaving
  <2>. QED  BY <1>0, <1>1, <2>2, <2>3, CancelRemoveEffect
<1>2. CASE sweep_expired
  <2>1. TicketsLeave(Lapsed(tickets)) /\ ReservationsEnd(Lapsed(reservations))
    BY <1>0, <1>2, SweepEffect
  <2>. QED  BY <1>0, <2>1, RemainLeaving DEF Lapsed
<1>3. ASSUME NEW id \in ReqIds, Resume(id) PROVE Remain(t)
  <2>1. TicketsLeave({}) /\ ReservationsEnd({})
    BY <1>0, <1>3, ResumeEffect
  <2>. QED  BY <1>0, <2>1, RemainLeaving
<1>. QED  BY <1>1, <1>2, <1>3 DEF HostStep

LEMMA StandingBegin ==
    ASSUME Ordered, NEW t \in Turns, Begin(t)
    PROVE  Standing(t)'
<1>0. Wired
  BY DEF Ordered
<1>1. /\ pc[t] = "idle" /\ pc'[t] = "acquiring" /\ request'[t] = <<t, 1>>
      /\ UNCHANGED <<tickets, reservations, call>>
  BY <1>0 DEF Begin, Wired, vars, queue
<1>2. request[t] = NoId /\ <<t, 1>> \in ReqIds
  <2>1. 1 \in 1..MaxRequests[t]
    BY TurnsAssumption
  <2>. QED  BY <1>0, <1>1, <2>1, IdOf DEF Wired
<1>3. call[<<t, 1>>] = "none" /\ <<t, 1>> \notin DOMAIN tickets /\ <<t, 1>> \notin DOMAIN reservations
  BY <1>1, <1>2 DEF Ordered, Flow, Later
<1>. QED  BY <1>1, <1>3 DEF Standing, Young, Holding, Awaiting

LEMMA StandingGiveBack ==
    ASSUME Ordered, NEW t \in Turns, GiveBack(t), Standing(t)
    PROVE  Standing(t)'
<1>0. Wired
  BY DEF Ordered
<1>1. /\ pc[t] = "held" /\ pc'[t] = "released" /\ Send(t, ReleaseOf(request[t], TRUE))
      /\ UNCHANGED <<tickets, reservations, request, suspends>>
  BY <1>0 DEF GiveBack, Wired, vars, queue
<1>2. request[t] \in ReqIds /\ request[t][1] = t
  BY <1>0, <1>1, RequestOf DEF Live
<1>3. PICK m \in Commands : m = ReleaseOf(request[t], TRUE)
  BY <1>2, CommandTypes DEF Commands
<1>4. m.op = "release" /\ m.id = request[t]
  BY <1>3 DEF ReleaseOf
<1>5. Sent(t, m.op)' = Sent(t, m.op) \cup {m}
  BY <1>0, <1>1, <1>2, <1>3, <1>4, OwnSend DEF Ops
<1>6. Sent(t, "release")' # {}
  BY <1>4, <1>5
<1> SUFFICES ASSUME suspends = 0
             PROVE  /\ Young(tickets, request[t]) /\ Young(reservations, request[t])
                    /\ request[t] \in DOMAIN tickets
  BY <1>1, <1>6 DEF Standing, Young, Holding, Awaiting, Place
<1>. QED  BY <1>1 DEF Standing, Holding, Live

LEMMA StandingTakeBack ==
    ASSUME Ordered, NEW t \in Turns, TakeBack(t), Standing(t)
    PROVE  Standing(t)'
<1>0. Wired
  BY DEF Ordered
<1> DEFINE next == <<t, request[t][2] + 1>>
<1>1. /\ pc[t] = "released" /\ pc'[t] = "returning" /\ request'[t] = next
      /\ request[t][2] < MaxRequests[t] /\ aborted' = aborted
      /\ UNCHANGED <<tickets, reservations, call, suspends>>
  BY <1>0 DEF TakeBack, Wired, vars, queue
<1>2. /\ request[t] \in ReqIds /\ request[t] = <<t, request[t][2]>> /\ request[t][2] \in Nat \ {0}
      /\ request[t] # NoId
  BY <1>0, <1>1, RequestOf, QueueAssumption DEF Live
<1>3. next \in ReqIds /\ next[1] = t /\ next[2] > request[t][2]
  <2>1. request[t][2] + 1 \in 1..MaxRequests[t]
    BY <1>1, <1>2, TurnsAssumption
  <2>. QED  BY <1>2, <2>1, IdOf
<1>4. call[next] = "none" /\ next \notin DOMAIN tickets /\ next \notin DOMAIN reservations
  BY <1>1, <1>3 DEF Ordered, Flow, Later
<1>5. Previous(t)' = request[t]
  BY <1>1, <1>2 DEF Previous
<1>6. Sent(t, "release")' = Sent(t, "release")
  <2>1. PICK mp \in MaxParallelArgs : Send(t, AcquireOf(next, mp, request[t]))
    BY DEF TakeBack
  <2>2. Replaced(next) = request[t]
    BY <1>2, <1>3 DEF Replaced
  <2>3. PICK m \in Commands : m = AcquireOf(next, mp, request[t])
    BY <1>3, <2>2, CommandTypes DEF Commands
  <2>4. m.op = "acquire" /\ m.id = next
    BY <2>3 DEF AcquireOf
  <2>5. \A op \in Ops \ {m.op} : Sent(t, op)' = Sent(t, op) /\ (Once(t, op) => Once(t, op)')
    BY <1>0, <1>3, <2>1, <2>3, <2>4, OwnSend DEF Ops
  <2>. QED  BY <2>4, <2>5 DEF Ops
<1>7. Place(t)' = Place(t)
  BY <1>1, <1>6 DEF Place
<1> HIDE DEF next
<1> SUFFICES ASSUME suspends = 0
             PROVE  /\ Young(tickets, request[t]) /\ Young(reservations, request[t])
                    /\ request[t] \in Place(t)
  BY <1>1, <1>4, <1>5, <1>7 DEF Standing, Young, Holding, Awaiting
<1>. QED  BY <1>1 DEF Standing, Holding, Live

LEMMA StandingTurn ==
    ASSUME Ordered, LongLease, NEW u \in Turns, TurnStep(u), NEW t \in Turns, Standing(t)
    PROVE  Standing(t)'
<1>0. Wired /\ TypeOK
  BY DEF Ordered
<1>1. Remain(t)
  <2>1. CASE Beat(u)
    <3>1. request[u] \in ReqIds
      BY <1>0, <2>1, RequestOf DEF Beat
    <3>. QED  BY <1>0, <2>1, <3>1, RemainBeat DEF Beat
  <2>2. CASE UNCHANGED vars
    BY <2>2, RemainSame DEF vars
  <2>. QED  BY <1>0, <2>1, <2>2, TurnFrame
<1>2. suspends' = suspends
  BY DEF TurnStep, Begin, Abort, Admitted, NotAdmitted, Finish, GiveBack, TakeBack, Return, Beat, clientVars
<1>3. CASE u # t
  <2>1. Bystander(t) /\ aborted'[t] = aborted[t]
    BY <1>0, <1>3, OthersStay, TurnFrame
  <2>. QED  BY <1>1, <1>2, <2>1, StandingKept DEF Bystander
<1>4. CASE u = t
  <2>1. CASE Begin(t)
    BY <2>1, StandingBegin
  <2>2. CASE Abort(t)
    <3>1. request[t] \in ReqIds /\ request[t][1] = t
      BY <1>0, <2>2, RequestOf DEF Abort
    <3>2. PICK m \in Commands : m = CancelOf(request[t])
      BY <3>1, CommandTypes DEF Commands
    <3>3. m.op = "cancel" /\ m.id = request[t] /\ Send(t, m)
      BY <2>2, <3>2 DEF Abort, CancelOf
    <3>4. \A op \in Ops \ {m.op} : Sent(t, op)' = Sent(t, op) /\ (Once(t, op) => Once(t, op)')
      BY <1>0, <3>1, <3>3, OwnSend DEF Ops
    <3>5. Sent(t, "release")' = Sent(t, "release")
      BY <3>3, <3>4 DEF Ops
    <3>6. pc' = pc /\ request' = request /\ aborted'[t]
      BY <1>0, <2>2 DEF Abort, Wired
    <3>. QED  BY <1>1, <1>2, <3>5, <3>6, StandingKept
  <2>3. CASE Admitted(t)
    <3>1. /\ pc[t] \in {"acquiring", "returning"} /\ call[request[t]] = "admitted" /\ ~aborted[t]
          /\ pc'[t] = "held" /\ UNCHANGED <<tickets, reservations, request>>
      BY <1>0, <2>3 DEF Admitted, Wired, vars, queue
    <3> SUFFICES ASSUME suspends = 0
                 PROVE  /\ Young(tickets, request[t]) /\ Young(reservations, request[t])
                        /\ request[t] \in DOMAIN tickets
      BY <1>2, <3>1 DEF Standing, Young, Holding, Awaiting
    <3>. QED  BY <3>1 DEF Standing, Awaiting, Live
  <2>4. CASE NotAdmitted(t) \/ Return(t)
    <3>1. pc'[t] = "done"
      BY <1>0, <2>4 DEF NotAdmitted, Return, Finish, Wired
    <3>. QED  BY <3>1 DEF Standing, Live
  <2>5. CASE GiveBack(t)
    BY <2>5, StandingGiveBack
  <2>6. CASE TakeBack(t)
    BY <2>6, StandingTakeBack
  <2>7. CASE Beat(t)
    <3>1. UNCHANGED <<pc, request, aborted, inbox>>
      BY <2>7 DEF Beat, clientVars
    <3>. QED  BY <1>1, <1>2, <3>1, StandingKept DEF Sent, Of, Box
  <2>. QED  BY <1>4, <2>1, <2>2, <2>3, <2>4, <2>5, <2>6, <2>7 DEF TurnStep
<1>. QED  BY <1>3, <1>4

\* The release that a turn sent is taken up.
LEMMA StandingRelease ==
    ASSUME Ordered, LongLease, NEW t \in Turns, Standing(t), NEW m \in Sent(t, "release"),
           m.id \in ReqIds, m.reserve \in BOOLEAN, release_with(m.id, m.reserve),
           Sent(t, "release")' = {}, UNCHANGED <<pc, request, aborted, suspends>>
    PROVE  Standing(t)'
<1>0. Wired /\ TypeOK /\ Placed
  BY DEF Ordered
<1> SUFFICES ASSUME suspends = 0, pc[t] \in Live PROVE Standing(t)'
  BY DEF Standing
<1>1. request[t] \in ReqIds /\ request[t][1] = t
  BY <1>0, RequestOf
<1>2. /\ Young(tickets, request[t]) /\ Young(reservations, request[t])
      /\ Holding(t) /\ Awaiting(t)
  BY DEF Standing
<1>3. Asking(t) /\ Releasing(t)
  BY DEF Ordered, Flow, Live
<1>4. /\ pc[t] = "released" \/ (pc[t] = "returning" /\ Sent(t, "acquire") # {})
      /\ m.reserve /\ m.id = (IF pc[t] = "released" THEN request[t] ELSE Previous(t))
  BY <1>3 DEF Releasing, Live
<1>5. TicketsLeave({m.id})
  BY <1>0, ReleaseEffect
<1>6. m.id \in DOMAIN tickets =>
          /\ DOMAIN reservations' = DOMAIN reservations \cup {m.id}
          /\ \A r \in DOMAIN reservations \ {m.id} : reservations'[r] = reservations[r]
          /\ reservations'[m.id].lease = LeaseTtl
  <2> SUFFICES ASSUME m.id \in DOMAIN tickets
               PROVE  /\ DOMAIN reservations' = DOMAIN reservations \cup {m.id}
                      /\ \A r \in DOMAIN reservations \ {m.id} : reservations'[r] = reservations[r]
                      /\ reservations'[m.id].lease = LeaseTtl
    OBVIOUS
  <2>1. /\ DOMAIN reservations' = DOMAIN reservations \cup {m.id}
        /\ \A r \in DOMAIN reservations \ {m.id} : reservations'[r] = reservations[r]
        /\ reservations'[m.id] = [lane |-> tickets[m.id].lane,
                                  owner_window |-> tickets[m.id].owner_window, lease |-> LeaseTtl]
    BY <1>0, <1>4, ReleaseEffect
  <2>. QED  BY <2>1
<1>7. LeaseTtl \in Nat
  BY QueueAssumption
<1>8. Place(t) = DOMAIN tickets /\ Place(t)' = DOMAIN reservations'
  BY DEF Place
<1>9. CASE pc[t] = "released"
  <2>1. m.id = request[t] /\ request[t] \in DOMAIN tickets
    BY <1>2, <1>4, <1>8, <1>9 DEF Holding
  <2>2. request[t] \in DOMAIN reservations' /\ request[t] \notin DOMAIN tickets'
    BY <1>5, <1>6, <2>1 DEF TicketsLeave
  <2>3. reservations'[request[t]].lease >= LeaseTtl - 1
    BY <1>6, <1>7, <2>1
  <2>. QED  BY <1>8, <1>9, <2>2, <2>3 DEF Standing, Young, Holding, Awaiting
<1>10. CASE pc[t] = "returning" /\ Sent(t, "acquire") # {}
  <2>1. call[request[t]] = "none"
    BY <1>3, <1>10 DEF Asking
  <2>2. request[t] \notin DOMAIN tickets /\ call'[request[t]] = "none"
    BY <1>0, <1>1, <1>5, <2>1 DEF Placed, TicketsLeave, CallsGoOn
  <2>3. m.id = Previous(t) /\ Previous(t) # request[t] /\ Previous(t)' = Previous(t)
    BY <1>0, <1>4, <1>10, PreviousOf DEF Previous
  <2>4. request[t] \notin DOMAIN tickets'
    BY <1>5, <2>2 DEF TicketsLeave
  <2>5. CASE aborted[t]
    <3>1. Young(reservations', request[t])
      <4>1. CASE m.id \in DOMAIN tickets
        BY <1>2, <1>6, <2>3, <4>1 DEF Young
      <4>2. CASE m.id \notin DOMAIN tickets
        <5>1. ReservationsEnd({m.id})
          BY <1>0, <4>2, ReleaseEffect
        <5>. QED  BY <1>2, <5>1 DEF Young, ReservationsEnd
      <4>. QED  BY <4>1, <4>2
    <3>. QED  BY <1>10, <2>4, <2>5, <3>1 DEF Standing, Young, Holding, Awaiting
  <2>6. CASE ~aborted[t]
    <3>1. m.id \in DOMAIN tickets
      BY <1>2, <1>8, <1>10, <2>1, <2>3, <2>6 DEF Awaiting
    <3>2. /\ Previous(t) \in DOMAIN reservations' /\ Previous(t) \notin DOMAIN tickets'
          /\ reservations'[Previous(t)].lease >= LeaseTtl - 1
      BY <1>5, <1>6, <1>7, <2>3, <3>1 DEF TicketsLeave
    <3>3. Young(reservations', request[t])
      BY <1>2, <1>6, <2>3, <3>1 DEF Young
    <3>. QED  BY <1>8, <1>10, <2>2, <2>3, <2>4, <3>2, <3>3 DEF Standing, Young, Holding, Awaiting
  <2>. QED  BY <2>5, <2>6
<1>. QED  BY <1>4, <1>9, <1>10

LEMMA StandingDispatch ==
    ASSUME Ordered, LongLease, NEW w \in Windows, Dispatch(w), NEW t \in Turns, Standing(t)
    PROVE  Standing(t)'
<1>0. Wired /\ TypeOK /\ Addressed /\ Placed
  BY DEF Ordered
<1>1. PICK m \in Commands : m = Head(inbox[w])
  BY <1>0, HeadTypes DEF Dispatch
<1>2. /\ inbox[w] # <<>> /\ Handle(m) /\ inbox' = [inbox EXCEPT ![w] = Tail(@)]
      /\ UNCHANGED <<pc, request, aborted, suspends>>
  BY <1>1 DEF Dispatch
<1> SUFFICES ASSUME pc[t] \in Live PROVE Standing(t)'
  BY <1>2 DEF Standing
<1>3. Asking(t) /\ Releasing(t) /\ Resetting(t)
  BY DEF Ordered, Flow, Live
<1> DEFINE mine == m.op # "release_window" /\ m.id[1] = t
<1>4. ~mine \/ m.op # "release" => Sent(t, "release")' = Sent(t, "release")
  <2>1. ~mine => SameView(t)
    BY <1>0, <1>1, <1>2, TakeView
  <2>2. mine => \A op \in Ops \ {m.op} : Sent(t, op)' = Sent(t, op) /\ (Once(t, op) => Once(t, op)')
    BY <1>0, <1>1, <1>2, TakeView
  <2>. QED  BY <2>1, <2>2 DEF SameView, Ops
<1>5. CASE m \in Acquires \cup Cancels
  <2>1. UNCHANGED queue
    <3>1. CASE m \in Acquires
      BY <1>2, <3>1 DEF Handle, Acquires, vars
    <3>2. CASE m \in Cancels
      <4>1. CancelUnknown(m.id) \/ CancelFound(m.id)
        BY <1>2, <3>2 DEF Handle, Cancels
      <4>. QED  BY <4>1 DEF CancelUnknown, CancelFound
    <3>. QED  BY <1>5, <3>1, <3>2
  <2>2. m.op # "release"
    BY <1>5 DEF Acquires, Cancels
  <2>. QED  BY <1>2, <1>4, <2>1, <2>2, RemainSame, StandingKept
<1>6. CASE m \in Releases
  <2>1. m.id \in ReqIds /\ m.op = "release" /\ m.reserve \in BOOLEAN
    BY <1>6 DEF Releases
  <2>2. release_with(m.id, m.reserve)
    BY <1>2, <2>1 DEF Handle
  <2>3. CASE ~mine
    <3>1. m.id[1] # t
      BY <2>1, <2>3
    <3>2. Remain(t)
      BY <1>0, <2>1, <2>2, <3>1, RemainRelease
    <3>. QED  BY <1>2, <1>4, <2>3, <3>2, StandingKept
  <2>4. CASE mine
    <3>1. mine => m \in Sent(t, m.op)
      BY <1>0, <1>1, <1>2, TakeView
    <3>2. mine => (Once(t, m.op) => Sent(t, m.op)' = {} /\ Once(t, m.op)')
      BY <1>0, <1>1, <1>2, TakeView
    <3>3. Once(t, "release")
      BY <1>3 DEF Releasing, Live
    <3>4. m \in Sent(t, "release") /\ Sent(t, "release")' = {}
      BY <2>1, <2>4, <3>1, <3>2, <3>3
    <3>. QED  BY <1>2, <2>1, <2>2, <3>4, StandingRelease
  <2>. QED  BY <2>3, <2>4
<1>7. CASE m \in WindowReleases
  <2>1. m.op = "release_window" /\ m.window \in Windows /\ release_window(m.window)
    BY <1>2, <1>7 DEF Handle, WindowReleases
  <2>2. /\ m.op = "release_window" => m.window = w
        /\ m.op = "release_window" => Resets(w) # {}
    BY <1>0, <1>1, <1>2, TakeView
  <2>3. /\ TicketsLeave({id \in DOMAIN tickets : tickets[id].owner_window = w})
        /\ ReservationsEnd({id \in DOMAIN reservations : reservations[id].owner_window = w})
    BY <1>0, <2>1, <2>2, ReleaseWindowEffect
  <2>4. CASE TurnWindow[t] # w
    <3>1. Remain(t)
      BY <1>0, <2>3, <2>4, RemainLeaving DEF Placed
    <3>. QED  BY <1>2, <1>4, <2>1, <3>1, StandingKept
  <2>5. CASE TurnWindow[t] = w
    <3>1. pc[t] = "acquiring" /\ Sent(t, "acquire") # {}
      BY <1>3, <2>1, <2>2, <2>5, NoResets DEF Resetting
    <3>2. call[request[t]] = "none"
      BY <1>3, <3>1 DEF Asking
    <3>3. request[t] \in ReqIds
      BY <1>0, RequestOf
    <3>4. call'[request[t]] = "none" /\ request[t] \notin DOMAIN tickets'
      BY <1>0, <2>3, <3>2, <3>3 DEF TicketsLeave, CallsGoOn, Placed
    <3>5. Young(reservations, request[t]) => Young(reservations', request[t])
      BY <2>3 DEF Young, ReservationsEnd
    <3>. QED  BY <1>2, <3>1, <3>4, <3>5 DEF Standing, Young, Holding, Awaiting
  <2>. QED  BY <2>4, <2>5
<1>. QED  BY <1>5, <1>6, <1>7 DEF Commands

LEMMA StandingAcquire ==
    ASSUME Ordered, LongLease, NEW m \in spawned, RunAcquire(m), NEW t \in Turns, Standing(t)
    PROVE  Standing(t)'
<1>0. Wired /\ TypeOK /\ Cancelling(t)
  BY DEF Ordered
<1>1. /\ m \in Acquires /\ m.id \in ReqIds /\ m.id[1] \in Turns
      /\ UNCHANGED <<pc, request, aborted, inbox, suspends>>
  BY <1>0, RunEffect
<1> SUFFICES ASSUME pc[t] \in Live, suspends = 0 PROVE Standing(t)'
  BY <1>1 DEF Standing
<1>2. Sent(t, "release")' = Sent(t, "release")
  BY <1>1 DEF Sent, Of, Box
<1>3. m.id[1] = t => m.id = request[t] /\ pc[t] \in {"acquiring", "returning"}
  <2> SUFFICES ASSUME m.id[1] = t PROVE m.id = request[t] /\ pc[t] \in {"acquiring", "returning"}
    OBVIOUS
  <2>1. m \in Spawned(t)
    BY DEF Spawned
  <2>. QED  BY <2>1 DEF Ordered, Flow, Asking, Live
<1>4. CASE enqueue_cancelled(m.id)
  <2>1. /\ call'[m.id] = "refused" /\ \A other \in ReqIds \ {m.id} : call'[other] = call[other]
        /\ UNCHANGED <<tickets, reservations>>
        /\ \E i \in DOMAIN cancelled_early : cancelled_early[i] = m.id
    BY <1>0, <1>1, <1>4, RefuseEffect
  <2>2. CASE m.id[1] # t
    <3>1. Remain(t)
      BY <2>1, <2>2 DEF Remain, CallsGoOn, StaysAsked, Ages, Survives
    <3>. QED  BY <1>1, <1>2, <3>1, StandingKept
  <2>3. CASE m.id[1] = t
    <3>1. aborted[t]
      <4>1. Early(t) # {}
        BY <2>1, <2>3 DEF Early
      <4>. QED  BY <1>0, <4>1 DEF Cancelling
    <3>. QED  BY <1>1, <1>3, <2>1, <2>3, <3>1 DEF Standing, Young, Holding, Awaiting
  <2>. QED  BY <2>2, <2>3
<1>5. CASE enqueue_with(m.id, TurnLane[m.id[1]], m.max_parallel, TurnWindow[m.id[1]],
                        m.replaces # NoId, TurnPriority[m.id[1]], m.replaces)
  <2>1. /\ DOMAIN tickets' = DOMAIN tickets \cup {m.id}
        /\ \A id \in DOMAIN tickets : SameTicket(id)
        /\ tickets'[m.id].lease = LeaseTtl /\ call'[m.id] \in {"waiting", "woken"}
        /\ \A id \in ReqIds \ {m.id} : CallsGoOn(id) /\ StaysAsked(id)
        /\ ReservationsEnd({m.replaces})
    BY <1>0, <1>1, <1>5, EnterEffect
  <2>2. CASE m.id[1] # t
    <3>1. \A id \in ReqIds : id[1] = t => id # m.replaces
      <4>1. m.replaces = Replaced(m.id)
        BY <1>1 DEF Acquires
      <4>. QED  BY <2>2, <4>1, QueueAssumption DEF Replaced
    <3>2. Remain(t)
      BY <2>1, <2>2, <3>1 DEF Remain, ReservationsEnd, SameTicket, Ages, Survives
    <3>. QED  BY <1>1, <1>2, <3>2, StandingKept
  <2>3. CASE m.id[1] = t
    <3>1. LeaseTtl \in Nat
      BY QueueAssumption
    <3>2. Young(tickets', request[t]) /\ request[t] \in DOMAIN tickets'
      BY <1>3, <2>1, <2>3, <3>1 DEF Young
    <3>3. Young(reservations', request[t])
      BY <2>1 DEF Standing, Young, ReservationsEnd
    <3>4. call'[request[t]] \in {"waiting", "woken"}
      BY <1>3, <2>1, <2>3
    <3>. QED  BY <1>1, <1>3, <2>3, <3>2, <3>3, <3>4 DEF Standing, Young, Holding, Awaiting
  <2>. QED  BY <2>2, <2>3
<1>. QED  BY <1>4, <1>5 DEF RunAcquire

\* While a tick passes, a turn that comes back has asked and was taken up.
LEMMA StandingTick ==
    ASSUME Ordered, NEW t \in Turns, Tick, Standing(t)
    PROVE  Standing(t)'
<1>0. Wired /\ TypeOK
  BY DEF Ordered
<1>1. /\ ~InFlight /\ Elapse(1) /\ UNCHANGED clientVars
      /\ pc[t] \in Live => Fresh(tickets, request[t]) /\ Fresh(reservations, request[t])
  BY DEF Tick
<1>2. 1 \in 1..LeaseTtl /\ LeaseTtl \in Nat \ {0}
  BY QueueAssumption
<1>3. DOMAIN tickets' = DOMAIN tickets /\ DOMAIN reservations' = DOMAIN reservations /\ call' = call
  BY <1>0, <1>1, <1>2, LeasesChange
<1> SUFFICES ASSUME pc[t] \in Live, suspends = 0 PROVE Standing(t)'
  BY <1>1 DEF Standing, clientVars
<1>4. Young(tickets', request[t])
  <2> SUFFICES ASSUME request[t] \in DOMAIN tickets PROVE tickets'[request[t]].lease >= LeaseTtl - 1
    BY <1>3 DEF Young
  <2>1. tickets[request[t]] \in Ticket /\ tickets[request[t]].lease = LeaseTtl
    BY <1>0, <1>1 DEF Fresh, TypeOK
  <2>2. tickets'[request[t]] = [tickets[request[t]] EXCEPT !.lease = IF @ < 1 THEN 0 ELSE @ - 1]
    BY <1>1 DEF Elapse
  <2>. QED  BY <1>2, <2>1, <2>2 DEF Ticket
<1>5. Young(reservations', request[t])
  <2> SUFFICES ASSUME request[t] \in DOMAIN reservations
               PROVE  reservations'[request[t]].lease >= LeaseTtl - 1
    BY <1>3 DEF Young
  <2>1. reservations[request[t]] \in Reservation /\ reservations[request[t]].lease = LeaseTtl
    BY <1>0, <1>1 DEF Fresh, TypeOK
  <2>2. reservations'[request[t]] = [reservations[request[t]] EXCEPT !.lease = IF @ < 1 THEN 0 ELSE @ - 1]
    BY <1>1 DEF Elapse
  <2>. QED  BY <1>2, <2>1, <2>2 DEF Reservation
<1>6. Place(t)' = Place(t)
  BY <1>1, <1>3 DEF Place, Sent, Of, Box, clientVars
<1>7. ~(pc[t] \in {"acquiring", "returning"} /\ call[request[t]] = "none")
  <2>1. Sent(t, "acquire") = {} /\ Spawned(t) = {}
    <3>1. spawned = {} /\ Box(t) = <<>>
      BY <1>1, TurnsAssumption DEF InFlight, Box
    <3>. QED  BY <3>1 DEF Sent, Of, Spawned
  <2>. QED  BY <2>1 DEF Ordered, Flow, Asking, Live
<1>8. Holding(t)' /\ Awaiting(t)'
  BY <1>1, <1>3, <1>6, <1>7 DEF Standing, Holding, Awaiting, clientVars
<1>. QED  BY <1>1, <1>4, <1>5, <1>8 DEF Standing, Young, clientVars

LEMMA StandingStep ==
    ASSUME Ordered, LongLease, [TurnsNext]_allVars, NEW t \in Turns, Standing(t)
    PROVE  Standing(t)'
<1>0. Wired /\ TypeOK
  BY DEF Ordered
<1>1. ASSUME NEW u \in Turns, TurnStep(u) PROVE Standing(t)'
  BY <1>1, StandingTurn
<1>2. ASSUME NEW w \in Windows, Dispatch(w) PROVE Standing(t)'
  BY <1>2, StandingDispatch
<1>3. ASSUME NEW w \in Windows, Reload(w) \/ Close(w) PROVE Standing(t)'
  <2>1. UNCHANGED <<vars, request, aborted, suspends>>
    BY <1>3 DEF Reload, Close
  <2>2. CASE TurnWindow[t] = w
    <3>1. pc'[t] \notin Live
      BY <1>0, <1>3, <2>2 DEF Reload, Close, TurnsOf, Wired, Live
    <3>. QED  BY <3>1 DEF Standing
  <2>3. CASE TurnWindow[t] # w
    <3>1. pc'[t] = pc[t]
      BY <1>0, <1>3, <2>3 DEF Reload, Close, TurnsOf, Wired
    <3>2. SameView(t)
      <4>1. CASE Reload(w)
        BY <1>0, <2>3, <4>1, ReloadView DEF Reload
      <4>2. CASE Close(w)
        BY <1>0, <2>3, <4>2, CloseView DEF Close
      <4>. QED  BY <1>3, <4>1, <4>2
    <3>3. Sent(t, "release")' = Sent(t, "release")
      BY <3>2 DEF SameView, Ops
    <3>4. Remain(t)
      BY <2>1, RemainSame DEF vars
    <3>. QED  BY <2>1, <3>1, <3>3, <3>4, StandingKept
  <2>. QED  BY <2>2, <2>3
<1>4. ASSUME NEW m \in spawned, RunAcquire(m) PROVE Standing(t)'
  BY <1>4, StandingAcquire
<1>5. ASSUME UNCHANGED <<pc, request, aborted, inbox, suspends>>, Remain(t) PROVE Standing(t)'
  BY <1>5, StandingKept DEF Sent, Of, Box
<1>6. CASE HostStep
  <2>1. Remain(t) /\ UNCHANGED clientVars
    BY <1>6, RemainHost DEF HostStep
  <2>. QED  BY <1>5, <2>1 DEF clientVars
<1>7. CASE Tick
  BY <1>7, StandingTick
<1>8. CASE Suspend
  <2>1. suspends' # 0
    BY <1>0, <1>8 DEF Suspend, Wired
  <2>. QED  BY <2>1 DEF Standing
<1>9. CASE UNCHANGED allVars
  BY <1>5, <1>9, RemainSame DEF allVars, clientVars, vars
<1>. QED  BY <1>1, <1>2, <1>3, <1>4, <1>6, <1>7, <1>8, <1>9 DEF TurnsNext

LEMMA StandingAlways ==
    ASSUME LongLease
    PROVE  TurnsSpec => [](\A t \in Turns : Standing(t))
<1> DEFINE AllStanding == \A t \in Turns : Standing(t)
<1>1. TurnsInit => AllStanding
  BY DEF TurnsInit, Standing, Live
<1>2. AllStanding /\ Ordered /\ [TurnsNext]_allVars => AllStanding'
  BY StandingStep
<1>. HIDE DEF AllStanding
<1>3. TurnsSpec => []AllStanding
  BY <1>1, <1>2, OrderedAlways, PTL DEF TurnsSpec
<1>. QED  BY <1>3 DEF AllStanding

\* A turn that goes on has its slot for as long as it believes so, when a lease
\* outlasts the time between two beats: a cancel finds its ticket running, the
\* window is released only before its turns begin, and the sweeper finds the
\* lease renewed.
THEOREM HeldSlotsAreBacked ==
    ASSUME LeaseTtl >= 2
    PROVE  TurnsSpec => []HeldIsBacked
<1>0. LongLease
  BY DEF LongLease
<1>1. Ordered /\ (\A t \in Turns : Standing(t)) => HeldIsBacked
  <2> SUFFICES ASSUME Ordered, NEW t \in Turns, Standing(t), pc[t] = "held", suspends = 0
               PROVE  Runs(request[t])
    BY DEF HeldIsBacked
  <2>1. request[t] \in DOMAIN tickets /\ request[t] \in ReqIds
    BY RequestOf DEF Standing, Holding, Live, Ordered
  <2>2. call[request[t]] = "admitted"
    BY DEF Ordered, Flow, Asking
  <2>3. tickets[request[t]].state # "waiting"
    BY <2>1, <2>2 DEF Ordered, NoLostWakeup
  <2>4. tickets[request[t]] \in Ticket
    BY <2>1 DEF Ordered, TypeOK
  <2>. QED  BY <2>1, <2>3, <2>4 DEF Runs, Ticket, TicketState
<1>. QED  BY <1>0, <1>1, OrderedAlways, StandingAlways, PTL

\* The steps that admit leave the turns where they are.
LEMMA WhoAdmits ==
    ASSUME Ordered, [TurnsNext]_allVars, NEW id \in ReqIds, AdmittedNow(id)
    PROVE  UNCHANGED <<pc, request, aborted, suspends>>
<1>0. Wired /\ TypeOK
  BY DEF Ordered
<1>1. ~ UNCHANGED vars
  BY DEF AdmittedNow, vars, queue
<1>2. ASSUME (\E i \in ReqIds : heartbeat(i)) \/ (\E n \in 1..LeaseTtl : Elapse(n)) PROVE FALSE
  <2>1. /\ DOMAIN tickets' = DOMAIN tickets
        /\ \A i \in DOMAIN tickets : tickets'[i].state = tickets[i].state
    BY <1>0, <1>2, LeasesChange
  <2>. QED  BY <2>1 DEF AdmittedNow
<1>3. ASSUME NEW u \in Turns, TurnStep(u) PROVE FALSE
  <2>1. Beat(u)
    BY <1>0, <1>1, <1>3, TurnFrame
  <2>2. request[u] \in ReqIds
    BY <1>0, <2>1, RequestOf DEF Beat
  <2>. QED  BY <1>2, <2>1, <2>2 DEF Beat
<1>4. ASSUME NEW w \in Windows, Reload(w) \/ Close(w) PROVE FALSE
  BY <1>1, <1>4 DEF Reload, Close
<1>5. CASE Tick \/ Suspend
  <2>1. 1 \in 1..LeaseTtl /\ LeaseTtl \in 1..LeaseTtl
    BY QueueAssumption
  <2>. QED  BY <1>2, <1>5, <2>1 DEF Tick, Suspend
<1>6. ASSUME NEW w \in Windows, Dispatch(w) PROVE UNCHANGED <<pc, request, aborted, suspends>>
  BY <1>6 DEF Dispatch
<1>7. ASSUME NEW m \in spawned, RunAcquire(m) PROVE UNCHANGED <<pc, request, aborted, suspends>>
  BY <1>7 DEF RunAcquire
<1>8. CASE HostStep
  BY <1>8 DEF HostStep, clientVars
<1>9. CASE UNCHANGED allVars
  BY <1>1, <1>9 DEF allVars
<1>. QED  BY <1>3, <1>4, <1>5, <1>6, <1>7, <1>8, <1>9 DEF TurnsNext

\* The queue has an entry of the turn, which keeps background work off its lane.
OnItsLane(t) ==
    \/ \E id \in DOMAIN tickets : id[1] = t
    \/ \E id \in DOMAIN reservations : id[1] = t

LEMMA StandsOnLane ==
    ASSUME Ordered, NEW t \in Turns, Standing(t), suspends = 0, ~aborted[t],
           pc[t] \in {"held", "released", "returning"}
    PROVE  OnItsLane(t)
<1>0. Wired
  BY DEF Ordered
<1>1. request[t][1] = t
  BY <1>0, RequestOf DEF Live
<1>2. Holding(t) /\ Awaiting(t)
  BY DEF Standing, Live
<1>3. CASE pc[t] \in {"held", "released"}
  BY <1>1, <1>2, <1>3 DEF Holding, Place, OnItsLane
<1>4. CASE pc[t] = "returning"
  <2>1. Previous(t)[1] = t
    BY DEF Previous
  <2>. QED  BY <1>1, <1>2, <1>4, <2>1 DEF Awaiting, Place, OnItsLane
<1>. QED  BY <1>3, <1>4

\* A foreground turn that goes on keeps background work from its lane through
\* every gap it leaves: its slot given back while a tool runs, the acquire to
\* come back on its way, waiting or just admitted.
THEOREM BackgroundIsKeptOut ==
    ASSUME LeaseTtl >= 2
    PROVE  TurnsSpec => KeepsBackgroundOut
<1> DEFINE AllStanding == \A t \in Turns : Standing(t)
           Onward == \A t \in Turns :
               suspends = 0 /\ ~aborted[t] /\ pc[t] \in {"held", "released", "returning"} => OnItsLane(t)
           Sound == \A id \in ReqIds, lane \in Lanes :
               AdmittedNow(id) /\ tickets'[id].lane = lane =>
                   /\ Cardinality(running_by_lane(tickets', lane)) <= lane_capacity'[lane]
                   /\ tickets'[id].priority = "background" => LaneIsClear(lane)'
           KeptOut == \A t \in Turns, id \in ReqIds :
               /\ pc[t] \in {"held", "released", "returning"}
               /\ ~aborted[t] /\ suspends = 0
               /\ TurnPriority[t] = "foreground"
               /\ TurnPriority[id[1]] = "background"
               /\ TurnLane[t] = TurnLane[id[1]]
               => ~AdmittedNow(id)
<1>0. LongLease
  BY DEF LongLease
<1>1. Onward' /\ Ordered /\ Ordered' /\ [TurnsNext]_allVars /\ [Sound]_vars => KeptOut
  <2> SUFFICES ASSUME Onward', Ordered, Ordered', [TurnsNext]_allVars, [Sound]_vars,
                      NEW t \in Turns, NEW id \in ReqIds,
                      pc[t] \in {"held", "released", "returning"}, ~aborted[t], suspends = 0,
                      TurnPriority[t] = "foreground", TurnPriority[id[1]] = "background",
                      TurnLane[t] = TurnLane[id[1]], AdmittedNow(id)
               PROVE  FALSE
    OBVIOUS
  <2>1. UNCHANGED <<pc, request, aborted, suspends>>
    BY WhoAdmits
  <2>2. (\E i \in DOMAIN tickets' : i[1] = t) \/ (\E i \in DOMAIN reservations' : i[1] = t)
    BY <2>1 DEF OnItsLane
  <2>3. Placed'
    BY DEF Ordered
  <2>4. TurnLane[t] \in Lanes
    BY TurnsAssumption
  <2>5. ~LaneIsClear(TurnLane[t])'
    BY <2>2, <2>3 DEF Placed, LaneIsClear
  <2>6. id \in DOMAIN tickets' /\ tickets'[id].lane = TurnLane[t] /\ tickets'[id].priority = "background"
    BY <2>3 DEF AdmittedNow, Placed
  <2>7. Sound
    BY DEF AdmittedNow, vars, queue
  <2>. QED  BY <2>4, <2>5, <2>6, <2>7
<1>2. Spec => [][Sound]_vars
  BY AdmitsWithinCapacity DEF AdmissionSound
<1>3. TurnsSpec => []AllStanding
  BY <1>0, StandingAlways
<1>4. AllStanding /\ Ordered => Onward
  BY StandsOnLane
<1>. HIDE DEF AllStanding, Onward, Sound, KeptOut
<1>5. TurnsSpec => [][KeptOut]_allVars
  BY <1>1, <1>2, <1>3, <1>4, OrderedAlways, TurnsUseTheQueue, PTL DEF TurnsSpec
<1>. QED  BY <1>5 DEF KeptOut, KeepsBackgroundOut
=============================================================================
