-------------------------- MODULE RemoteChatProofs --------------------------
(***************************************************************************)
(* Theorems about RemoteChat, for any number of pages, turns, questions    *)
(* and faults, texts of any length and reports in any order.               *)
(***************************************************************************)
EXTENDS RemoteChat, SequenceTheorems, TLAPS

\* The relay.  The id of a turn that ended is retired.
SessionOK ==
    /\ session \in Session /\ counter \in 0..MaxTurns
    /\ known \subseteq 1..counter /\ accepted \subseteq 1..counter
    /\ ~session.exists => session = NoSession
    /\ session.turn <= counter
    /\ session.status # "none" => session.turn # NoTurn
    /\ session.status \in {"done", "failed"} => session.turn \notin known

\* What a page shows, and the events it is sent.
View == [turn : Nat, text : Nat, ended : {"no", "done", "failed"}, question : Nat]
PageEvent ==
    [type : {"snapshot"}, turn : Nat, with : View] \cup
    [type : {"state", "delta", "question", "cleared", "done", "error"}, turn : Nat, with : Nat]

StreamsOK ==
    stream \in [Streams -> [at : {"off", "open", "closing"}, queue : Seq(PageEvent),
                            lagged : {"no", "now", "was"}, view : View]]

\* The driver, what it reports and what it is told.
DriverAt == {"none", "preparing", "queued", "working", "asking", "over", "lost", "gone"}

IsReport(c) ==
    /\ c \in [type : {"running", "delta", "question", "cleared", "done", "error"},
              turn : Nat, with : Nat, latest : Nat]
    /\ c.type \in {"delta", "done"} => c.with \in Texts /\ c.latest \in Texts
    /\ c.type = "question" => c.with \in 0..MaxQuestions /\ c.latest \in 0..MaxQuestions

Told == [type : {"prompt", "cancel", "answer"}, turn : Nat, with : Nat]

DriverOK ==
    /\ driver \in [Turns -> [at : DriverAt, aborted : BOOLEAN, text : Texts,
                             asked : 0..MaxQuestions]]
    /\ questionCounter \in 0..MaxQuestions
    /\ events \in Seq(Told)
    /\ \A c \in wire : IsReport(c)

RelayInv == SessionOK /\ StreamsOK /\ DriverOK

\* A page that shows v shows w when it has handled the events of q.
Leads(v, q, w) ==
    \E vs \in [0..Len(q) -> View] :
        /\ vs[0] = v /\ vs[Len(q)] = w
        /\ \A i \in 1..Len(q) : vs[i] = handle(vs[i - 1], q[i])

\* A page that lost nothing shows the turn once it has read what was sent.
Follows(s) ==
    /\ s.at # "open" => s.queue = <<>> /\ s.lagged = "no"
    /\ s.at = "open" /\ s.lagged = "no" => Leads(s.view, s.queue, snapshot(session))

GuestInv == \A k \in Streams : Follows(stream[k])

-----------------------------------------------------------------------------
(* Events and pages. *)

LEMMA SnapshotTypes == ASSUME NEW s \in Session PROVE snapshot(s) \in View
  BY RemoteAssumption DEF snapshot, Session, View, Texts, Turns, NoTurn

LEMMA NoSessionTypes == NoSession \in Session
  BY RemoteAssumption DEF NoSession, Session, Texts, TurnStatus

LEMMA HandleTypes ==
    ASSUME NEW v \in View, NEW e \in PageEvent
    PROVE  handle(v, e) \in View
<1> DEFINE slot == IF v.turn = e.turn THEN v
                   ELSE [turn |-> e.turn, text |-> 0, ended |-> "no", question |-> 0]
<1>1. slot \in View /\ e.turn \in Nat
  BY DEF View, PageEvent
<1>2. CASE e.type = "snapshot"
  BY <1>2 DEF handle, PageEvent
<1>3. CASE e.type # "snapshot"
  <2>1. e.with \in Nat /\ e.type \in {"state", "delta", "question", "cleared", "done", "error"}
    BY <1>3 DEF PageEvent
  <2>. HIDE DEF slot
  <2>2. CASE e.type = "state"
    BY <1>1, <2>2 DEF handle, slot
  <2>3. CASE e.type = "delta"
    <3>1. [slot EXCEPT !.text = @ + e.with] \in View
      BY <1>1, <2>1 DEF View
    <3>. QED  BY <2>3, <3>1 DEF handle, slot
  <2>4. CASE e.type = "question"
    <3>1. [slot EXCEPT !.question = e.with] \in View
      BY <1>1, <2>1 DEF View
    <3>. QED  BY <2>4, <3>1 DEF handle, slot
  <2>5. CASE e.type = "cleared"
    <3>1. [slot EXCEPT !.question = 0] \in View
      BY <1>1 DEF View
    <3>. QED  BY <2>5, <3>1 DEF handle, slot
  <2>6. CASE e.type = "done"
    <3>1. [slot EXCEPT !.text = e.with, !.ended = "done"] \in View
      BY <1>1, <2>1 DEF View
    <3>. QED  BY <2>6, <3>1 DEF handle, slot
  <2>7. CASE e.type = "error"
    <3>1. [slot EXCEPT !.text = 0, !.ended = "failed"] \in View
      BY <1>1 DEF View
    <3>. QED  BY <2>7, <3>1 DEF handle, slot
  <2>. QED  BY <2>1, <2>2, <2>3, <2>4, <2>5, <2>6, <2>7
<1>. QED  BY <1>2, <1>3

LEMMA BroadcastTypes ==
    ASSUME StreamsOK, NEW e \in PageEvent, Broadcast(e)
    PROVE  StreamsOK'
<1> DEFINE Stream == [at : {"off", "open", "closing"}, queue : Seq(PageEvent),
                      lagged : {"no", "now", "was"}, view : View]
<1> SUFFICES ASSUME NEW k \in Streams PROVE stream'[k] \in Stream
  BY DEF StreamsOK, Broadcast
<1>1. stream[k] \in Stream
  BY DEF StreamsOK
<1>2. CASE k \notin Open
  BY <1>1, <1>2 DEF Broadcast
<1>3. CASE k \in Open /\ Len(stream[k].queue) < Capacity
  <2>1. stream'[k] = [stream[k] EXCEPT !.queue = Append(stream[k].queue, e)]
    BY <1>3 DEF Broadcast
  <2>2. Append(stream[k].queue, e) \in Seq(PageEvent)
    BY <1>1
  <2>. QED  BY <1>1, <2>1, <2>2
<1>4. CASE k \in Open /\ ~(Len(stream[k].queue) < Capacity)
  <2>1. stream'[k] = [stream[k] EXCEPT !.queue = Append(Tail(stream[k].queue), e), !.lagged = "now"]
    BY <1>4 DEF Broadcast
  <2>2. stream[k].queue \in Seq(PageEvent) /\ stream[k].queue # <<>>
    BY <1>1, <1>4, RemoteAssumption
  <2>3. Append(Tail(stream[k].queue), e) \in Seq(PageEvent)
    BY <2>2
  <2>. QED  BY <1>1, <2>1, <2>3
<1>. QED  BY <1>2, <1>3, <1>4

\* With nothing to read, a page shows what it shows.
LEMMA LeadsNowhere ==
    ASSUME NEW v \in View, NEW w
    PROVE  Leads(v, <<>>, w) <=> v = w
<1>1. Len(<<>>) = 0 /\ 0..0 = {0}
  OBVIOUS
<1>2. ASSUME v = w PROVE Leads(v, <<>>, w)
  <2> DEFINE vs == [i \in {0} |-> v]
  <2>1. vs \in [0..Len(<<>>) -> View] /\ vs[0] = v /\ vs[Len(<<>>)] = w /\ 1..Len(<<>>) = {}
    BY <1>1, <1>2
  <2>. HIDE DEF vs
  <2>. QED  BY <2>1 DEF Leads
<1>. QED  BY <1>1, <1>2 DEF Leads

\* One more event at the end of the queue.
LEMMA LeadsFurther ==
    ASSUME NEW v \in View, NEW w \in View, NEW q \in Seq(PageEvent), NEW e \in PageEvent,
           Leads(v, q, w)
    PROVE  Leads(v, Append(q, e), handle(w, e))
<1> DEFINE n == Len(q)
           more == Append(q, e)
<1>1. n \in Nat /\ Len(more) = n + 1 /\ more[n + 1] = e /\ \A i \in 1..n : more[i] = q[i]
  OBVIOUS
<1>2. PICK vs \in [0..n -> View] :
        /\ vs[0] = v /\ vs[n] = w
        /\ \A i \in 1..n : vs[i] = handle(vs[i - 1], q[i])
  BY DEF Leads
<1> DEFINE us == [i \in 0..(n + 1) |-> IF i = n + 1 THEN handle(w, e) ELSE vs[i]]
<1>. HIDE DEF n, more
<1>3. handle(w, e) \in View
  BY HandleTypes
<1>4. us \in [0..(n + 1) -> View]
  BY <1>1, <1>2, <1>3
<1>5. us[0] = v /\ us[n + 1] = handle(w, e) /\ us[n] = w /\ \A i \in 0..n : us[i] = vs[i]
  BY <1>1, <1>2
<1>. HIDE DEF us
<1>6. ASSUME NEW i \in 1..(n + 1) PROVE us[i] = handle(us[i - 1], more[i])
  <2>1. CASE i = n + 1
    <3>1. i - 1 = n
      BY <1>1, <2>1
    <3>. QED  BY <1>1, <1>5, <2>1, <3>1
  <2>2. CASE i # n + 1
    <3>1. i \in 1..n /\ i \in 0..n /\ i - 1 \in 0..n
      BY <1>1, <2>2
    <3>. QED  BY <1>1, <1>2, <1>5, <3>1
  <2>. QED  BY <2>1, <2>2
<1>7. Leads(v, more, handle(w, e))
  BY <1>1, <1>4, <1>5, <1>6 DEF Leads
<1>. QED  BY <1>7 DEF more

\* The page handles the event at the head.
LEMMA LeadsOn ==
    ASSUME NEW v \in View, NEW w, NEW q \in Seq(PageEvent), q # <<>>, Leads(v, q, w)
    PROVE  Leads(handle(v, Head(q)), Tail(q), w)
<1> DEFINE n == Len(q)
           rest == Tail(q)
<1>1. /\ n \in Nat \ {0} /\ Len(rest) = n - 1 /\ Head(q) = q[1]
      /\ \A i \in 1..(n - 1) : rest[i] = q[i + 1]
  OBVIOUS
<1>2. PICK vs \in [0..n -> View] :
        /\ vs[0] = v /\ vs[n] = w
        /\ \A i \in 1..n : vs[i] = handle(vs[i - 1], q[i])
  BY DEF Leads
<1> DEFINE us == [i \in 0..(n - 1) |-> vs[i + 1]]
<1>. HIDE DEF n, rest
<1>3. us \in [0..(n - 1) -> View]
  BY <1>1, <1>2
<1>4. us[0] = handle(v, Head(q)) /\ us[n - 1] = w
  BY <1>1, <1>2
<1>5. ASSUME NEW i \in 1..(n - 1) PROVE us[i] = handle(us[i - 1], rest[i])
  <2>1. i + 1 \in 1..n /\ i \in 0..(n - 1) /\ i - 1 \in 0..(n - 1) /\ i + 1 - 1 = i /\ i - 1 + 1 = i
    BY <1>1
  <2>2. us[i] = vs[i + 1] /\ us[i - 1] = vs[i]
    BY <2>1
  <2>. HIDE DEF us
  <2>. QED  BY <1>1, <1>2, <2>1, <2>2
<1>. HIDE DEF us
<1>6. Leads(handle(v, Head(q)), rest, w)
  BY <1>1, <1>3, <1>4, <1>5 DEF Leads
<1>. QED  BY <1>6 DEF rest

\* On the turn the relay has, an event does to the pages what the relay did to
\* the session.
LEMMA BroadcastShows ==
    ASSUME GuestInv, StreamsOK, session \in Session, NEW e \in PageEvent, Broadcast(e),
           handle(snapshot(session), e) = snapshot(session')
    PROVE  GuestInv'
<1> DEFINE Stream == [at : {"off", "open", "closing"}, queue : Seq(PageEvent),
                      lagged : {"no", "now", "was"}, view : View]
<1> SUFFICES ASSUME NEW k \in Streams PROVE Follows(stream[k])'
  BY DEF GuestInv
<1>1. stream[k] \in Stream /\ Follows(stream[k])
  BY DEF GuestInv, StreamsOK
<1>2. snapshot(session) \in View
  BY SnapshotTypes
<1>3. CASE k \notin Open
  <2>1. stream'[k] = stream[k] /\ stream[k].at # "open"
    BY <1>3 DEF Broadcast, Open
  <2>. QED  BY <1>1, <2>1 DEF Follows
<1>4. CASE k \in Open /\ Len(stream[k].queue) < Capacity
  <2>1. stream'[k] = [stream[k] EXCEPT !.queue = Append(stream[k].queue, e)]
    BY <1>4 DEF Broadcast
  <2>2. /\ stream'[k].at = "open" /\ stream'[k].queue = Append(stream[k].queue, e)
        /\ stream'[k].lagged = stream[k].lagged /\ stream'[k].view = stream[k].view
    BY <1>1, <1>4, <2>1 DEF Open
  <2>3. stream[k].at = "open" /\ stream[k].queue \in Seq(PageEvent) /\ stream[k].view \in View
    BY <1>1, <1>4 DEF Open
  <2>4. stream[k].lagged = "no" =>
          Leads(stream[k].view, Append(stream[k].queue, e), snapshot(session'))
    BY <1>1, <1>2, <2>3, LeadsFurther DEF Follows
  <2>. QED  BY <1>4, <2>2, <2>4 DEF Follows
<1>5. CASE k \in Open /\ ~(Len(stream[k].queue) < Capacity)
  <2>1. stream'[k] = [stream[k] EXCEPT !.queue = Append(Tail(stream[k].queue), e), !.lagged = "now"]
    BY <1>5 DEF Broadcast
  <2>2. stream'[k].at = "open" /\ stream'[k].lagged = "now"
    BY <1>1, <1>5, <2>1 DEF Open
  <2>. QED  BY <1>5, <2>2 DEF Follows
<1>. QED  BY <1>3, <1>4, <1>5

-----------------------------------------------------------------------------
(* The relay: what a step does to the session. *)

Finished ==
    session.status = "done" /\ session'.turn = session.turn
        => session'.status = "done" /\ session'.text = session.text

LEMMA SubscriberStep ==
    ASSUME SessionOK, NEW k \in Streams, subscribe(k) \/ unsubscribe(k)
    PROVE  SessionOK' /\ Finished
<1>1. session \in Session /\ NoSession \in Session
  BY NoSessionTypes DEF SessionOK
<1>2. CASE subscribe(k)
  <2>1. Current \in Session /\ Current.exists = TRUE /\ Current.turn = session.turn
        /\ Current.status = session.status /\ Current.text = session.text
    BY <1>1 DEF Current, Session, SessionOK, NoSession
  <2>2. PICK s \in Session :
          /\ s = Current /\ session' = [s EXCEPT !.subscribers = s.subscribers + 1, !.age = 0]
    BY <1>2, <2>1 DEF subscribe
  <2>3. s.subscribers + 1 \in Nat /\ 0 \in 0..2
    BY DEF Session
  <2>4. session' \in Session /\ session'.exists = TRUE /\ session'.turn = session.turn
        /\ session'.status = session.status /\ session'.text = session.text
    BY <2>1, <2>2, <2>3 DEF Session
  <2>. QED  BY <1>2, <2>4 DEF subscribe, SessionOK, Finished
<1>3. CASE unsubscribe(k) /\ session.exists
  <2>1. PICK n \in Nat : session' = [session EXCEPT !.subscribers = n, !.age = 0]
    <3> DEFINE n == IF session.subscribers = 0 THEN 0 ELSE session.subscribers - 1
    <3>1. n \in Nat
      BY <1>1 DEF Session
    <3>2. session' = [session EXCEPT !.subscribers = n, !.age = 0]
      BY <1>3 DEF unsubscribe
    <3>. QED  BY <3>1, <3>2
  <2>2. session' \in Session /\ session'.exists = session.exists /\ session'.turn = session.turn
        /\ session'.status = session.status /\ session'.text = session.text
    <3>1. 0 \in 0..2
      OBVIOUS
    <3>. QED  BY <1>1, <2>1, <3>1 DEF Session
  <2>. QED  BY <1>3, <2>2 DEF unsubscribe, SessionOK, Finished
<1>4. CASE unsubscribe(k) /\ ~session.exists
  BY <1>4 DEF unsubscribe, SessionOK, Finished
<1>. QED  BY <1>2, <1>3, <1>4

LEMMA BeginStep == ASSUME SessionOK, begin_turn PROVE SessionOK' /\ Finished
<1>1. session \in Session /\ NoSession \in Session /\ counter \in 0..MaxTurns
  BY NoSessionTypes DEF SessionOK
<1>2. Current \in Session /\ Current.exists = TRUE
  BY <1>1 DEF Current, Session
<1>3. /\ counter' = counter + 1 /\ known' = known \cup {counter'} /\ accepted' = accepted \cup {counter'}
      /\ session' = [Current EXCEPT !.turn = counter', !.status = "waiting", !.text = 0,
                                    !.question = 0, !.age = 0]
      /\ counter < MaxTurns
  BY DEF begin_turn
<1>4. counter' \in Turns /\ counter' \in 0..MaxTurns
  BY <1>1, <1>3, RemoteAssumption DEF Turns
<1>5. session' \in Session /\ session'.exists = TRUE /\ session'.turn = counter'
      /\ session'.status = "waiting"
  <2>1. 0 \in Texts /\ 0 \in 0..MaxQuestions /\ 0 \in 0..2
    BY RemoteAssumption DEF Texts
  <2>. QED  BY <1>2, <1>3, <1>4, <2>1 DEF Session, TurnStatus
<1>6. session'.turn # session.turn
  BY <1>1, <1>3, <1>5 DEF SessionOK, Session, Turns, NoTurn
<1>. QED  BY <1>1, <1>3, <1>4, <1>5, <1>6 DEF SessionOK, Finished, NoTurn

\* A turn the relay knows is under way.
LEMMA KnownUnderWay ==
    ASSUME SessionOK, NEW t, Knows(t)
    PROVE  /\ session.exists = TRUE /\ session.turn = t /\ t \in known /\ t # NoTurn
           /\ session.status \notin {"done", "failed"}
<1>1. session.exists = TRUE /\ session.turn = t /\ t \in known
  BY DEF Knows, SessionOK, Session
<1>2. t # NoTurn
  BY <1>1 DEF SessionOK, NoTurn
<1>. QED  BY <1>1, <1>2 DEF SessionOK

\* The rest of the session but its age, question, text and status stays.
LEMMA UpdateStep ==
    ASSUME SessionOK, NEW t, Knows(t), session' \in Session, session'.exists = TRUE,
           session'.turn = session.turn, session'.status # "none",
           known' \subseteq known,
           session'.status \in {"done", "failed"} => t \notin known',
           UNCHANGED <<counter, accepted>>
    PROVE  SessionOK' /\ Finished
<1>1. session.turn = t /\ t \in known /\ session.status \notin {"done", "failed"}
  BY KnownUnderWay
<1>. QED  BY <1>1 DEF SessionOK, Finished, NoTurn

LEMMA TerminatedTypes ==
    ASSUME session \in Session, NEW t, NEW x \in Texts, NEW status \in {"done", "failed"},
           Knows(t), terminate(t, status, x)
    PROVE  /\ session' \in Session /\ session'.exists = session.exists
           /\ session'.turn = session.turn /\ session'.status = status
           /\ session'.text = (IF status = "done" THEN x ELSE session.text)
           /\ session'.question = session.question
<1> DEFINE y == IF status = "done" THEN x ELSE session.text
<1>1. session' = [session EXCEPT !.status = status, !.age = 0,
                                 !.text = IF status = "done" THEN x ELSE @]
  BY DEF terminate
<1>2. session' = [session EXCEPT !.status = status, !.text = y,
                                 !.question = session.question, !.age = 0]
  BY <1>1 DEF Session
<1>3. y \in Texts /\ session.question \in 0..MaxQuestions /\ 0 \in 0..2 /\ status \in TurnStatus
  BY DEF Session, TurnStatus
<1>. HIDE DEF y
<1>4. /\ session' \in Session /\ session'.exists = session.exists
      /\ session'.turn = session.turn /\ session'.status = status
      /\ session'.text = y /\ session'.question = session.question
  BY <1>2, <1>3 DEF Session
<1>. QED  BY <1>4 DEF y

LEMMA TerminateStep ==
    ASSUME SessionOK, NEW t, NEW x \in Texts, NEW status \in {"done", "failed"},
           terminate(t, status, x), UNCHANGED <<counter, accepted>>
    PROVE  SessionOK' /\ Finished
<1>1. known' = known \ {t} /\ session \in Session
  BY DEF terminate, SessionOK
<1>2. CASE ~Knows(t)
  BY <1>1, <1>2 DEF terminate, SessionOK, Finished
<1>3. CASE Knows(t)
  <2>1. session' \in Session /\ session'.exists = session.exists
        /\ session'.turn = session.turn /\ session'.status = status
    BY <1>3, TerminatedTypes DEF SessionOK
  <2>2. known' \subseteq known /\ t \notin known' /\ session.exists = TRUE
    BY <1>1, <1>3, KnownUnderWay
  <2>. QED  BY <1>3, <2>1, <2>2, UpdateStep
<1>. QED  BY <1>2, <1>3

LEMMA TakeStep ==
    ASSUME SessionOK, NEW c, IsReport(c), c.type \notin {"done", "error"}, Take(c),
           UNCHANGED <<known, counter, accepted>>
    PROVE  SessionOK' /\ Finished
<1>1. session \in Session
  BY DEF SessionOK
<1>2. CASE ~Knows(c.turn)
  BY <1>2 DEF Take, SessionOK, Finished
<1>3. CASE Knows(c.turn)
  <2>1. session.exists = TRUE /\ session.turn # NoTurn
    BY <1>3, KnownUnderWay
  <2>2. ASSUME session' = session PROVE SessionOK' /\ Finished
    BY <2>2 DEF SessionOK, Finished
  <2>3. ASSUME NEW st \in {session.status, "running"}, NEW x \in Texts, NEW q \in 0..MaxQuestions,
               session' = [session EXCEPT !.status = st, !.text = x, !.question = q,
                                          !.age = session.age]
        PROVE  SessionOK' /\ Finished
    <3>0. st \in TurnStatus /\ session.age \in 0..2
      BY <1>1 DEF Session, TurnStatus
    <3>1. /\ session' \in Session /\ session'.exists = session.exists
          /\ session'.turn = session.turn /\ session'.status = st
      BY <1>1, <2>3, <3>0 DEF Session
    <3>2. session.turn = c.turn /\ session.status \notin {"done", "failed"} /\ c.turn \in known
      BY <1>3, KnownUnderWay
    <3>. QED  BY <2>1, <3>1, <3>2 DEF SessionOK, Finished
  <2>4. CASE c.type = "running"
    <3>1. session' = [session EXCEPT !.status = "running", !.text = session.text,
                                     !.question = session.question, !.age = session.age]
      BY <1>1, <1>3, <2>4 DEF Take, set_status, Session
    <3>. QED  BY <1>1, <2>3, <3>1 DEF Session
  <2>5. CASE c.type = "delta"
    <3>1. c.with \in Texts /\ push_text(c.turn, c.with) /\ session.text \in Texts
      BY <1>1, <1>3, <2>5 DEF Take, IsReport, Session
    <3>2. \/ session' = session
          \/ session' = [session EXCEPT !.text = c.with, !.status = "running"]
          \/ session' = [session EXCEPT !.text = c.with]
      <4>1. c.with = session.text \/ c.with > session.text \/ c.with < session.text
        BY <3>1, RemoteAssumption DEF Texts
      <4>. QED  BY <3>1, <4>1 DEF push_text
    <3>3. \/ session' = session
          \/ session' = [session EXCEPT !.status = "running", !.text = c.with,
                                        !.question = session.question, !.age = session.age]
          \/ session' = [session EXCEPT !.status = session.status, !.text = c.with,
                                        !.question = session.question, !.age = session.age]
      BY <1>1, <3>2 DEF Session
    <3>. QED  BY <1>1, <2>2, <2>3, <3>1, <3>3 DEF Session
  <2>6. CASE c.type = "question" \/ c.type = "cleared"
    <3>1. PICK q \in 0..MaxQuestions : session' = [session EXCEPT !.question = q]
      <4>1. CASE c.type = "question"
        BY <1>3, <4>1 DEF Take, Ask, IsReport
      <4>2. CASE c.type = "cleared"
        <5>1. session' = [session EXCEPT !.question = 0] /\ 0 \in 0..MaxQuestions
          BY <1>3, <4>2, RemoteAssumption DEF Take, clear_question
        <5>. QED  BY <5>1
      <4>. QED  BY <2>6, <4>1, <4>2
    <3>2. session' = [session EXCEPT !.status = session.status, !.text = session.text,
                                     !.question = q, !.age = session.age]
      BY <1>1, <3>1 DEF Session
    <3>. QED  BY <1>1, <2>3, <3>2 DEF Session
  <2>. QED  BY <2>4, <2>5, <2>6 DEF IsReport
<1>. QED  BY <1>2, <1>3

LEMMA ForgetStep == ASSUME SessionOK, Forget, UNCHANGED <<counter, accepted>>
                    PROVE  SessionOK' /\ Finished
<1>1. session' = NoSession /\ known' = {}
  BY DEF Forget
<1>. QED  BY <1>1, NoSessionTypes DEF SessionOK, Finished, NoSession, NoTurn

LEMMA SessionStep == ASSUME RelayInv, [Next]_vars PROVE SessionOK' /\ Finished
<1>0. SessionOK /\ session \in Session
  BY DEF RelayInv, SessionOK
<1>1. CASE UNCHANGED relay
  BY <1>0, <1>1 DEF relay, SessionOK, Finished
<1>2. ASSUME NEW k \in Streams, Page(k) PROVE SessionOK' /\ Finished
  BY <1>0, <1>1, <1>2, SubscriberStep DEF Page, event_stream, Leave
<1>3. ASSUME NEW t \in accepted, dispatch(t) PROVE SessionOK' /\ Finished
  <2>1. CASE UNCHANGED <<session, known>>
    BY <1>0, <1>3, <2>1 DEF dispatch, SessionOK, Finished
  <2>2. CASE terminate(t, "failed", 0)
    <3>1. known' = known \ {t} /\ counter' = counter /\ accepted' = accepted \ {t}
      BY <1>3, <2>2 DEF dispatch, terminate
    <3>2. CASE ~Knows(t)
      BY <1>0, <2>2, <3>1, <3>2 DEF terminate, SessionOK, Finished
    <3>3. CASE Knows(t)
      <4>1. 0 \in Texts
        BY RemoteAssumption DEF Texts
      <4>2. session' \in Session /\ session'.exists = session.exists
            /\ session'.turn = session.turn /\ session'.status = "failed"
        BY <1>0, <2>2, <3>3, <4>1, TerminatedTypes
      <4>3. /\ session.exists = TRUE /\ session.turn = t /\ t # NoTurn
            /\ session.status \notin {"done", "failed"}
        BY <1>0, <3>3, KnownUnderWay
      <4>. QED  BY <1>0, <3>1, <4>2, <4>3 DEF SessionOK, Finished
    <3>. QED  BY <3>2, <3>3
  <2>. QED  BY <1>3, <2>1, <2>2 DEF dispatch
<1>4. CASE answer \/ Elapse
  <2>1. session.exists = TRUE
    BY <1>0, <1>4 DEF answer, Elapse, SessionOK, NoSession, Session
  <2>2. session' \in Session /\ session'.exists = session.exists /\ session'.turn = session.turn
        /\ session'.status = session.status /\ session'.text = session.text
    <3>1. CASE answer
      <4>1. session' = [session EXCEPT !.question = 0] /\ 0 \in 0..MaxQuestions
        BY <3>1, RemoteAssumption DEF answer
      <4>. QED  BY <1>0, <4>1 DEF Session
    <3>2. CASE Elapse
      <4>1. session' = [session EXCEPT !.age = session.age + 1] /\ session.age + 1 \in 0..2
        BY <1>0, <3>2 DEF Elapse, Session
      <4>. QED  BY <1>0, <4>1 DEF Session
    <3>. QED  BY <1>4, <3>1, <3>2
  <2>. QED  BY <1>0, <1>4, <2>1, <2>2 DEF answer, Elapse, SessionOK, Finished
<1>5. CASE reap \/ disconnect \/ clear
  <2>1. UNCHANGED <<counter, accepted>> /\ (Forget \/ UNCHANGED <<session, known>>)
    BY <1>5 DEF reap, disconnect, clear
  <2>2. CASE Forget
    BY <1>0, <2>1, <2>2, ForgetStep
  <2>3. CASE UNCHANGED <<session, known>>
    BY <1>0, <2>1, <2>3 DEF SessionOK, Finished
  <2>. QED  BY <2>1, <2>2, <2>3
<1>6. ASSUME NEW c \in wire, Exec(c) PROVE SessionOK' /\ Finished
  <2>1. IsReport(c)
    BY DEF RelayInv, DriverOK
  <2>2. CASE c.type = "done"
    BY <1>0, <1>6, <2>1, <2>2, TerminateStep DEF Exec, IsReport
  <2>3. CASE c.type = "error"
    BY <1>0, <1>6, <2>1, <2>3, TerminateStep, RemoteAssumption DEF Exec, Texts
  <2>4. CASE c.type \notin {"done", "error"}
    BY <1>0, <1>6, <2>1, <2>4, TakeStep DEF Exec
  <2>. QED  BY <2>2, <2>3, <2>4
<1>7. ASSUME NEW t \in Turns, Run(t) PROVE UNCHANGED relay
  BY <1>7 DEF Run, Prepared, onAdmitted, onAssistantDelta, askGuest, GiveUp, Finish, Stop, DriverStep
<1>8. CASE cancel \/ TakeEvent \/ Reload
  BY <1>1, <1>8 DEF cancel, TakeEvent, Reload
<1>. QED  BY <1>0, <1>1, <1>2, <1>3, <1>4, <1>5, <1>6, <1>7, <1>8, BeginStep DEF Next, vars, relay

-----------------------------------------------------------------------------
(* The pages. *)

LEMMA ClosedTypes ==
    ASSUME NEW at \in {"off", "open", "closing"}
    PROVE  Closed(at) \in [at : {"off", "open", "closing"}, queue : Seq(PageEvent),
                           lagged : {"no", "now", "was"}, view : View]
<1>1. snapshot(NoSession) \in View
  BY NoSessionTypes, SnapshotTypes
<1>2. <<>> \in Seq(PageEvent)
  OBVIOUS
<1>. QED  BY <1>1, <1>2 DEF Closed

LEMMA EventTypes ==
    ASSUME NEW t \in Nat, NEW x \in Nat,
           NEW type \in {"state", "delta", "question", "cleared", "done", "error"}
    PROVE  Event(type, t, x) \in PageEvent
  BY DEF Event, PageEvent

LEMMA TerminateShown ==
    ASSUME StreamsOK, session \in Session, NEW t, NEW x \in Texts, NEW status \in {"done", "failed"},
           terminate(t, status, x)
    PROVE  StreamsOK'
<1>1. CASE UNCHANGED stream
  BY <1>1 DEF StreamsOK
<1>2. CASE Knows(t) /\ Broadcast(Event(IF status = "done" THEN "done" ELSE "error", t, x))
  <2>1. t \in Nat /\ x \in Nat
    BY <1>2, RemoteAssumption DEF Knows, Session, Turns, NoTurn, Texts
  <2>2. CASE status = "done"
    BY <1>2, <2>1, <2>2, EventTypes, BroadcastTypes
  <2>3. CASE status # "done"
    BY <1>2, <2>1, <2>3, EventTypes, BroadcastTypes
  <2>. QED  BY <2>2, <2>3
<1>. QED  BY <1>1, <1>2 DEF terminate

LEMMA TakeShown ==
    ASSUME StreamsOK, session \in Session, session' \in Session,
           NEW c, IsReport(c), c.type \notin {"done", "error"}, Take(c)
    PROVE  StreamsOK'
<1>1. CASE UNCHANGED stream
  BY <1>1 DEF StreamsOK
<1>2. ASSUME NEW e \in PageEvent, Broadcast(e) PROVE StreamsOK'
  BY <1>2, BroadcastTypes
<1>3. /\ c.turn \in Nat /\ c.with \in Nat /\ 0 \in Nat
      /\ c.type \in {"running", "delta", "question", "cleared"}
  BY DEF IsReport
<1>4. CASE Knows(c.turn) /\ c.type = "running"
  BY <1>2, <1>3, <1>4, EventTypes DEF Take, set_status
<1>5. CASE Knows(c.turn) /\ c.type = "question"
  BY <1>2, <1>3, <1>5, EventTypes DEF Take, Ask
<1>6. CASE Knows(c.turn) /\ c.type = "cleared"
  BY <1>2, <1>3, <1>6, EventTypes DEF Take, clear_question
<1>7. CASE Knows(c.turn) /\ c.type = "delta"
  <2>1. push_text(c.turn, c.with) /\ session.text \in Nat
    BY <1>7, RemoteAssumption DEF Take, Session, Texts
  <2>2. CASE c.with > session.text /\ Broadcast(Event("delta", c.turn, c.with - session.text))
    <3>1. c.with - session.text \in Nat
      BY <1>3, <2>1, <2>2
    <3>. QED  BY <1>2, <1>3, <2>2, <3>1, EventTypes
  <2>3. CASE Broadcast(Event("snapshot", c.turn, snapshot(session')))
    <3>1. Event("snapshot", c.turn, snapshot(session')) \in PageEvent
      BY <1>3, SnapshotTypes DEF Event, PageEvent
    <3>. QED  BY <1>2, <2>3, <3>1
  <2>. QED  BY <1>1, <2>1, <2>2, <2>3 DEF push_text
<1>. QED  BY <1>1, <1>3, <1>4, <1>5, <1>6, <1>7 DEF Take

LEMMA StreamsStep == ASSUME RelayInv, SessionOK', [Next]_vars PROVE StreamsOK'
<1> DEFINE Stream == [at : {"off", "open", "closing"}, queue : Seq(PageEvent),
                      lagged : {"no", "now", "was"}, view : View]
<1>0. /\ StreamsOK /\ session \in Session /\ session' \in Session
      /\ stream \in [Streams -> Stream] /\ \A c \in wire : IsReport(c)
      /\ counter \in Nat /\ accepted \subseteq 1..counter
  BY DEF RelayInv, SessionOK, StreamsOK, DriverOK
<1>1. CASE UNCHANGED stream
  BY <1>0, <1>1 DEF StreamsOK
<1>2. ASSUME NEW k \in Streams, Page(k) PROVE StreamsOK'
  <2>1. CASE subscribe(k)
    <3>1. [stream[k] EXCEPT !.at = "open", !.view = snapshot(session)] \in Stream
      BY <1>0, SnapshotTypes
    <3>. QED  BY <1>0, <2>1, <3>1 DEF subscribe, StreamsOK
  <2>2. CASE event_stream(k)
    <3>1. CASE stream[k].lagged = "now"
      <4>1. [stream[k] EXCEPT !.lagged = "was", !.view = snapshot(session)] \in Stream
        BY <1>0, SnapshotTypes
      <4>. QED  BY <1>0, <2>2, <3>1, <4>1 DEF event_stream, StreamsOK
    <3>2. CASE stream[k].lagged # "now"
      <4>1. /\ stream[k].queue \in Seq(PageEvent) /\ stream[k].queue # <<>>
            /\ stream' = [stream EXCEPT ![k].view = handle(@, Head(stream[k].queue)),
                                        ![k].queue = Tail(@)]
        BY <1>0, <2>2, <3>2 DEF event_stream
      <4>2. Head(stream[k].queue) \in PageEvent /\ Tail(stream[k].queue) \in Seq(PageEvent)
        BY <4>1
      <4>3. handle(stream[k].view, Head(stream[k].queue)) \in View
        BY <1>0, <4>2, HandleTypes
      <4>4. stream'[k] = [stream[k] EXCEPT !.view = handle(stream[k].view, Head(stream[k].queue)),
                                           !.queue = Tail(stream[k].queue)]
        BY <1>0, <4>1
      <4>5. stream'[k] \in Stream
        BY <1>0, <4>2, <4>3, <4>4
      <4>. QED  BY <1>0, <4>1, <4>5 DEF StreamsOK
    <3>. QED  BY <3>1, <3>2
  <2>3. CASE Leave(k) \/ unsubscribe(k)
    BY <1>0, <2>3, ClosedTypes DEF Leave, unsubscribe, StreamsOK
  <2>. QED  BY <1>2, <2>1, <2>2, <2>3 DEF Page
<1>3. CASE begin_turn
  <2>1. counter + 1 \in Nat /\ 0 \in Nat /\ Broadcast(Event("state", counter + 1, 0))
    BY <1>0, <1>3 DEF begin_turn
  <2>. QED  BY <1>0, <2>1, EventTypes, BroadcastTypes
<1>4. ASSUME NEW t \in accepted, dispatch(t) PROVE StreamsOK'
  <2>1. 0 \in Texts
    BY RemoteAssumption DEF Texts
  <2>. QED  BY <1>0, <1>1, <1>4, <2>1, TerminateShown DEF dispatch
<1>5. CASE answer
  <2>1. session.turn \in Nat /\ 0 \in Nat /\ Broadcast(Event("cleared", session.turn, 0))
    BY <1>0, <1>5 DEF answer, Session, Turns, NoTurn
  <2>. QED  BY <1>0, <2>1, EventTypes, BroadcastTypes
<1>6. CASE Forget
  BY <1>0, <1>6, ClosedTypes DEF Forget, Dropped, StreamsOK
<1>7. ASSUME NEW c \in wire, Exec(c) PROVE StreamsOK'
  <2>1. IsReport(c) /\ 0 \in Texts
    BY <1>0, RemoteAssumption DEF Texts
  <2>2. CASE c.type \in {"done", "error"}
    BY <1>0, <1>7, <2>1, <2>2, TerminateShown DEF Exec, IsReport
  <2>3. CASE c.type \notin {"done", "error"}
    BY <1>0, <1>7, <2>1, <2>3, TakeShown DEF Exec
  <2>. QED  BY <2>2, <2>3
<1>8. ASSUME NEW t \in Turns, Run(t) PROVE UNCHANGED stream
  BY <1>8 DEF Run, Prepared, onAdmitted, onAssistantDelta, askGuest, GiveUp, Finish, Stop, DriverStep
<1>9. CASE cancel \/ Elapse \/ TakeEvent \/ Reload \/ UNCHANGED vars
  BY <1>1, <1>9 DEF cancel, Elapse, TakeEvent, Reload, vars
<1>10. CASE reap \/ disconnect \/ clear
  BY <1>1, <1>6, <1>10 DEF reap, disconnect, clear
<1>. QED  BY <1>1, <1>2, <1>3, <1>4, <1>5, <1>7, <1>8, <1>9, <1>10 DEF Next

-----------------------------------------------------------------------------
(* The driver. *)

LEMMA ReportTypes ==
    ASSUME NEW t \in Nat, NEW x \in Nat
    PROVE  /\ IsReport(Command("running", t, x)) /\ IsReport(Command("cleared", t, x))
           /\ IsReport(Command("error", t, x))
           /\ x \in Texts => IsReport(Command("delta", t, x)) /\ IsReport(Command("done", t, x))
           /\ x \in 0..MaxQuestions => IsReport(Command("question", t, x))
  BY DEF Command, IsReport

LEMMA DriverRuns ==
    ASSUME DriverOK, NEW t \in Turns, Run(t)
    PROVE  DriverOK'
<1> DEFINE Driver == [at : DriverAt, aborted : BOOLEAN, text : Texts, asked : 0..MaxQuestions]
<1>0. /\ driver \in [Turns -> Driver] /\ driver[t] \in Driver /\ t \in Nat
      /\ \A c \in wire : IsReport(c)
      /\ Texts \subseteq Nat /\ 0 \in Texts /\ 0 \in 0..MaxQuestions
      /\ \A at \in DriverAt : [driver[t] EXCEPT !.at = at] \in Driver
  <2>1. driver \in [Turns -> Driver] /\ \A c \in wire : IsReport(c)
    BY DEF DriverOK
  <2>2. t \in Nat /\ Texts \subseteq Nat /\ 0 \in Texts /\ 0 \in 0..MaxQuestions
    BY RemoteAssumption DEF Turns, Texts
  <2>. QED  BY <2>1, <2>2
<1>1. \A at \in {"over", "lost"} : Ended(at) \in Driver
  BY <1>0 DEF Ended, DriverAt
<1>2. ASSUME UNCHANGED <<events, questionCounter>>, NEW d \in Driver, driver' = [driver EXCEPT ![t] = d],
             \A c \in wire' : IsReport(c)
      PROVE  DriverOK'
  BY <1>0, <1>2 DEF DriverOK
<1>3. \A c : IsReport(c) /\ Report(c) => \A r \in wire' : IsReport(r)
  BY <1>0 DEF Report
<1>4. \A at \in DriverAt : Moves(t, at) => driver' = [driver EXCEPT ![t] = [driver[t] EXCEPT !.at = at]]
  BY DEF Moves
<1>5. CASE Prepared(t)
  BY <1>0, <1>1, <1>2, <1>4, <1>5 DEF Prepared, DriverStep, DriverAt
<1>6. CASE onAdmitted(t)
  BY <1>0, <1>2, <1>3, <1>4, <1>6, ReportTypes DEF onAdmitted, DriverStep, DriverAt
<1>7. CASE onAssistantDelta(t)
  <2>1. PICK x \in Texts :
          /\ driver' = [driver EXCEPT ![t].text = x]
          /\ wire' = (wire \ Pumped(t)) \cup
                (IF Pumped(t) = {} THEN {Command("delta", t, x)}
                 ELSE {[c EXCEPT !.latest = x] : c \in Pumped(t)})
    BY <1>7 DEF onAssistantDelta
  <2>2. [driver[t] EXCEPT !.text = x] \in Driver
        /\ driver' = [driver EXCEPT ![t] = [driver[t] EXCEPT !.text = x]]
    BY <1>0, <2>1
  <2>3. \A c \in Pumped(t) : IsReport([c EXCEPT !.latest = x])
    BY <1>0 DEF Pumped, IsReport
  <2>4. IsReport(Command("delta", t, x))
    BY <1>0, ReportTypes
  <2>5. \A c \in wire' : IsReport(c)
    BY <1>0, <2>1, <2>3, <2>4
  <2>. QED  BY <1>2, <1>7, <2>2, <2>5 DEF onAssistantDelta, DriverStep
<1>8. CASE askGuest(t)
  <2>1. questionCounter' \in 0..MaxQuestions /\ questionCounter' \in Nat
    BY <1>8, RemoteAssumption DEF askGuest, DriverOK
  <2>2. [driver[t] EXCEPT !.at = "asking", !.asked = questionCounter'] \in Driver
        /\ driver' = [driver EXCEPT ![t] = [driver[t] EXCEPT !.at = "asking", !.asked = questionCounter']]
    <3>1. driver' = [driver EXCEPT ![t].at = "asking", ![t].asked = questionCounter']
      BY <1>8 DEF askGuest
    <3>2. "asking" \in DriverAt
      BY DEF DriverAt
    <3>. QED  BY <1>0, <2>1, <3>1, <3>2
  <2>3. \A c \in wire' : IsReport(c)
    BY <1>0, <1>3, <1>8, <2>1, ReportTypes DEF askGuest
  <2>. QED  BY <1>0, <1>8, <2>1, <2>2, <2>3 DEF askGuest, DriverOK
<1>9. CASE GiveUp(t)
  <2>1. driver[t].asked \in Nat
    BY <1>0, RemoteAssumption
  <2>. QED  BY <1>0, <1>2, <1>3, <1>4, <1>9, <2>1, ReportTypes DEF GiveUp, DriverStep, DriverAt
<1>10. CASE Finish(t)
  <2>1. \A c \in wire' : IsReport(c)
    BY <1>0, <1>3, <1>10, ReportTypes DEF Finish
  <2>. QED  BY <1>1, <1>2, <1>10, <2>1 DEF Finish, DriverStep
<1>11. CASE Stop(t)
  <2>1. \A c \in wire' : IsReport(c)
    BY <1>0, <1>3, <1>11, ReportTypes DEF Stop
  <2>. QED  BY <1>1, <1>2, <1>11, <2>1 DEF Stop, DriverStep
<1>. QED  BY <1>5, <1>6, <1>7, <1>8, <1>9, <1>10, <1>11 DEF Run

LEMMA DriverKeeps == ASSUME RelayInv, [Next]_vars PROVE DriverOK'
<1> DEFINE Driver == [at : DriverAt, aborted : BOOLEAN, text : Texts, asked : 0..MaxQuestions]
<1>0. /\ DriverOK /\ session \in Session /\ session.turn \in Nat /\ session.question \in Nat
      /\ events \in Seq(Told) /\ driver \in [Turns -> Driver]
      /\ \A c \in wire : IsReport(c)
      /\ accepted \subseteq Nat
  BY DEF RelayInv, SessionOK, DriverOK, Session, Turns, NoTurn
<1>1. CASE UNCHANGED <<driver, questionCounter, events, wire>>
  BY <1>0, <1>1 DEF DriverOK
<1>2. ASSUME UNCHANGED <<driver, questionCounter, wire>>, NEW e \in Told, events' = Append(events, e)
      PROVE  DriverOK'
  BY <1>0, <1>2 DEF DriverOK
<1>3. \A t \in Nat, x \in Nat : Event("prompt", t, x) \in Told /\ Event("cancel", t, x) \in Told
                               /\ Event("answer", t, x) \in Told
  BY DEF Event, Told
<1>4. Cancel(session.turn) = Append(events, Event("cancel", session.turn, 0))
      /\ Event("cancel", session.turn, 0) \in Told
  BY <1>0, <1>3 DEF Cancel
<1>5. ASSUME NEW k \in Streams, Page(k) PROVE DriverOK'
  BY <1>1, <1>5 DEF Page, subscribe, event_stream, Leave, unsubscribe
<1>6. ASSUME NEW t \in accepted, dispatch(t) PROVE DriverOK'
  BY <1>0, <1>1, <1>2, <1>3, <1>6 DEF dispatch
<1>7. CASE begin_turn \/ Elapse \/ clear \/ UNCHANGED vars
  BY <1>1, <1>7 DEF begin_turn, Elapse, clear, vars
<1>8. CASE cancel \/ reap \/ disconnect
  BY <1>1, <1>2, <1>4, <1>8 DEF cancel, reap, disconnect
<1>9. CASE answer
  BY <1>0, <1>2, <1>3, <1>9 DEF answer
<1>10. CASE TakeEvent
  <2>1. /\ events # <<>> /\ Head(events) \in Told /\ Tail(events) \in Seq(Told)
        /\ events' = Tail(events) /\ UNCHANGED questionCounter
    <3>1. events # <<>> /\ events' = Tail(events) /\ UNCHANGED questionCounter
      BY <1>10 DEF TakeEvent
    <3>. QED  BY <1>0, <3>1
  <2> DEFINE e == Head(events)
  <2>. HIDE DEF e
  <2>2. \A at \in DriverAt : Moves(e.turn, at) => driver' \in [Turns -> Driver]
    BY <1>0 DEF Moves
  <2>3. CASE e.type = "prompt"
    <3>1. Moves(e.turn, "preparing") /\ UNCHANGED wire
      BY <1>10, <2>3 DEF TakeEvent, e
    <3>. QED  BY <1>0, <2>1, <2>2, <3>1 DEF DriverOK, DriverAt
  <2>4. CASE e.type = "cancel"
    <3>1. driver' = [driver EXCEPT ![e.turn].aborted = @ \/ Unfinished(e.turn)] /\ UNCHANGED wire
      BY <1>10, <2>4 DEF TakeEvent, e
    <3>2. CASE e.turn \in Turns
      <4>1. (driver[e.turn].aborted \/ Unfinished(e.turn)) \in BOOLEAN
        OBVIOUS
      <4>2. driver' \in [Turns -> Driver]
        BY <1>0, <3>1, <3>2, <4>1
      <4>. QED  BY <1>0, <2>1, <3>1, <4>2 DEF DriverOK
    <3>3. CASE e.turn \notin Turns
      BY <1>0, <2>1, <3>1, <3>3 DEF DriverOK
    <3>. QED  BY <3>2, <3>3
  <2>5. CASE e.type = "answer"
    <3>1. \/ Moves(e.turn, "working") /\ Report(Command("cleared", e.turn, e.with))
          \/ UNCHANGED <<driver, wire>>
      BY <1>10, <2>5 DEF TakeEvent, e
    <3>2. IsReport(Command("cleared", e.turn, e.with))
      BY <2>1, ReportTypes DEF e, Told
    <3>. QED  BY <1>0, <2>1, <2>2, <3>1, <3>2 DEF DriverOK, DriverAt, Report
  <2>. QED  BY <2>1, <2>3, <2>4, <2>5 DEF e, Told
<1>11. CASE Reload
  <2>1. Ended("gone") \in Driver
    BY RemoteAssumption DEF Ended, DriverAt, Texts
  <2>2. driver' \in [Turns -> Driver]
    BY <1>0, <1>11, <2>1 DEF Reload
  <2>. QED  BY <1>0, <1>11, <2>2 DEF Reload, DriverOK
<1>12. ASSUME NEW c \in wire, Exec(c) PROVE DriverOK'
  <2>1. IsReport(c) /\ IsReport([c EXCEPT !.with = c.latest])
    BY <1>0 DEF IsReport
  <2>2. \A r \in wire' : IsReport(r)
    BY <1>0, <1>12, <2>1 DEF Exec
  <2>3. driver' = driver \/ driver' = [driver EXCEPT ![c.turn].at = "working"]
    BY <1>12 DEF Exec
  <2>4. driver' \in [Turns -> Driver]
    BY <1>0, <2>3 DEF DriverAt
  <2>. QED  BY <1>0, <1>12, <2>2, <2>4 DEF Exec, DriverOK
<1>. QED  BY <1>0, <1>5, <1>6, <1>7, <1>8, <1>9, <1>10, <1>11, <1>12, DriverRuns DEF Next

-----------------------------------------------------------------------------
(* What the guest sees. *)

\* Nothing is sent, and the turn stays as it was.
LEMMA SilentKeeps ==
    ASSUME GuestInv, UNCHANGED stream, snapshot(session') = snapshot(session)
    PROVE  GuestInv'
  BY DEF GuestInv, Follows

LEMMA TerminateKeeps ==
    ASSUME SessionOK, StreamsOK, GuestInv, NEW t, NEW x \in Texts,
           NEW status \in {"done", "failed"}, terminate(t, status, x)
    PROVE  GuestInv'
<1>1. CASE ~Knows(t)
  BY <1>1, SilentKeeps DEF terminate
<1>2. CASE Knows(t)
  <2>1. /\ session.turn = t /\ session.status \notin {"done", "failed"}
        /\ session'.turn = t /\ session'.status = status
        /\ session'.text = (IF status = "done" THEN x ELSE session.text)
        /\ session'.question = session.question
        /\ session \in Session
    BY <1>2, KnownUnderWay, TerminatedTypes DEF SessionOK
  <2>0. t \in Nat /\ x \in Nat
    BY <2>1, RemoteAssumption DEF Session, Turns, NoTurn, Texts
  <2>2. CASE status = "done"
    <3>1. handle(snapshot(session), Event("done", t, x)) = snapshot(session')
      BY <2>1, <2>2 DEF handle, snapshot, Event
    <3>2. Event("done", t, x) \in PageEvent
      BY <2>0, EventTypes
    <3>. QED  BY <1>2, <2>1, <2>2, <3>1, <3>2, BroadcastShows DEF terminate
  <2>3. CASE status = "failed"
    <3>1. handle(snapshot(session), Event("error", t, x)) = snapshot(session')
      BY <2>1, <2>3 DEF handle, snapshot, Event
    <3>2. Event("error", t, x) \in PageEvent
      BY <2>0, EventTypes
    <3>. QED  BY <1>2, <2>1, <2>3, <3>1, <3>2, BroadcastShows DEF terminate
  <2>. QED  BY <2>2, <2>3
<1>. QED  BY <1>1, <1>2

LEMMA TakeKeeps ==
    ASSUME SessionOK, StreamsOK, GuestInv, NEW c, IsReport(c),
           c.type \notin {"done", "error"}, Take(c)
    PROVE  GuestInv'
<1>1. CASE ~Knows(c.turn)
  BY <1>1, SilentKeeps DEF Take
<1>2. CASE Knows(c.turn)
  <2>1. /\ session.turn = c.turn /\ session.status \notin {"done", "failed"}
        /\ session \in Session /\ c.turn \in Nat /\ c.with \in Nat
    BY <1>2, KnownUnderWay DEF SessionOK, IsReport
  <2>0. \A type \in {"state", "question", "cleared", "delta"}, x \in Nat :
          Event(type, c.turn, x) \in PageEvent
    BY <2>1, EventTypes
  <2>2. CASE c.type = "running"
    <3>1. session' = [session EXCEPT !.status = "running"] /\ Broadcast(Event("state", c.turn, 0))
      BY <1>2, <2>2 DEF Take, set_status
    <3>2. handle(snapshot(session), Event("state", c.turn, 0)) = snapshot(session')
      BY <2>1, <3>1 DEF handle, snapshot, Event, Session
    <3>. QED  BY <2>0, <2>1, <3>1, <3>2, BroadcastShows
  <2>3. CASE c.type = "question"
    <3>1. session' = [session EXCEPT !.question = c.with]
          /\ Broadcast(Event("question", c.turn, c.with))
      BY <1>2, <2>3 DEF Take, Ask
    <3>2. handle(snapshot(session), Event("question", c.turn, c.with)) = snapshot(session')
      BY <2>1, <3>1 DEF handle, snapshot, Event, Session
    <3>. QED  BY <2>0, <2>1, <3>1, <3>2, BroadcastShows
  <2>4. CASE c.type = "cleared"
    <3>1. session' = [session EXCEPT !.question = 0] /\ Broadcast(Event("cleared", c.turn, 0))
      BY <1>2, <2>4 DEF Take, clear_question
    <3>2. handle(snapshot(session), Event("cleared", c.turn, 0)) = snapshot(session')
      BY <2>1, <3>1 DEF handle, snapshot, Event, Session
    <3>. QED  BY <2>0, <2>1, <3>1, <3>2, BroadcastShows
  <2>5. CASE c.type = "delta"
    <3> DEFINE x == c.with
    <3>0. push_text(c.turn, x) /\ x \in Nat /\ session.text \in Nat
      BY <1>2, <2>1, <2>5, RemoteAssumption DEF Take, IsReport, Session, Texts
    <3>. HIDE DEF x
    <3>1. CASE UNCHANGED <<session, stream>>
      BY <3>1, SilentKeeps
    <3>2. CASE /\ x > session.text
               /\ session' = [session EXCEPT !.text = x, !.status = "running"]
               /\ Broadcast(Event("delta", c.turn, x - session.text))
      <4>1. /\ session'.turn = c.turn /\ session'.text = x /\ session'.status = "running"
            /\ session'.question = session.question
        BY <2>1, <3>2 DEF Session
      <4>2. session.text + (x - session.text) = x
        BY <3>0
      <4>3. snapshot(session) = [turn |-> c.turn, text |-> session.text, ended |-> "no",
                                 question |-> session.question]
        BY <2>1 DEF snapshot
      <4>4. handle(snapshot(session), Event("delta", c.turn, x - session.text)) = snapshot(session')
        BY <4>1, <4>2, <4>3 DEF handle, snapshot, Event
      <4>5. x - session.text \in Nat
        BY <3>0, <3>2
      <4>. QED  BY <2>0, <2>1, <3>2, <4>4, <4>5, BroadcastShows
    <3>3. CASE /\ session' = [session EXCEPT !.text = x]
               /\ Broadcast(Event("snapshot", c.turn, snapshot(session')))
      <4>1. handle(snapshot(session), Event("snapshot", c.turn, snapshot(session')))
              = snapshot(session')
        BY DEF handle, Event
      <4>2. session' \in Session
        <5>1. x \in Texts
          BY <2>5 DEF IsReport, x
        <5>. QED  BY <2>1, <3>3, <5>1 DEF Session
      <4>3. Event("snapshot", c.turn, snapshot(session')) \in PageEvent
        BY <2>1, <4>2, SnapshotTypes DEF Event, PageEvent
      <4>. QED  BY <2>1, <3>3, <4>1, <4>3, BroadcastShows
    <3>. QED  BY <3>0, <3>1, <3>2, <3>3 DEF push_text
  <2>. QED  BY <2>2, <2>3, <2>4, <2>5 DEF IsReport
<1>. QED  BY <1>1, <1>2

LEMMA GuestStep == ASSUME RelayInv, GuestInv, [Next]_vars PROVE GuestInv'
<1>0. /\ SessionOK /\ StreamsOK /\ session \in Session
      /\ \A c \in wire : IsReport(c)
      /\ 0 \in Texts /\ 0 \in Nat
      /\ session.turn <= counter /\ counter \in Nat /\ session.turn \in Nat
  <2>1. SessionOK /\ StreamsOK /\ DriverOK
    BY DEF RelayInv
  <2>2. session \in Session /\ session.turn <= counter /\ counter \in 0..MaxTurns
    BY <2>1 DEF SessionOK
  <2>3. \A c \in wire : IsReport(c)
    BY <2>1 DEF DriverOK
  <2>4. MaxTurns \in Nat /\ MaxText \in Nat
    BY RemoteAssumption
  <2>5. session.turn \in Turns \cup {NoTurn}
    BY <2>2 DEF Session
  <2>6. session.turn \in Nat
    BY <2>4, <2>5 DEF Turns, NoTurn
  <2>7. counter \in Nat /\ 0 \in Texts /\ 0 \in Nat
    BY <2>2, <2>4 DEF Texts
  <2>. QED  BY <2>1, <2>2, <2>3, <2>6, <2>7
<1>1. \A k \in Streams : stream[k].queue \in Seq(PageEvent) /\ stream[k].view \in View
  BY <1>0 DEF StreamsOK
<1>2. CASE UNCHANGED <<session, stream>>
  BY <1>2, SilentKeeps
<1>3. ASSUME NEW k \in Streams, Page(k) PROVE GuestInv'
  <2>1. CASE subscribe(k)
    <3>1. snapshot(session') = snapshot(session)
      <4>1. snapshot(Current) = snapshot(session) /\ Current \in Session
        <5>1. CASE session.exists
          BY <1>0, <5>1 DEF Current
        <5>2. CASE ~session.exists
          <6>1. session = NoSession /\ Current = [NoSession EXCEPT !.exists = TRUE]
            BY <1>0, <5>2 DEF SessionOK, Current
          <6>. QED  BY <1>0, <6>1 DEF NoSession, snapshot, Session
        <5>. QED  BY <5>1, <5>2
      <4>2. PICK s \in Session :
              s = Current /\ session' = [s EXCEPT !.subscribers = s.subscribers + 1, !.age = 0]
        BY <2>1, <4>1 DEF subscribe
      <4>3. snapshot(session') = snapshot(s)
        BY <4>2 DEF snapshot, Session
      <4>. QED  BY <4>1, <4>2, <4>3
    <3>2. stream' = [stream EXCEPT ![k].at = "open", ![k].view = snapshot(session)]
      BY <2>1 DEF subscribe
    <3>3. \A i \in Streams \ {k} : stream'[i] = stream[i]
      BY <1>0, <3>2 DEF StreamsOK
    <3>4. /\ stream[k].at # "open"
          /\ stream'[k] = [stream[k] EXCEPT !.at = "open", !.view = snapshot(session)]
      BY <1>0, <2>1, <3>2 DEF subscribe, StreamsOK
    <3>5. stream'[k].queue = <<>> /\ stream'[k].view = snapshot(session)
      BY <1>0, <3>4 DEF GuestInv, Follows, StreamsOK
    <3>6. stream'[k].at = "open"
      BY <1>0, <3>4 DEF StreamsOK
    <3>7. Leads(snapshot(session), <<>>, snapshot(session))
      BY <1>0, SnapshotTypes, LeadsNowhere
    <3>. QED  BY <3>1, <3>3, <3>5, <3>6, <3>7 DEF GuestInv, Follows
  <2>2. CASE event_stream(k)
    <3>0. session' = session /\ stream[k].at = "open" /\ Follows(stream[k])
      BY <2>2 DEF event_stream, relay, GuestInv
    <3>1. CASE stream[k].lagged = "now"
      <4>1. stream' = [stream EXCEPT ![k].lagged = "was", ![k].view = snapshot(session)]
        BY <2>2, <3>1 DEF event_stream
      <4>2. stream'[k] = [stream[k] EXCEPT !.lagged = "was", !.view = snapshot(session)]
        BY <1>0, <4>1 DEF StreamsOK
      <4>3. /\ stream'[k].at = "open" /\ stream'[k].queue = stream[k].queue
            /\ stream'[k].lagged = "was"
        BY <1>0, <3>0, <4>2 DEF StreamsOK
      <4>4. \A i \in Streams \ {k} : stream'[i] = stream[i]
        BY <1>0, <4>1 DEF StreamsOK
      <4>. QED  BY <3>0, <4>3, <4>4 DEF GuestInv, Follows
    <3>2. CASE stream[k].lagged # "now"
      <4>1. /\ stream' = [stream EXCEPT ![k].view = handle(@, Head(stream[k].queue)),
                                        ![k].queue = Tail(@)]
            /\ stream[k].queue # <<>>
        BY <2>2, <3>2 DEF event_stream
      <4>2. stream'[k] = [stream[k] EXCEPT !.view = handle(stream[k].view, Head(stream[k].queue)),
                                           !.queue = Tail(stream[k].queue)]
        BY <1>0, <4>1 DEF StreamsOK
      <4>3. /\ stream'[k].at = "open" /\ stream'[k].queue = Tail(stream[k].queue)
            /\ stream'[k].lagged = stream[k].lagged
            /\ stream'[k].view = handle(stream[k].view, Head(stream[k].queue))
        BY <1>0, <3>0, <4>2 DEF StreamsOK
      <4>4. \A i \in Streams \ {k} : stream'[i] = stream[i]
        BY <1>0, <4>1 DEF StreamsOK
      <4>5. stream[k].lagged = "no" =>
              Leads(handle(stream[k].view, Head(stream[k].queue)), Tail(stream[k].queue),
                    snapshot(session))
        BY <1>0, <1>1, <3>0, <4>1, LeadsOn DEF Follows
      <4>. QED  BY <3>0, <4>3, <4>4, <4>5 DEF GuestInv, Follows
    <3>. QED  BY <3>1, <3>2
  <2>3. CASE Leave(k)
    <3>1. session' = session /\ stream' = [stream EXCEPT ![k] = Closed("closing")]
      BY <2>3 DEF Leave, relay
    <3>2. stream'[k] = Closed("closing") /\ \A i \in Streams \ {k} : stream'[i] = stream[i]
      BY <1>0, <3>1 DEF StreamsOK
    <3>. QED  BY <3>1, <3>2 DEF Closed, GuestInv, Follows
  <2>4. CASE unsubscribe(k)
    <3>1. snapshot(session') = snapshot(session)
      BY <1>0, <2>4 DEF unsubscribe, snapshot, Session
    <3>2. stream'[k] = Closed("off") /\ \A i \in Streams \ {k} : stream'[i] = stream[i]
      BY <1>0, <2>4 DEF unsubscribe, StreamsOK
    <3>. QED  BY <3>1, <3>2 DEF Closed, GuestInv, Follows
  <2>. QED  BY <1>3, <2>1, <2>2, <2>3, <2>4 DEF Page
<1>4. CASE begin_turn
  <2> DEFINE t == counter + 1
  <2>1. /\ session' = [Current EXCEPT !.turn = t, !.status = "waiting", !.text = 0,
                                      !.question = 0, !.age = 0]
        /\ Broadcast(Event("state", t, 0)) /\ t # session.turn
    BY <1>0, <1>4 DEF begin_turn
  <2>2. Current \in Session
    BY <1>0, NoSessionTypes DEF Current, Session
  <2>. HIDE DEF t
  <2>3. session'.turn = t /\ session'.status = "waiting" /\ session'.text = 0 /\ session'.question = 0
    BY <2>1, <2>2 DEF Session
  <2>4. handle(snapshot(session), Event("state", t, 0)) = snapshot(session')
    BY <2>1, <2>3 DEF handle, snapshot, Event
  <2>5. Event("state", t, 0) \in PageEvent
    <3>1. t \in Nat
      BY <1>0 DEF t
    <3>. QED  BY <1>0, <3>1, EventTypes
  <2>. QED  BY <1>0, <2>1, <2>4, <2>5, BroadcastShows
<1>5. ASSUME NEW t \in accepted, dispatch(t) PROVE GuestInv'
  BY <1>0, <1>2, <1>5, TerminateKeeps DEF dispatch
<1>6. CASE answer
  <2>1. session' = [session EXCEPT !.question = 0] /\ Broadcast(Event("cleared", session.turn, 0))
    BY <1>6 DEF answer
  <2>2. handle(snapshot(session), Event("cleared", session.turn, 0)) = snapshot(session')
    BY <1>0, <2>1 DEF handle, snapshot, Event, Session
  <2>3. Event("cleared", session.turn, 0) \in PageEvent
    BY <1>0, EventTypes
  <2>. QED  BY <1>0, <2>1, <2>2, <2>3, BroadcastShows
<1>7. CASE Elapse
  <2>1. snapshot(session') = snapshot(session)
    BY <1>0, <1>7 DEF Elapse, snapshot, Session
  <2>. QED  BY <1>7, <2>1, SilentKeeps DEF Elapse
<1>8. CASE Forget
  <2>1. \A k \in Streams :
          \/ stream'[k] = Closed("closing")
          \/ stream'[k] = stream[k] /\ stream[k].at = "off"
    BY <1>8 DEF Forget, Dropped
  <2>2. ASSUME NEW k \in Streams PROVE Follows(stream[k])'
    <3>1. CASE stream'[k] = Closed("closing")
      BY <3>1 DEF Closed, Follows
    <3>2. CASE stream'[k] = stream[k] /\ stream[k].at = "off"
      BY <3>2 DEF GuestInv, Follows
    <3>. QED  BY <2>1, <3>1, <3>2
  <2>. QED  BY <2>2 DEF GuestInv
<1>9. CASE reap \/ disconnect \/ clear
  BY <1>2, <1>8, <1>9 DEF reap, disconnect, clear
<1>10. ASSUME NEW c \in wire, Exec(c) PROVE GuestInv'
  <2>1. IsReport(c)
    BY <1>0
  <2>2. CASE c.type = "done"
    BY <1>0, <1>10, <2>1, <2>2, TerminateKeeps DEF Exec, IsReport
  <2>3. CASE c.type = "error"
    BY <1>0, <1>10, <2>3, TerminateKeeps DEF Exec
  <2>4. CASE c.type \notin {"done", "error"}
    BY <1>0, <1>10, <2>1, <2>4, TakeKeeps DEF Exec
  <2>. QED  BY <2>2, <2>3, <2>4
<1>11. ASSUME NEW t \in Turns, Run(t) PROVE GuestInv'
  BY <1>2, <1>11
  DEF Run, Prepared, onAdmitted, onAssistantDelta, askGuest, GiveUp, Finish, Stop, DriverStep, relay
<1>12. CASE cancel \/ TakeEvent \/ Reload \/ UNCHANGED vars
  BY <1>2, <1>12 DEF cancel, TakeEvent, Reload, vars, relay
<1>. QED  BY <1>3, <1>4, <1>5, <1>6, <1>7, <1>9, <1>10, <1>11, <1>12 DEF Next

-----------------------------------------------------------------------------
(* Theorems. *)

LEMMA InitRelay == Init => RelayInv /\ GuestInv
<1> SUFFICES ASSUME Init PROVE RelayInv /\ GuestInv
  OBVIOUS
<1>1. SessionOK
  BY NoSessionTypes, RemoteAssumption DEF Init, SessionOK, NoSession, NoTurn
<1>2. StreamsOK /\ GuestInv
  BY ClosedTypes DEF Init, StreamsOK, GuestInv, Follows, Closed
<1>3. DriverOK
  <2>1. Ended("none") \in [at : DriverAt, aborted : BOOLEAN, text : Texts, asked : 0..MaxQuestions]
    BY RemoteAssumption DEF Ended, DriverAt, Texts
  <2>. QED  BY <2>1, RemoteAssumption DEF Init, DriverOK
<1>. QED  BY <1>1, <1>2, <1>3 DEF RelayInv

LEMMA RelayHolds == Spec => []RelayInv
<1>1. RelayInv /\ [Next]_vars => RelayInv'
  BY SessionStep, StreamsStep, DriverKeeps DEF RelayInv
<1>. QED  BY <1>1, InitRelay, PTL DEF Spec

\* The state keeps its type (Relay, the driver's map of turns).
THEOREM RelayTypes == Spec => []TypeOK
<1>1. RelayInv => TypeOK
  <2> SUFFICES ASSUME RelayInv PROVE TypeOK
    OBVIOUS
  <2>1. session \in Session /\ known \subseteq Turns /\ accepted \subseteq Turns
        /\ counter \in 0..MaxTurns
    BY RemoteAssumption DEF RelayInv, SessionOK, Turns
  <2>2. \A k \in Streams : stream[k].at \in {"off", "open", "closing"}
    BY DEF RelayInv, StreamsOK
  <2>3. \A t \in Turns : driver[t].at \in DriverAt
    BY DEF RelayInv, DriverOK
  <2>. QED  BY <2>1, <2>2, <2>3 DEF TypeOK, DriverAt
<1>. QED  BY <1>1, RelayHolds, PTL

\* No report that comes late or out of order changes an answer that is
\* done (terminate retires the turn's id; push_text, set_status).
THEOREM AnswersStayWhole == Spec => FinishedAnswerWhole
<1>1. RelayInv /\ [Next]_vars => [Finished]_vars
  BY SessionStep
<1>2. [Finished]_vars =>
        [(session.status = "done" /\ session'.turn = session.turn)
            => (session'.status = "done" /\ session'.text = session.text)]_vars
  BY DEF Finished
<1>. QED  BY <1>1, <1>2, RelayHolds, PTL DEF Spec, FinishedAnswerWhole

\* A page that has read its stream to the end, and lost nothing of it, shows the
\* turn as the relay holds it (Snapshot, push_text, app.js).
THEOREM GuestsSeeAnswers == Spec => []GuestSeesAnswer
<1>1. RelayInv /\ GuestInv /\ [Next]_vars => GuestInv'
  BY GuestStep
<1>2. RelayInv /\ GuestInv => GuestSeesAnswer
  <2> SUFFICES ASSUME RelayInv, GuestInv, NEW k \in Streams, stream[k].at = "open",
                      stream[k].lagged = "no", stream[k].queue = <<>>
               PROVE  stream[k].view = snapshot(session)
    BY DEF GuestSeesAnswer, Caught, Open
  <2>1. stream[k].view \in View
    BY DEF RelayInv, StreamsOK
  <2>2. Leads(stream[k].view, <<>>, snapshot(session))
    BY DEF GuestInv, Follows
  <2>. QED  BY <2>1, <2>2, LeadsNowhere
<1>. QED  BY <1>1, <1>2, InitRelay, RelayHolds, PTL DEF Spec
=============================================================================
