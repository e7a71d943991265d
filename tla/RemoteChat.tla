----------------------------- MODULE RemoteChat -----------------------------
(***************************************************************************)
(* Guest chat: the relay between the pages of a guest and the webview that *)
(* runs its turns.  The relay (src-tauri/src/remote/relay.rs) holds the    *)
(* session's current turn and fans its events out to the guest's streams   *)
(* (remote/server.rs, remote/client/app.js); the driver (lib/remote/       *)
(* driver.ts) runs a turn and reports back through commands.               *)
(*                                                                         *)
(* One session, since the relay keeps them apart by id.  Commands of the   *)
(* driver are asynchronous, so those under way are executed in any order;  *)
(* events to the webview and to a stream keep theirs.  A text is its       *)
(* length: a shorter one stands for any that does not extend what is held. *)
(***************************************************************************)
EXTENDS Naturals, Sequences, FiniteSets

CONSTANTS
    Streams,       \* the pages a guest has the session open in
    MaxTurns,      \* bound: turns
    MaxText,       \* bound: length of an answer
    MaxQuestions,  \* bound: questions asked
    Admits,        \* bound: the turns that get a slot; others wait for one
    Capacity,      \* CHANNEL_CAPACITY
    FaultKinds,    \* which of "db", "reload", "dispatch", "disconnect", "stop" happen
    MaxFaults      \* bound: how many of them

ASSUME RemoteAssumption ==
    /\ MaxTurns \in Nat /\ MaxText \in Nat /\ MaxQuestions \in Nat /\ MaxFaults \in Nat
    /\ Capacity \in Nat \ {0} /\ Admits \subseteq 1..MaxTurns
    /\ FaultKinds \subseteq {"db", "reload", "dispatch", "disconnect", "stop"}

VARIABLES
    session,   \* Relay: the session and its turn
    known,     \* Relay.turns: the turns whose reports are taken
    counter,   \* turns begun
    accepted,  \* turns begun and not yet handed to the webview
    stream,    \* per page: its SSE stream, what it has not read, what it shows
    events,    \* events on their way to the webview
    driver,    \* per turn: runRemoteTurn
    questionCounter,  \* questions asked
    wire,      \* commands of the driver on their way to the relay
    faults,    \* history: how many things went wrong
    uncancelled  \* history: a turn under way was cut off and not cancelled

vars == <<session, known, counter, accepted, stream, events, driver, questionCounter,
          wire, faults, uncancelled>>
relay == <<session, known, counter, accepted>>

Turns == 1..MaxTurns
NoTurn == 0
Texts == 0..MaxText
TurnStatus == {"none", "waiting", "running", "done", "failed"}

\* age: 1 past ORPHAN_GRACE, 2 past IDLE_TIMEOUT.  question: 0 for none.
Session == [exists : BOOLEAN, subscribers : Nat, age : 0..2,
            turn : Turns \cup {NoTurn}, status : TurnStatus, text : Texts,
            question : 0..MaxQuestions]
NoSession == [exists |-> FALSE, subscribers |-> 0, age |-> 0, turn |-> NoTurn,
              status |-> "none", text |-> 0, question |-> 0]
Current == IF session.exists THEN session ELSE [NoSession EXCEPT !.exists = TRUE]

in_flight == session.status \in {"waiting", "running"}
Open == {k \in Streams : stream[k].at = "open"}
Unfinished(t) == driver[t].at \in {"preparing", "queued", "working", "asking"}

Fails(kind) ==
    kind \in FaultKinds /\ faults < MaxFaults /\ faults' = faults + 1

-----------------------------------------------------------------------------
(* Events to the pages. *)

\* What a page shows of a turn: an error takes the place of its text.
snapshot(s) ==
    [turn |-> s.turn, text |-> IF s.status = "failed" THEN 0 ELSE s.text,
     ended |-> IF s.status \in {"done", "failed"} THEN s.status ELSE "no",
     question |-> s.question]

\* A page handles an event (app.js): the first of a turn starts a new answer.
\* `with` is the text, the question or the snapshot the event carries.
handle(v, e) ==
    LET slot == IF v.turn = e.turn THEN v
                ELSE [turn |-> e.turn, text |-> 0, ended |-> "no", question |-> 0]
    IN CASE e.type = "snapshot" -> e.with
         [] e.type = "state"    -> slot
         [] e.type = "delta"    -> [slot EXCEPT !.text = @ + e.with]
         [] e.type = "question" -> [slot EXCEPT !.question = e.with]
         [] e.type = "cleared"  -> [slot EXCEPT !.question = 0]
         [] e.type = "done"     -> [slot EXCEPT !.text = e.with, !.ended = "done"]
         [] e.type = "error"    -> [slot EXCEPT !.text = 0, !.ended = "failed"]

Event(type, t, x) == [type |-> type, turn |-> t, with |-> x]

\* tx.send: a stream that holds as much as it can loses its oldest.
Broadcast(e) ==
    stream' = [k \in Streams |->
        CASE k \notin Open -> stream[k]
          [] k \in Open /\ Len(stream[k].queue) < Capacity ->
               [stream[k] EXCEPT !.queue = Append(@, e)]
          [] OTHER -> [stream[k] EXCEPT !.queue = Append(Tail(@), e), !.lagged = "now"]]

\* What a closed page showed is of no matter: connecting, it starts from a
\* snapshot.
Closed(at) == [at |-> at, queue |-> <<>>, lagged |-> "no", view |-> snapshot(NoSession)]

\* Dropping the sender ends the session's streams.
Dropped == [k \in Streams |->
    IF stream[k].at = "off" THEN stream[k]
    ELSE Closed("closing")]

-----------------------------------------------------------------------------
(* The streams. *)

\* A page connects: it is counted, and shown the turn before anything else.
subscribe(k) ==
    /\ stream[k].at = "off"
    /\ session' = [Current EXCEPT !.subscribers = @ + 1, !.age = 0]
    /\ stream' = [stream EXCEPT ![k].at = "open", ![k].view = snapshot(session)]
    /\ UNCHANGED <<known, counter, accepted, events, driver, questionCounter, wire, faults, uncancelled>>

\* A page that missed events is sent a snapshot, then what it has not read.
event_stream(k) ==
    /\ stream[k].at = "open"
    /\ \/ /\ stream[k].lagged = "now"
          /\ stream' = [stream EXCEPT ![k].lagged = "was", ![k].view = snapshot(session)]
       \/ /\ stream[k].lagged # "now" /\ stream[k].queue # <<>>
          /\ stream' = [stream EXCEPT ![k].view = handle(@, Head(stream[k].queue)),
                                      ![k].queue = Tail(@)]
    /\ UNCHANGED <<relay, events, driver, questionCounter, wire, faults, uncancelled>>

\* The page is closed, or its phone asleep: the host notices later.
Leave(k) ==
    /\ stream[k].at = "open"
    /\ stream' = [stream EXCEPT ![k] = Closed("closing")]
    /\ UNCHANGED <<relay, events, driver, questionCounter, wire, faults, uncancelled>>

\* Fault: a stream that ends is still counted.
EndUncounted(k) ==
    /\ stream[k].at = "closing"
    /\ stream' = [stream EXCEPT ![k] = Closed("off")]
    /\ UNCHANGED <<relay, events, driver, questionCounter, wire, faults, uncancelled>>

\* SubscriberGuard: by the session's id, whichever session has it by now.
unsubscribe(k) ==
    /\ stream[k].at = "closing"
    /\ stream' = [stream EXCEPT ![k] = Closed("off")]
    /\ session' = IF session.exists
                  THEN [session EXCEPT !.subscribers = IF @ = 0 THEN 0 ELSE @ - 1, !.age = 0]
                  ELSE session
    /\ UNCHANGED <<known, counter, accepted, events, driver, questionCounter, wire, faults, uncancelled>>

-----------------------------------------------------------------------------
(* The guest's requests, the host's, and the reaper. *)

\* A prompt is accepted when no turn is in flight, and handed over afterwards.
begin_turn ==
    /\ counter < MaxTurns /\ ~in_flight
    /\ LET t == counter + 1 IN
         /\ session' = [Current EXCEPT !.turn = t, !.status = "waiting", !.text = 0,
                                       !.question = 0, !.age = 0]
         /\ known' = known \cup {t} /\ counter' = t /\ accepted' = accepted \cup {t}
         /\ Broadcast(Event("state", t, 0))
    /\ UNCHANGED <<events, driver, questionCounter, wire, faults, uncancelled>>

Knows(t) == t \in known /\ session.exists /\ session.turn = t

\* Fault: the id of an ended turn is kept, so its reports are still taken.
terminate_kept(t, status, text) ==
    IF ~Knows(t) THEN UNCHANGED <<session, known, stream>>
    ELSE /\ session' = [session EXCEPT !.status = status, !.age = 0,
                                       !.text = IF status = "done" THEN text ELSE @]
         /\ Broadcast(Event(IF status = "done" THEN "done" ELSE "error", t, text))
         /\ UNCHANGED known

terminate(t, status, text) ==
    /\ known' = known \ {t}
    /\ IF ~Knows(t) THEN UNCHANGED <<session, stream>>
       ELSE /\ session' = [session EXCEPT !.status = status, !.age = 0,
                                          !.text = IF status = "done" THEN text ELSE @]
            /\ Broadcast(Event(IF status = "done" THEN "done" ELSE "error", t, text))

dispatch(t) ==
    /\ t \in accepted /\ accepted' = accepted \ {t}
    /\ \/ /\ events' = Append(events, Event("prompt", t, 0))
          /\ UNCHANGED <<session, known, stream, faults>>
       \/ /\ Fails("dispatch") /\ terminate(t, "failed", 0) /\ UNCHANGED events
    /\ UNCHANGED <<counter, driver, questionCounter, wire, uncancelled>>

Cancel(t) == Append(events, Event("cancel", t, 0))
\* Bound: a turn is not cancelled again while its cancel is on its way or taken.
NotCancelled(t) ==
    /\ ~driver[t].aborted
    /\ \A i \in DOMAIN events : events[i].type = "cancel" => events[i].turn # t

\* The guest stops the turn.
cancel ==
    /\ in_flight /\ NotCancelled(session.turn)
    /\ events' = Cancel(session.turn)
    /\ UNCHANGED <<relay, stream, driver, questionCounter, wire, faults, uncancelled>>

\* The guest answers the question: taken down here, and sent to the driver.
answer ==
    /\ session.question # 0
    /\ session' = [session EXCEPT !.question = 0]
    /\ Broadcast(Event("cleared", session.turn, 0))
    /\ events' = Append(events, Event("answer", session.turn, session.question))
    /\ UNCHANGED <<known, counter, accepted, driver, questionCounter, wire, faults, uncancelled>>

\* Time passes for a session without subscribers; handing a prompt over takes
\* less of it.
Elapse ==
    /\ accepted = {}
    /\ session.exists /\ session.subscribers = 0 /\ session.age < 2
    /\ session' = [session EXCEPT !.age = @ + 1]
    /\ UNCHANGED <<known, counter, accepted, stream, events, driver, questionCounter, wire, faults, uncancelled>>

Orphaned == in_flight /\ session.subscribers = 0 /\ session.age > 0
Idle == session.exists /\ session.subscribers = 0 /\ session.age = 2
Forget == session' = NoSession /\ known' = {} /\ stream' = Dropped

\* Fault: an idle session is forgotten before its turn is looked at.
reap_forgets ==
    /\ \/ Idle /\ Forget /\ UNCHANGED events
       \/ /\ Orphaned /\ ~Idle /\ NotCancelled(session.turn)
          /\ events' = Cancel(session.turn) /\ UNCHANGED <<session, known, stream>>
    /\ UNCHANGED <<counter, accepted, driver, questionCounter, wire, faults, uncancelled>>

\* One pass of the reaper: an orphaned turn is cancelled, an idle session forgotten.
reap ==
    /\ Idle \/ (Orphaned /\ NotCancelled(session.turn))
    /\ events' = IF Orphaned THEN Cancel(session.turn) ELSE events
    /\ IF Idle THEN Forget ELSE UNCHANGED <<session, known, stream>>
    /\ UNCHANGED <<counter, accepted, driver, questionCounter, wire, faults, uncancelled>>

\* The host throws the guest off.  A turn not handed over yet misses its cancel.
disconnect ==
    /\ session.exists /\ Fails("disconnect")
    /\ Forget /\ uncancelled' = (uncancelled \/ session.turn \in accepted)
    /\ events' = IF in_flight THEN Cancel(session.turn) ELSE events
    /\ UNCHANGED <<counter, accepted, driver, questionCounter, wire>>

\* The server stops and is started again: sessions go, turns are not cancelled.
clear ==
    /\ session.exists /\ Fails("stop")
    /\ Forget /\ uncancelled' = (uncancelled \/ in_flight)
    /\ UNCHANGED <<counter, accepted, events, driver, questionCounter, wire>>

-----------------------------------------------------------------------------
(* The driver, and its commands. *)

Command(type, t, x) == [type |-> type, turn |-> t, with |-> x, latest |-> x]
Report(c) == wire' = wire \cup {c}
Moves(t, at) == driver' = [driver EXCEPT ![t].at = at]
Ended(at) == [at |-> at, aborted |-> FALSE, text |-> 0, asked |-> 0]
DriverStep == UNCHANGED <<relay, stream, events, questionCounter, uncancelled>>

\* The webview takes its next event.
TakeEvent ==
    /\ events # <<>> /\ events' = Tail(events)
    /\ LET e == Head(events)  d == driver[e.turn] IN
         CASE e.type = "prompt" -> Moves(e.turn, "preparing") /\ UNCHANGED wire
           [] e.type = "cancel" ->
                /\ driver' = [driver EXCEPT ![e.turn].aborted = @ \/ Unfinished(e.turn)]
                /\ UNCHANGED wire
           [] e.type = "answer" ->
                IF d.at = "asking" /\ d.asked = e.with
                THEN Moves(e.turn, "working") /\ Report(Command("cleared", e.turn, e.with))
                ELSE UNCHANGED <<driver, wire>>
    /\ UNCHANGED <<relay, stream, questionCounter, faults, uncancelled>>

\* The conversation's row is made, and the prompt saved, outside of the `try`.
Prepared(t) ==
    /\ driver[t].at = "preparing"
    /\ \/ Moves(t, "queued") /\ UNCHANGED faults
       \/ driver' = [driver EXCEPT ![t] = Ended("lost")] /\ Fails("db")
    /\ DriverStep /\ UNCHANGED wire

onAdmitted(t) ==
    /\ driver[t].at = "queued" /\ ~driver[t].aborted /\ t \in Admits
    /\ Moves(t, "working") /\ Report(Command("running", t, 0))
    /\ DriverStep /\ UNCHANGED faults

\* TextPump: the answer so far, one update at a time; `latest` is sent next.
Pumped(t) == {c \in wire : c.type = "delta" /\ c.turn = t}
onAssistantDelta(t) ==
    /\ driver[t].at = "working"
    /\ \E x \in Texts \ {driver[t].text} :
         /\ driver' = [driver EXCEPT ![t].text = x]
         /\ wire' = (wire \ Pumped(t)) \cup
                (IF Pumped(t) = {} THEN {Command("delta", t, x)}
                 ELSE {[c EXCEPT !.latest = x] : c \in Pumped(t)})
    /\ DriverStep /\ UNCHANGED faults

askGuest(t) ==
    /\ driver[t].at = "working" /\ questionCounter < MaxQuestions
    /\ questionCounter' = questionCounter + 1
    /\ driver' = [driver EXCEPT ![t].at = "asking", ![t].asked = questionCounter']
    /\ Report(Command("question", t, questionCounter'))
    /\ UNCHANGED <<relay, stream, events, faults, uncancelled>>

\* ANSWER_TIMEOUT_MS has passed, or the turn is aborted, once the question is up.
GiveUp(t) ==
    /\ driver[t].at = "asking"
    /\ Command("question", t, driver[t].asked) \notin wire
    /\ Moves(t, "working") /\ Report(Command("cleared", t, driver[t].asked))
    /\ DriverStep /\ UNCHANGED faults

\* The turn ends by itself, with a final text of its own or with an error.
Finish(t) ==
    /\ \/ /\ driver[t].at = "working"
          /\ \E x \in Texts : Report(Command("done", t, x))
       \/ /\ driver[t].at \in {"queued", "working"} /\ ~driver[t].aborted
          /\ Report(Command("error", t, 0))
    /\ driver' = [driver EXCEPT ![t] = Ended("over")]
    /\ DriverStep /\ UNCHANGED faults

\* An aborted turn ends with what it had; its row is saved before it says so.
Stop(t) ==
    /\ driver[t].at \in {"queued", "working"} /\ driver[t].aborted
    /\ \/ /\ driver' = [driver EXCEPT ![t] = Ended("over")]
          /\ Report(Command("done", t, driver[t].text)) /\ UNCHANGED faults
       \/ /\ driver[t].text > 0 /\ driver' = [driver EXCEPT ![t] = Ended("lost")]
          /\ Fails("db") /\ UNCHANGED wire
    /\ DriverStep

\* The webview is reloaded: what ran in it is gone, and says nothing more.
Reload ==
    /\ \E t \in Turns : Unfinished(t)
    /\ Fails("reload")
    /\ driver' = [t \in Turns |-> IF driver[t].at = "none" THEN driver[t]
                                  ELSE Ended("gone")]
    /\ events' = <<>>
    /\ UNCHANGED <<relay, stream, questionCounter, wire, uncancelled>>

-----------------------------------------------------------------------------
(* The relay takes a command. *)

\* Fault: a text that does not extend what is held is sent as a delta.
push_rewrite(t, x) ==
    /\ session' = [session EXCEPT !.text = x, !.status = "running"]
    /\ IF x = session.text THEN UNCHANGED stream
       ELSE Broadcast(Event("delta", t, IF x > session.text THEN x - session.text ELSE x))

\* Deltas are suffixes; any other text is sent as a snapshot.
push_text(t, x) ==
    \/ x = session.text /\ UNCHANGED <<session, stream>>
    \/ /\ x > session.text
       /\ session' = [session EXCEPT !.text = x, !.status = "running"]
       /\ Broadcast(Event("delta", t, x - session.text))
    \/ /\ x < session.text
       /\ session' = [session EXCEPT !.text = x]
       /\ Broadcast(Event("snapshot", t, snapshot(session')))

Ask(t, q) ==
    /\ session' = [session EXCEPT !.question = q]
    /\ Broadcast(Event("question", t, q))

\* Without a question's id: whichever question is up comes down.
clear_question(t) ==
    /\ session' = [session EXCEPT !.question = 0]
    /\ Broadcast(Event("cleared", t, 0))

set_status(t) ==
    /\ session' = [session EXCEPT !.status = "running"]
    /\ Broadcast(Event("state", t, 0))

\* A report of a turn the relay does not know is dropped; a question is refused.
Take(c) ==
    IF ~Knows(c.turn) THEN UNCHANGED <<session, stream>>
    ELSE CASE c.type = "running"  -> set_status(c.turn)
           [] c.type = "delta"    -> push_text(c.turn, c.with)
           [] c.type = "question" -> Ask(c.turn, c.with)
           [] c.type = "cleared"  -> clear_question(c.turn)

Exec(c) ==
    LET d == driver[c.turn]
        again == c.latest # c.with /\ d.at # "gone"
        refused == c.type = "question" /\ ~Knows(c.turn) /\ d.at = "asking"
    IN /\ wire' = (wire \ {c}) \cup (IF again THEN {[c EXCEPT !.with = c.latest]} ELSE {})
       /\ driver' = IF refused THEN [driver EXCEPT ![c.turn].at = "working"] ELSE driver
       /\ CASE c.type = "done"  -> terminate(c.turn, "done", c.with)
            [] c.type = "error" -> terminate(c.turn, "failed", 0)
            [] OTHER            -> Take(c) /\ UNCHANGED known
       /\ UNCHANGED <<counter, accepted, events, questionCounter, faults, uncancelled>>

-----------------------------------------------------------------------------
(* The specification. *)

Init ==
    /\ session = NoSession /\ known = {} /\ counter = 0 /\ accepted = {}
    /\ stream = [k \in Streams |-> Closed("off")]
    /\ events = <<>> /\ wire = {} /\ questionCounter = 0 /\ faults = 0 /\ uncancelled = FALSE
    /\ driver = [t \in Turns |-> Ended("none")]

Page(k) == subscribe(k) \/ event_stream(k) \/ Leave(k) \/ unsubscribe(k)
Run(t) ==
    \/ Prepared(t) \/ onAdmitted(t) \/ onAssistantDelta(t) \/ askGuest(t) \/ GiveUp(t)
    \/ Finish(t) \/ Stop(t)
Next ==
    \/ \E k \in Streams : Page(k)
    \/ begin_turn \/ (\E t \in accepted : dispatch(t)) \/ cancel \/ answer
    \/ Elapse \/ reap \/ disconnect \/ clear
    \/ TakeEvent \/ (\E t \in Turns : Run(t)) \/ Reload
    \/ \E c \in wire : Exec(c)

\* What runs by itself: the reaper and its clock, the end of a stream nobody
\* reads, the webview's events, timers and aborts, and the commands.  A model
\* need not admit a turn, nor stop writing, and pages need not read.
Fairness ==
    /\ WF_vars(reap) /\ WF_vars(Elapse) /\ WF_vars(TakeEvent)
    /\ \A k \in Streams : WF_vars(unsubscribe(k))
    /\ \A t \in Turns :
         /\ WF_vars(dispatch(t)) /\ WF_vars(Prepared(t)) /\ WF_vars(GiveUp(t))
         /\ WF_vars(Stop(t)) /\ WF_vars(\E c \in wire : c.turn = t /\ Exec(c))

Spec == Init /\ [][Next]_vars
LiveSpec == Spec /\ Fairness

-----------------------------------------------------------------------------
(* Properties. *)

\* The state is well formed.
TypeOK ==
    /\ session \in Session /\ known \subseteq Turns /\ counter \in 0..MaxTurns
    /\ accepted \subseteq Turns
    /\ \A k \in Streams : stream[k].at \in {"off", "open", "closing"}
    /\ \A t \in Turns : driver[t].at \in {"none", "preparing", "queued", "working",
                                          "asking", "over", "lost", "gone"}

Caught(k) ==
    stream[k].queue = <<>> /\ session.turn # NoTurn => stream[k].view = snapshot(session)

\* A page that has read its stream to the end, and missed nothing of it, shows
\* the turn as the relay holds it, in whichever order the driver's reports
\* arrived (Snapshot, push_text and the page's handle).
GuestSeesAnswer == \A k \in Open : stream[k].lagged = "no" => Caught(k)

\* relay.rs:144 "a reconnecting client never has to reconstruct anything": so
\* does one that missed events and was sent a snapshot since.
LaggedGuestSeesAnswer == \A k \in Open : stream[k].lagged # "now" => Caught(k)

\* An answer that is done stays the one the turn ended with: no report that
\* arrives late changes it (terminate retires the turn's id).
FinishedAnswerWhole ==
    [][(session.status = "done" /\ session'.turn = session.turn)
         => (session'.status = "done" /\ session'.text = session.text)]_vars

\* Turns that nobody listens to are stopped: the reaper or the disconnect
\* cancels them, and the driver ends them (reap, disconnect, runRemoteTurn),
\* unless a page comes back, the server is stopped, or the guest was thrown off
\* in the instant between the acceptance of a prompt and its handing over.
AbandonedTurnStops ==
    ((\E t \in Turns : Unfinished(t)) /\ Open = {}) ~>
        ((\A t \in Turns : ~Unfinished(t)) \/ Open # {} \/ uncancelled)

=============================================================================
