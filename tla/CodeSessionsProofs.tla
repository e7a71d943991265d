------------------------- MODULE CodeSessionsProofs -------------------------
(***************************************************************************)
(* Theorems about CodeSessions, for any number of windows and of           *)
(* operations, when a window carries out one operation at a time.          *)
(* ClaimInv says who owns the session at each point of an operation;       *)
(* Handed what is handed over with it, and Custody who sees to the         *)
(* background command meanwhile.                                           *)
(***************************************************************************)
EXTENDS CodeSessions, FiniteSetTheorems, SequenceTheorems, TLAPS

\* A window has one operation under way, and at most its command in the inbox.
OneAtATime ==
    \A f, g \in Flows :
        Window(f) = Window(g) /\ flow[f].at # "idle" /\ flow[g].at # "idle" => f = g

Sent(f, m) ==
    \/ flow[f].at = "claim" /\ m = <<Claim(f)>>
    \/ flow[f].at = "release" /\ \E h \in Handoff : m = <<Release(f, h)>>

InboxOK ==
    /\ DOMAIN inbox = Windows
    /\ \A w \in Windows : inbox[w] = <<>> \/ \E f \in Flows : Window(f) = w /\ Sent(f, inbox[w])

\* A destroyed window leaves nothing.
GoneIsGone ==
    \A w \in Windows \ alive :
        /\ inbox[w] = <<>> /\ w \notin open
        /\ \A f \in Flows : Window(f) = w => flow[f].at = "idle"

\* From its claim to its release an operation owns the session; before and
\* after, the window does not show it.
ClaimHeld ==
    /\ \A w \in open : owner = w
    /\ \A f \in Flows :
        /\ flow[f].at \in {"claimed", "load", "loaded", "failed", "dispose", "stop"}
             => owner = Window(f)
        /\ flow[f].at \in {"refused", "released", "create"} => owner # Window(f)
        /\ flow[f].at \in {"load", "loaded", "failed", "dispose", "stop", "release",
                           "released", "create", "purge", "deleting"} => Window(f) \notin open

ClaimInv == TypeOK /\ OneAtATime /\ InboxOK /\ GoneIsGone /\ ClaimHeld /\ NoLeakedClaim

-----------------------------------------------------------------------------
(* The shapes of steps. *)

Owns == {"claimed", "load", "loaded", "failed", "dispose", "stop"}
Without == {"refused", "released", "create"}
Away == {"load", "loaded", "failed", "dispose", "stop", "release", "released",
         "create", "purge", "deleting"}

\* What a step may do to the rest of the state.
Rest ==
    /\ handoff' \in Handoff /\ row' \in BOOLEAN /\ reattach' \in BOOLEAN
    /\ watching' \subseteq alive' /\ bg' \in Bg /\ faults' \subseteq FaultKinds

\* The only operation of its window moves on.
Moves(f) ==
    LET w == Window(f) IN
    /\ w \in alive /\ alive' = alive
    /\ \A g \in Flows : Window(g) = w /\ flow[g].at # "idle" => g = f
    /\ flow' \in [Flows -> [op : Op, at : At, carries : Handoff]]
    /\ \A g \in Flows \ {f} : flow'[g] = flow[g]
    /\ DOMAIN inbox' = Windows
    /\ \A v \in Windows \ {w} : inbox'[v] = inbox[v]
    /\ \/ inbox'[w] = <<>>
       \/ flow'[f].at = "claim" /\ inbox'[w] = <<Claim(f)>>
       \/ flow'[f].at = "release" /\ \E h \in Handoff : inbox'[w] = <<Release(f, h)>>
    /\ open' \subseteq alive
    /\ \A v \in Windows \ {w} : v \in open' <=> v \in open
    /\ w \in open' => owner' = w /\ flow'[f].at \notin Away
    /\ owner' \in {owner, w, Nobody}
    /\ owner' # owner => owner \notin alive \ {w}
    /\ flow'[f].at \in Owns => owner' = w
    /\ flow'[f].at \in Without => owner' # w
    /\ owner' = w => w \in open' \/ flow'[f].at # "idle"

LEMMA MovesKeeps ==
    ASSUME ClaimInv, NEW f \in Flows, Moves(f), Rest
    PROVE  ClaimInv'
<1> DEFINE w == Window(f)
<1>1. w \in Windows /\ alive \subseteq Windows /\ Nobody \notin Windows
  BY SessionsAssumption DEF ClaimInv, TypeOK, Window
<1>2. OneAtATime'
  BY DEF ClaimInv, OneAtATime, Moves, Window
<1>3. InboxOK'
  <2> SUFFICES ASSUME NEW v \in Windows, inbox'[v] # <<>>
               PROVE  \E g \in Flows : Window(g) = v /\ Sent(g, inbox[v])'
    BY DEF InboxOK, Moves, Sent, Window
  <2>1. CASE v = w
    BY <2>1 DEF Moves, Sent
  <2>2. CASE v # w
    <3>1. inbox'[v] = inbox[v]
      BY <2>2 DEF Moves
    <3>2. PICK g \in Flows : Window(g) = v /\ Sent(g, inbox[v])
      BY <3>1 DEF ClaimInv, InboxOK
    <3>3. flow'[g] = flow[g]
      BY <2>2, <3>2 DEF Moves
    <3>. QED  BY <3>1, <3>2, <3>3 DEF Sent
  <2>. QED  BY <2>1, <2>2
<1>4. GoneIsGone'
  BY DEF ClaimInv, GoneIsGone, Moves
<1>5. \A v \in open' : owner' = v
  <2> SUFFICES ASSUME NEW v \in open', v # w PROVE owner' = v
    BY DEF Moves
  <2>1. v \in open /\ owner = v /\ v \in alive
    BY DEF Moves, ClaimInv, ClaimHeld, TypeOK
  <2>. QED  BY <2>1 DEF Moves
<1>6. ASSUME NEW g \in Flows
      PROVE  /\ flow'[g].at \in Owns => owner' = Window(g)
             /\ flow'[g].at \in Without => owner' # Window(g)
             /\ flow'[g].at \in Away => Window(g) \notin open'
  <2>1. CASE g = f
    BY <2>1 DEF Moves
  <2>2. CASE g # f /\ flow[g].at # "idle"
    <3>1. flow'[g] = flow[g] /\ Window(g) # w
      BY <2>2 DEF Moves
    <3>2. Window(g) \in alive /\ Window(g) \in Windows
      BY <2>2, SessionsAssumption DEF ClaimInv, GoneIsGone, Window
    <3>3. flow[g].at \in Owns => owner' = Window(g)
      BY <3>1, <3>2 DEF Owns, ClaimInv, ClaimHeld, Moves
    <3>4. flow[g].at \in Without => owner' # Window(g)
      BY <1>1, <3>1, <3>2 DEF Without, ClaimInv, ClaimHeld, Moves
    <3>5. flow[g].at \in Away => Window(g) \notin open'
      BY <3>1, <3>2 DEF Away, ClaimInv, ClaimHeld, Moves
    <3>. QED  BY <3>1, <3>3, <3>4, <3>5
  <2>3. CASE g # f /\ flow[g].at = "idle"
    BY <2>3 DEF Moves, Owns, Without, Away
  <2>. QED  BY <2>1, <2>2, <2>3
<1>7. ClaimHeld'
  BY <1>5, <1>6 DEF ClaimHeld, Owns, Without, Away, Window
<1>8. NoLeakedClaim'
  <2> SUFFICES ASSUME owner' \in alive' PROVE owner' \in open' \/ Busy(owner)'
    BY DEF NoLeakedClaim
  <2>1. CASE owner' = w
    BY <2>1 DEF Moves, Busy, Window
  <2>2. CASE owner' # w
    <3>1. owner' = owner /\ owner \in alive
      BY <1>1, <2>2 DEF Moves
    <3>2. owner \in open \/ \E g \in Flows : Window(g) = owner /\ flow[g].at # "idle"
      BY <3>1 DEF ClaimInv, NoLeakedClaim, Busy
    <3>3. owner \in open => owner \in open'
      BY <1>1, <2>2, <3>1 DEF Moves
    <3>. QED  BY <2>2, <3>1, <3>2, <3>3 DEF Moves, Busy, Window
  <2>. QED  BY <2>1, <2>2
<1>9. TypeOK'
  <2>1. \A v \in Windows : \A i \in DOMAIN inbox'[v] : Window(inbox'[v][i].flow) = v
    BY <1>3 DEF InboxOK, Sent, Claim, Release, Window
  <2>2. owner' \in Windows \cup {Nobody}
    BY <1>1 DEF Moves, ClaimInv, TypeOK
  <2>. QED  BY <2>1, <2>2 DEF Moves, Rest, ClaimInv, TypeOK, Window
<1>. QED  BY <1>2, <1>3, <1>4, <1>7, <1>8, <1>9 DEF ClaimInv

\* A window other than main goes.
LEMMA DestroysKeeps ==
    ASSUME ClaimInv, NEW w \in alive \ {main}, Destroyed(w),
           reattach' \in BOOLEAN, bg' \in Bg, faults' \subseteq FaultKinds
    PROVE  ClaimInv'
<1>1. alive \subseteq Windows /\ Nobody \notin Windows /\ w \in Windows
  BY SessionsAssumption DEF ClaimInv, TypeOK
<1>2. /\ flow' \in [Flows -> [op : Op, at : At, carries : Handoff]]
      /\ \A f \in Flows : /\ Window(f) = w => flow'[f] = Idle
                          /\ Window(f) # w => flow'[f] = flow[f]
  BY DEF Destroyed, Idle, ClaimInv, TypeOK, Op, At, Handoff
<1>3. /\ DOMAIN inbox' = Windows /\ inbox'[w] = <<>>
      /\ \A v \in Windows \ {w} : inbox'[v] = inbox[v]
  BY <1>1 DEF Destroyed, ClaimInv, InboxOK
<1>4. Idle.at = "idle"
  BY DEF Idle
<1>5. OneAtATime'
  BY <1>2, <1>4 DEF OneAtATime, ClaimInv, Window
<1>6. InboxOK'
  <2> SUFFICES ASSUME NEW v \in Windows, inbox'[v] # <<>>
               PROVE  \E g \in Flows : Window(g) = v /\ Sent(g, inbox[v])'
    BY <1>3 DEF InboxOK, Window
  <2>1. v # w /\ inbox'[v] = inbox[v]
    BY <1>3
  <2>2. PICK g \in Flows : Window(g) = v /\ Sent(g, inbox[v])
    BY <2>1 DEF ClaimInv, InboxOK
  <2>3. flow'[g] = flow[g]
    BY <1>2, <2>1, <2>2
  <2>. QED  BY <2>1, <2>2, <2>3 DEF Sent
<1>7. GoneIsGone'
  BY <1>2, <1>3, <1>4 DEF GoneIsGone, ClaimInv, Destroyed, Window
<1>8. \A v \in open' : owner' = v
  BY DEF ClaimInv, ClaimHeld, Destroyed
<1>9. ASSUME NEW g \in Flows
      PROVE  /\ flow'[g].at \in Owns => owner' = Window(g)
             /\ flow'[g].at \in Without => owner' # Window(g)
             /\ flow'[g].at \in Away => Window(g) \notin open'
  <2>1. CASE Window(g) = w
    BY <1>2, <1>4, <2>1 DEF Owns, Without, Away
  <2>2. CASE Window(g) # w
    <3>1. Window(g) \in Windows /\ flow'[g] = flow[g]
      BY <1>2, <2>2, SessionsAssumption DEF Window
    <3>2. owner' = IF owner = w THEN Nobody ELSE owner
      BY DEF Destroyed
    <3>3. flow[g].at \in Owns => owner = Window(g)
      BY DEF Owns, ClaimInv, ClaimHeld
    <3>4. flow[g].at \in Without => owner # Window(g)
      BY DEF Without, ClaimInv, ClaimHeld
    <3>5. flow[g].at \in Away => Window(g) \notin open
      BY DEF Away, ClaimInv, ClaimHeld
    <3>. QED  BY <1>1, <2>2, <3>1, <3>2, <3>3, <3>4, <3>5 DEF Destroyed
  <2>. QED  BY <2>1, <2>2
<1>10. ClaimHeld'
  BY <1>8, <1>9 DEF ClaimHeld, Owns, Without, Away, Window
<1>11. NoLeakedClaim'
  <2> SUFFICES ASSUME owner' \in alive' PROVE owner' \in open' \/ Busy(owner)'
    BY DEF NoLeakedClaim
  <2>1. owner' = owner /\ owner # w /\ owner \in alive
    BY <1>1 DEF Destroyed
  <2>2. owner \in open \/ \E g \in Flows : Window(g) = owner /\ flow[g].at # "idle"
    BY <2>1 DEF ClaimInv, NoLeakedClaim, Busy
  <2>3. owner \in open => owner \in open'
    BY <2>1 DEF Destroyed
  <2>. QED  BY <1>2, <2>1, <2>2, <2>3 DEF Busy, Window
<1>12. TypeOK'
  <2>1. \A v \in Windows : \A i \in DOMAIN inbox'[v] : Window(inbox'[v][i].flow) = v
    BY <1>6 DEF InboxOK, Sent, Claim, Release, Window
  <2>2. owner' \in Windows \cup {Nobody} /\ handoff' \in Handoff /\ row' \in BOOLEAN
    BY DEF Destroyed, ClaimInv, TypeOK
  <2>3. alive' \subseteq Windows /\ main \in alive' /\ open' \subseteq alive' /\ watching' \subseteq alive'
    BY DEF Destroyed, ClaimInv, TypeOK
  <2>. QED  BY <1>2, <2>1, <2>2, <2>3 DEF TypeOK, Window
<1>. QED  BY <1>5, <1>6, <1>7, <1>10, <1>11, <1>12 DEF ClaimInv

\* A step that leaves the windows, the claim and the operations alone.
LEMMA AsideKeeps ==
    ASSUME ClaimInv, Rest, UNCHANGED <<owner, alive, open, flow, inbox>>
    PROVE  ClaimInv'
<1>1. OneAtATime' /\ InboxOK' /\ GoneIsGone' /\ ClaimHeld' /\ NoLeakedClaim'
  BY DEF ClaimInv, OneAtATime, InboxOK, Sent, GoneIsGone, ClaimHeld, NoLeakedClaim, Busy, Window
<1>2. TypeOK'
  BY DEF ClaimInv, TypeOK, Rest, Window
<1>. QED  BY <1>1, <1>2 DEF ClaimInv

-----------------------------------------------------------------------------
(* The steps of an operation. *)

\* An operation under way is the only one of its window, which is there; the
\* inbox is empty unless it waits for its command.
LEMMA Alone ==
    ASSUME ClaimInv, NEW f \in Flows, flow[f].at # "idle"
    PROVE  /\ Window(f) \in alive /\ Window(f) \in Windows
           /\ \A g \in Flows : Window(g) = Window(f) /\ flow[g].at # "idle" => g = f
           /\ flow[f].at \notin {"claim", "release"} => inbox[Window(f)] = <<>>
           /\ flow[f] \in [op : Op, at : At, carries : Handoff]
<1>1. Window(f) \in Windows /\ Window(f) \in alive
  BY SessionsAssumption DEF ClaimInv, GoneIsGone, Window
<1>2. \A g \in Flows : Window(g) = Window(f) /\ flow[g].at # "idle" => g = f
  BY DEF ClaimInv, OneAtATime
<1>3. flow[f].at \notin {"claim", "release"} => inbox[Window(f)] = <<>>
  BY <1>1, <1>2 DEF ClaimInv, InboxOK, Sent
<1>. QED  BY <1>1, <1>2, <1>3 DEF ClaimInv, TypeOK

\* An operation begins in a window that has none under way.
LEMMA AloneAtStart ==
    ASSUME ClaimInv, NEW f \in Flows, ~Busy(Window(f)), Window(f) \in alive
    PROVE  /\ Window(f) \in Windows
           /\ \A g \in Flows : Window(g) = Window(f) /\ flow[g].at # "idle" => g = f
           /\ inbox[Window(f)] = <<>>
<1>1. Window(f) \in Windows
  BY SessionsAssumption DEF Window
<1>2. \A g \in Flows : Window(g) = Window(f) => flow[g].at = "idle"
  BY DEF Busy
<1>3. inbox[Window(f)] = <<>>
  BY <1>1, <1>2 DEF ClaimInv, InboxOK, Sent
<1>. QED  BY <1>1, <1>2, <1>3

LEMMA Goes_ ==
    ASSUME ClaimInv, NEW f \in Flows, NEW at \in At, Goes(f, at)
    PROVE  /\ flow' \in [Flows -> [op : Op, at : At, carries : Handoff]]
           /\ \A g \in Flows \ {f} : flow'[g] = flow[g]
           /\ flow'[f].at = at
  BY DEF Goes, ClaimInv, TypeOK

LEMMA Done_ ==
    ASSUME ClaimInv, NEW f \in Flows, Done(f)
    PROVE  /\ flow' \in [Flows -> [op : Op, at : At, carries : Handoff]]
           /\ \A g \in Flows \ {f} : flow'[g] = flow[g]
           /\ flow'[f].at = "idle"
  BY DEF Done, Idle, Op, At, Handoff, ClaimInv, TypeOK

\* The host takes up a command.
LEMMA CommandKeeps ==
    ASSUME ClaimInv, NEW w \in Windows, Command(w)
    PROVE  ClaimInv'
<1>1. inbox[w] # <<>>
  BY DEF Command
<1>2. PICK f \in Flows : Window(f) = w /\ Sent(f, inbox[w])
  BY <1>1 DEF ClaimInv, InboxOK
<1>3. flow[f].at # "idle"
  BY <1>2 DEF Sent
<1>4. /\ w \in alive
      /\ \A g \in Flows : Window(g) = w /\ flow[g].at # "idle" => g = f
  BY <1>2, <1>3, Alone
<1>5. /\ Nobody \notin Windows /\ open \subseteq alive /\ w \in Windows
      /\ owner \in Windows \cup {Nobody} /\ handoff \in Handoff
      /\ \A v \in open : owner = v
  BY SessionsAssumption DEF ClaimInv, TypeOK, ClaimHeld
<1>6. Rest
  <2>1. handoff' \in Handoff
    <3>1. CASE Sent(f, inbox[w]) /\ inbox[w] = <<Claim(f)>>
      BY <1>5, <3>1 DEF Command, Claim, claim, claims, Handoff
    <3>2. ASSUME NEW h \in Handoff, inbox[w] = <<Release(f, h)>> PROVE handoff' \in Handoff
      BY <1>5, <3>2 DEF Command, Release, release, claims, Handoff
    <3>. QED  BY <1>2, <3>1, <3>2 DEF Sent
  <2>. QED  BY <2>1 DEF Command, Rest, ClaimInv, TypeOK
<1>7. /\ DOMAIN inbox' = Windows /\ \A v \in Windows \ {w} : inbox'[v] = inbox[v]
      /\ inbox'[w] = <<>>
  BY <1>2, <1>5 DEF Command, Sent, ClaimInv, InboxOK
<1>8. CASE flow[f].at = "claim" /\ inbox[w] = <<Claim(f)>>
  <2>1. claim(f)
    BY <1>2, <1>8 DEF Command, Claim
  <2>2. CASE owner \in alive \ {w}
    <3>1. Goes(f, "refused") /\ owner' = owner
      BY <1>2, <2>1, <2>2 DEF claim, claims
    <3>2. /\ flow' \in [Flows -> [op : Op, at : At, carries : Handoff]]
          /\ \A g \in Flows \ {f} : flow'[g] = flow[g]
          /\ flow'[f].at = "refused"
      BY <3>1, Goes_ DEF At
    <3>3. w \notin open
      BY <1>5, <2>2
    <3>4. Moves(f)
      BY <1>2, <1>4, <1>5, <1>7, <2>2, <3>1, <3>2, <3>3
      DEF Moves, Command, Owns, Without, Away
    <3>. QED  BY <1>6, <3>4, MovesKeeps
  <2>3. CASE owner \notin alive \ {w}
    <3>1. /\ owner' = w /\ handoff' = "none"
          /\ flow' = [flow EXCEPT ![f].at = "claimed", ![f].carries = handoff]
      BY <1>2, <2>1, <2>3 DEF claim
    <3>2. /\ flow' \in [Flows -> [op : Op, at : At, carries : Handoff]]
          /\ \A g \in Flows \ {f} : flow'[g] = flow[g]
          /\ flow'[f].at = "claimed"
      <4> DEFINE new == [flow[f] EXCEPT !.at = "claimed", !.carries = handoff]
      <4>1. flow \in [Flows -> [op : Op, at : At, carries : Handoff]]
        BY DEF ClaimInv, TypeOK
      <4>2. new \in [op : Op, at : At, carries : Handoff] /\ new.at = "claimed"
        BY <1>5, <4>1 DEF At
      <4>3. flow' = [flow EXCEPT ![f] = new]
        BY <3>1, <4>1
      <4>. HIDE DEF new
      <4>. QED  BY <4>1, <4>2, <4>3
    <3>3. Moves(f)
      BY <1>2, <1>4, <1>5, <1>7, <2>3, <3>1, <3>2 DEF Moves, Command, Owns, Without, Away
    <3>. QED  BY <1>6, <3>3, MovesKeeps
  <2>. QED  BY <2>2, <2>3
<1>9. ASSUME NEW h \in Handoff, flow[f].at = "release", inbox[w] = <<Release(f, h)>>
      PROVE  ClaimInv'
  <2>1. release(f, h)
    BY <1>2, <1>9 DEF Command, Release
  <2>2. /\ flow' \in [Flows -> [op : Op, at : At, carries : Handoff]]
        /\ \A g \in Flows \ {f} : flow'[g] = flow[g]
        /\ flow'[f].at = "released"
    BY <2>1, Goes_ DEF release, At
  <2>3. w \notin open
    BY <1>2, <1>9 DEF ClaimInv, ClaimHeld
  <2>4. owner' # w /\ owner' \in {owner, Nobody} /\ (owner' # owner => owner = w)
    BY <1>2, <1>5, <2>1 DEF release, claims
  <2>5. Moves(f)
    BY <1>2, <1>4, <1>5, <1>7, <2>2, <2>3, <2>4 DEF Moves, Command, Owns, Without, Away
  <2>. QED  BY <1>6, <2>5, MovesKeeps
<1>. QED  BY <1>2, <1>8, <1>9 DEF Sent

\* What the user starts.
LEMMA UserKeeps ==
    ASSUME ClaimInv, ~Overlap, NEW f \in Flows, User(f)
    PROVE  ClaimInv'
<1>1. /\ main \in alive /\ open \subseteq alive /\ alive \subseteq Windows /\ Nobody \notin Windows
      /\ flow \in [Flows -> [op : Op, at : At, carries : Handoff]]
      /\ \A v \in open : owner = v
  BY SessionsAssumption DEF ClaimInv, TypeOK, ClaimHeld
<1>2. Window(f) \in alive /\ ~Busy(Window(f))
  BY <1>1 DEF User, Open, openSession, closeSession, handOffSession, deleteSession, Patient
<1>3. /\ Window(f) \in Windows
      /\ \A g \in Flows : Window(g) = Window(f) /\ flow[g].at # "idle" => g = f
      /\ inbox[Window(f)] = <<>>
  BY <1>2, AloneAtStart
<1>4. \A op \in Op, at \in At, carries \in Handoff : Begin(f, op, at, carries) =>
        /\ flow' \in [Flows -> [op : Op, at : At, carries : Handoff]]
        /\ \A g \in Flows \ {f} : flow'[g] = flow[g]
        /\ flow'[f].at = at
  BY <1>1 DEF Begin
<1>5. \A m : Send(Window(f), m) =>
        /\ DOMAIN inbox' = Windows /\ \A v \in Windows \ {Window(f)} : inbox'[v] = inbox[v]
        /\ inbox'[Window(f)] = <<m>>
  BY <1>3 DEF Send, ClaimInv, InboxOK
<1>6. CASE Open(f) \/ deleteSession(f)
  <2>1. /\ \E op \in Op : Begin(f, op, "claim", "none")
        /\ Send(Window(f), Claim(f))
        /\ UNCHANGED <<owner, handoff, row, alive, open, watching, reattach, bg, faults>>
    BY <1>6 DEF Open, openSession, deleteSession, claims, Op
  <2>2. /\ flow' \in [Flows -> [op : Op, at : At, carries : Handoff]]
        /\ \A g \in Flows \ {f} : flow'[g] = flow[g]
        /\ flow'[f].at = "claim"
    BY <1>4, <2>1 DEF At, Handoff
  <2>3. Moves(f)
    BY <1>1, <1>2, <1>3, <1>5, <2>1, <2>2 DEF Moves, Owns, Without, Away
  <2>4. Rest
    BY <2>1 DEF Rest, ClaimInv, TypeOK
  <2>. QED  BY <2>3, <2>4, MovesKeeps
<1>7. CASE closeSession(f) \/ handOffSession(f)
  <2>1. /\ \E op \in Op, carries \in Handoff : Begin(f, op, "dispose", carries)
        /\ Shut(f) /\ Window(f) \in open
        /\ UNCHANGED <<owner, handoff, row, alive, inbox, reattach, faults>>
    BY <1>7 DEF closeSession, handOffSession, host, claims, Op, Handoff
  <2>2. /\ flow' \in [Flows -> [op : Op, at : At, carries : Handoff]]
        /\ \A g \in Flows \ {f} : flow'[g] = flow[g]
        /\ flow'[f].at = "dispose"
    BY <1>4, <2>1 DEF At
  <2>3. open' = open \ {Window(f)} /\ watching' \subseteq watching
    BY <2>1 DEF Shut
  <2>4. Moves(f)
    BY <1>1, <1>2, <1>3, <2>1, <2>2, <2>3 DEF Moves, Owns, Without, Away, ClaimInv, InboxOK
  <2>5. bg' \in Bg
    BY <2>1 DEF Shut, Bg, ClaimInv, TypeOK
  <2>6. Rest
    BY <2>1, <2>3, <2>5 DEF Rest, ClaimInv, TypeOK
  <2>. QED  BY <2>4, <2>6, MovesKeeps
<1>. QED  BY <1>6, <1>7 DEF User

\* The main window opens what the detached one gave back.
LEMMA ReattachKeeps ==
    ASSUME ClaimInv, ~Overlap, NEW f \in Flows, Reattach(f)
    PROVE  ClaimInv'
<1>1. CASE openSession(f)
  <2>1. Window(f) = main /\ main \in alive /\ ~Busy(main)
    BY <1>1 DEF Reattach, openSession, Patient, ClaimInv, TypeOK
  <2>2. /\ Window(f) \in Windows /\ Nobody \notin Windows /\ open \subseteq alive
        /\ \A g \in Flows : Window(g) = Window(f) /\ flow[g].at # "idle" => g = f
        /\ inbox[Window(f)] = <<>>
        /\ \A v \in open : owner = v
    BY <2>1, AloneAtStart, SessionsAssumption DEF ClaimInv, ClaimHeld, TypeOK
  <2>3. /\ flow' \in [Flows -> [op : Op, at : At, carries : Handoff]]
        /\ \A g \in Flows \ {f} : flow'[g] = flow[g]
        /\ flow'[f].at = "claim"
    BY <1>1 DEF openSession, Begin, ClaimInv, TypeOK, Op, At, Handoff
  <2>4. /\ DOMAIN inbox' = Windows
        /\ \A v \in Windows \ {Window(f)} : inbox'[v] = inbox[v]
        /\ inbox'[Window(f)] = <<Claim(f)>>
    BY <1>1, <2>2 DEF openSession, Send, ClaimInv, InboxOK
  <2>5. Moves(f)
    BY <1>1, <2>1, <2>2, <2>3, <2>4 DEF openSession, claims, Moves, Owns, Without, Away
  <2>6. Rest
    BY <1>1 DEF Reattach, openSession, claims, Rest, ClaimInv, TypeOK
  <2>. QED  BY <2>5, <2>6, MovesKeeps
<1>2. CASE main \in open /\ UNCHANGED <<host, open, watching, flow, bg, faults>>
  <2>1. Rest
    BY <1>2 DEF Reattach, Rest, host, claims, ClaimInv, TypeOK
  <2>. QED  BY <1>2, <2>1, AsideKeeps DEF host, claims
<1>. QED  BY <1>1, <1>2 DEF Reattach

\* An operation goes on with nothing in the inbox: it sends nothing, or the
\* command it then waits for; the claim and the windows stay as they are.
LEMMA AdvanceKeeps ==
    ASSUME ClaimInv, NEW f \in Flows, flow[f].at \notin {"idle", "claim", "release"},
           flow' \in [Flows -> [op : Op, at : At, carries : Handoff]],
           \A g \in Flows \ {f} : flow'[g] = flow[g],
           \/ flow'[f].at \notin {"claim", "release"} /\ inbox' = inbox
           \/ flow'[f].at = "claim" /\ Send(Window(f), Claim(f))
           \/ flow'[f].at = "release" /\ \E h \in Handoff : Send(Window(f), Release(f, h)),
           UNCHANGED <<owner, alive>>,
           open' \subseteq open \cup {Window(f)}, open \ {Window(f)} \subseteq open',
           Window(f) \in open' => owner = Window(f) /\ flow'[f].at \notin Away,
           flow'[f].at \in Owns => owner = Window(f),
           flow'[f].at \in Without => owner # Window(f),
           flow'[f].at = "idle" /\ owner = Window(f) => Window(f) \in open',
           Rest
    PROVE  ClaimInv'
<1>1. /\ Window(f) \in alive /\ Window(f) \in Windows
      /\ \A g \in Flows : Window(g) = Window(f) /\ flow[g].at # "idle" => g = f
      /\ inbox[Window(f)] = <<>>
  BY Alone
<1>2. /\ DOMAIN inbox' = Windows
      /\ \A v \in Windows \ {Window(f)} : inbox'[v] = inbox[v]
      /\ \/ inbox'[Window(f)] = <<>>
         \/ flow'[f].at = "claim" /\ inbox'[Window(f)] = <<Claim(f)>>
         \/ flow'[f].at = "release" /\ \E h \in Handoff : inbox'[Window(f)] = <<Release(f, h)>>
  BY <1>1 DEF ClaimInv, InboxOK, Send
<1>3. open' \subseteq alive /\ \A v \in Windows \ {Window(f)} : v \in open' <=> v \in open
  BY <1>1 DEF ClaimInv, TypeOK
<1>4. Moves(f)
  BY <1>1, <1>2, <1>3 DEF Moves
<1>. QED  BY <1>4, MovesKeeps

\* What holds of the operation's window before it goes on.
LEMMA Before ==
    ASSUME ClaimInv, NEW f \in Flows
    PROVE  /\ \A v \in open : owner = v
           /\ flow[f].at \in Owns => owner = Window(f)
           /\ flow[f].at \in Without => owner # Window(f)
           /\ flow[f].at \in Away => Window(f) \notin open
           /\ flow[f] \in [op : Op, at : At, carries : Handoff]
           /\ open \subseteq alive /\ watching \subseteq alive
  BY DEF ClaimInv, ClaimHeld, TypeOK, Owns, Without, Away

\* A window that goes takes its operation with it.
LEMMA ClosesKeeps ==
    ASSUME ClaimInv, NEW f \in Flows, flow[f].at # "idle", Window(f) # main,
           Destroyed(Window(f)), reattach' \in BOOLEAN, UNCHANGED <<bg, faults>>
    PROVE  ClaimInv'
<1>1. Window(f) \in alive \ {main}
  BY Alone
<1>. QED  BY <1>1, DestroysKeeps DEF ClaimInv, TypeOK

LEMMA RefusedKeeps == ASSUME ClaimInv, NEW f \in Flows, Refused(f) PROVE ClaimInv'
<1>1. CASE Done(f) /\ UNCHANGED <<host, open, watching>>
  <2>1. flow'[f].at = "idle"
    BY <1>1, Done_
  <2>2. Rest
    BY <1>1 DEF Refused, Rest, host, claims, ClaimInv, TypeOK
  <2>. QED  BY <1>1, <2>1, <2>2, Done_, Before, AdvanceKeeps
            DEF Refused, host, claims, Owns, Without, Away
<1>2. CASE Window(f) # main /\ Destroyed(Window(f))
  BY <1>2, ClosesKeeps DEF Refused, ClaimInv, TypeOK
<1>. QED  BY <1>1, <1>2 DEF Refused

LEMMA ClaimedKeeps == ASSUME ClaimInv, NEW f \in Flows, Claimed(f) PROVE ClaimInv'
<1>0. flow[f].at = "claimed" /\ owner = Window(f)
  BY Before DEF Claimed, Owns
<1>1. CASE flow[f].op = "open" /\ UNCHANGED <<open, watching, bg>>
           /\ IF Window(f) \in open THEN Done(f) ELSE Goes(f, "load")
  <2>1. Rest
    BY <1>1 DEF Claimed, Rest, host, claims, ClaimInv, TypeOK
  <2>2. CASE Window(f) \in open
    BY <1>0, <1>1, <2>1, <2>2, Done_, AdvanceKeeps DEF Claimed, host, claims, Owns, Without, Away
  <2>3. CASE Window(f) \notin open
    BY <1>0, <1>1, <2>1, <2>3, Goes_, AdvanceKeeps
    DEF Claimed, host, claims, Owns, Without, Away, At
  <2>. QED  BY <2>2, <2>3
<1>2. CASE /\ flow' = [flow EXCEPT ![f].carries = "none",
                                   ![f].at = IF Window(f) \in open THEN "dispose" ELSE "purge"]
           /\ Shut(f)
  <2> DEFINE new == [flow[f] EXCEPT !.carries = "none",
                                    !.at = IF Window(f) \in open THEN "dispose" ELSE "purge"]
  <2>1. flow \in [Flows -> [op : Op, at : At, carries : Handoff]]
    BY DEF ClaimInv, TypeOK
  <2>2. new \in [op : Op, at : At, carries : Handoff] /\ new.at \in {"dispose", "purge"}
    BY <2>1 DEF At, Handoff
  <2>3. flow' = [flow EXCEPT ![f] = new]
    BY <1>2, <2>1
  <2>. HIDE DEF new
  <2>4. /\ flow' \in [Flows -> [op : Op, at : At, carries : Handoff]]
        /\ \A g \in Flows \ {f} : flow'[g] = flow[g]
        /\ flow'[f].at \in {"dispose", "purge"}
    BY <2>1, <2>2, <2>3
  <2>5. open' = open \ {Window(f)} /\ watching' \subseteq watching
    BY <1>2 DEF Shut
  <2>6. Rest
    BY <1>2, <2>5 DEF Claimed, Shut, Bg, Rest, host, claims, ClaimInv, TypeOK
  <2>. QED  BY <1>0, <2>4, <2>5, <2>6, AdvanceKeeps DEF Claimed, host, claims, Owns, Without, Away
<1>. QED  BY <1>1, <1>2 DEF Claimed

LEMMA LoadKeeps == ASSUME ClaimInv, NEW f \in Flows, loadCodeSession(f) PROVE ClaimInv'
<1>1. flow[f].at = "load" /\ owner = Window(f) /\ Window(f) \notin open
  BY Before DEF loadCodeSession, Owns, Away
<1>2. Goes(f, "loaded") \/ Goes(f, "failed")
  BY DEF loadCodeSession
<1>3. /\ flow' \in [Flows -> [op : Op, at : At, carries : Handoff]]
      /\ \A g \in Flows \ {f} : flow'[g] = flow[g]
      /\ flow'[f].at \in {"loaded", "failed"}
  BY <1>2, Goes_ DEF At
<1>4. Rest
  BY DEF loadCodeSession, Fails, Rest, host, claims, ClaimInv, TypeOK
<1>. QED  BY <1>1, <1>3, <1>4, AdvanceKeeps DEF loadCodeSession, host, claims, Owns, Without, Away

LEMMA AdoptKeeps == ASSUME ClaimInv, NEW f \in Flows, Adopt(f) PROVE ClaimInv'
<1>1. flow[f].at = "loaded" /\ owner = Window(f) /\ Window(f) \notin open
  BY Before DEF Adopt, Owns, Away
<1>2. open' = open \cup {Window(f)} /\ watching' \subseteq watching \cup {Window(f)}
  BY <1>1 DEF Adopt
<1>3. Rest
  BY <1>1, <1>2, Alone DEF Adopt, Rest, host, claims, ClaimInv, TypeOK
<1>. QED  BY <1>1, <1>2, <1>3, Done_, AdvanceKeeps DEF Adopt, host, claims, Owns, Without, Away

\* The command an operation sends is the only one of its window.
LEMMA SendsRelease ==
    ASSUME ClaimInv, NEW f \in Flows, flow[f].at \in Away \ {"release"}, Goes(f, "release"),
           NEW h \in Handoff, Send(Window(f), Release(f, h)),
           UNCHANGED <<owner, alive, open>>, Rest
    PROVE  ClaimInv'
<1>1. Window(f) \notin open /\ flow[f].at \notin {"idle", "claim", "release"}
  BY Before DEF Away
<1>. QED  BY <1>1, Goes_, AdvanceKeeps DEF Owns, Without, At

LEMMA GiveBackKeeps == ASSUME ClaimInv, NEW f \in Flows, GiveBack(f) PROVE ClaimInv'
<1>1. Rest
  BY DEF GiveBack, Rest, host, claims, ClaimInv, TypeOK
<1>2. flow[f].carries \in Handoff
  BY Before
<1>. QED  BY <1>1, <1>2, SendsRelease DEF GiveBack, claims, Away

LEMMA DisposedKeeps == ASSUME ClaimInv, NEW f \in Flows, Disposed(f) PROVE ClaimInv'
<1>1. flow[f].at = "dispose" /\ owner = Window(f) /\ Window(f) \notin open
      /\ flow[f].carries \in Handoff
  BY Before DEF Disposed, Owns, Away
<1>2. Rest
  BY DEF Disposed, Rest, host, claims, ClaimInv, TypeOK
<1>3. CASE Goes(f, "release") /\ Send(Window(f), Release(f, flow[f].carries))
  BY <1>1, <1>2, <1>3, SendsRelease DEF Disposed, claims, Away
<1>4. CASE Goes(f, "stop") /\ UNCHANGED inbox
  BY <1>1, <1>2, <1>4, Goes_, AdvanceKeeps DEF Disposed, claims, Owns, Without, Away, At
<1>. QED  BY <1>3, <1>4 DEF Disposed

LEMMA StopOwnerKeeps == ASSUME ClaimInv, NEW f \in Flows, StopOwner(f) PROVE ClaimInv'
<1>1. Rest
  BY DEF StopOwner, stop_owner, Bg, Rest, host, claims, ClaimInv, TypeOK
<1>. QED  BY <1>1, SendsRelease DEF StopOwner, claims, Away, Handoff

LEMMA ReleasedKeeps == ASSUME ClaimInv, NEW f \in Flows, Released(f) PROVE ClaimInv'
<1>1. flow[f].at = "released" /\ owner # Window(f) /\ Window(f) \notin open
  BY Before DEF Released, Without, Away
<1>2. CASE Window(f) # main /\ Destroyed(Window(f))
  BY <1>1, <1>2, ClosesKeeps DEF Released, ClaimInv, TypeOK
<1>3. CASE /\ Goes(f, "create") \/ Goes(f, "purge") \/ Done(f)
           /\ UNCHANGED <<host, open, watching, reattach>>
  <2>1. /\ flow' \in [Flows -> [op : Op, at : At, carries : Handoff]]
        /\ \A g \in Flows \ {f} : flow'[g] = flow[g]
        /\ flow'[f].at \in {"create", "purge", "idle"}
    BY <1>3, Goes_, Done_ DEF At
  <2>2. Rest
    BY <1>3 DEF Released, Rest, host, claims, ClaimInv, TypeOK
  <2>. QED  BY <1>1, <1>3, <2>1, <2>2, AdvanceKeeps DEF host, claims, Owns, Without, Away
<1>. QED  BY <1>2, <1>3 DEF Released

LEMMA PurgeKeeps == ASSUME ClaimInv, NEW f \in Flows, Purge(f) PROVE ClaimInv'
<1>1. flow[f].at = "purge" /\ Window(f) \notin open
  BY Before DEF Purge, Away
<1>2. Rest
  BY DEF Purge, stop_owner, Bg, Rest, host, claims, ClaimInv, TypeOK
<1>. QED  BY <1>1, <1>2, Goes_, AdvanceKeeps DEF Purge, host, claims, Owns, Without, Away, At

LEMMA DeleteKeeps == ASSUME ClaimInv, NEW f \in Flows, deleteCodeSession(f) PROVE ClaimInv'
<1>1. flow[f].at = "deleting" /\ Window(f) \notin open
  BY Before DEF deleteCodeSession, Away
<1>2. /\ flow' \in [Flows -> [op : Op, at : At, carries : Handoff]]
      /\ \A g \in Flows \ {f} : flow'[g] = flow[g]
      /\ flow'[f].at = "release"
  <2> DEFINE new == [flow[f] EXCEPT !.op = "erase", !.at = "release"]
  <2>1. flow \in [Flows -> [op : Op, at : At, carries : Handoff]]
    BY DEF ClaimInv, TypeOK
  <2>2. new \in [op : Op, at : At, carries : Handoff] /\ new.at = "release"
    BY <2>1 DEF Op, At
  <2>3. flow' = [flow EXCEPT ![f] = new]
    BY <2>1 DEF deleteCodeSession
  <2>. HIDE DEF new
  <2>. QED  BY <2>1, <2>2, <2>3
<1>3. Rest
  BY DEF deleteCodeSession, Fails, Rest, claims, ClaimInv, TypeOK
<1>. QED  BY <1>1, <1>2, <1>3, AdvanceKeeps
          DEF deleteCodeSession, claims, Owns, Without, Away, Handoff

\* The window made has nothing under way yet, and sends its claim.
LEMMA NewWindowKeeps ==
    ASSUME ClaimInv, NEW f \in Flows, NEW g \in Flows,
           flow[f].at = "create", Window(g) \notin alive,
           alive' = alive \cup {Window(g)},
           flow' = [flow EXCEPT ![f] = Idle, ![g] = [Idle EXCEPT !.at = "claim"]],
           Send(Window(g), Claim(g)),
           UNCHANGED <<claims, row, open, watching, reattach, bg, faults>>
    PROVE  ClaimInv'
<1>1. /\ Window(g) \in Windows /\ Window(f) \in alive /\ Window(f) # Window(g) /\ f # g
      /\ \A h \in Flows : Window(h) = Window(f) /\ flow[h].at # "idle" => h = f
      /\ owner # Window(f) /\ Window(f) \notin open
      /\ Window(g) \notin open /\ open \subseteq alive /\ watching \subseteq alive
  BY Alone, Before, SessionsAssumption DEF Without, Away, Window
<1>2. /\ inbox[Window(g)] = <<>>
      /\ \A h \in Flows : Window(h) = Window(g) => flow[h].at = "idle"
  BY <1>1 DEF ClaimInv, GoneIsGone
<1>3. /\ flow' \in [Flows -> [op : Op, at : At, carries : Handoff]]
      /\ flow'[f].at = "idle" /\ flow'[g].at = "claim"
      /\ \A h \in Flows \ {f, g} : flow'[h] = flow[h]
  BY <1>1 DEF Idle, Op, At, Handoff, ClaimInv, TypeOK
<1>4. /\ DOMAIN inbox' = Windows
      /\ inbox'[Window(g)] = <<Claim(g)>>
      /\ \A v \in Windows \ {Window(g)} : inbox'[v] = inbox[v]
  BY <1>1, <1>2 DEF Send, ClaimInv, InboxOK
<1>5. OneAtATime'
  BY <1>1, <1>2, <1>3 DEF OneAtATime, ClaimInv, Window
<1>6. InboxOK'
  <2> SUFFICES ASSUME NEW v \in Windows, inbox'[v] # <<>>
               PROVE  \E h \in Flows : Window(h) = v /\ Sent(h, inbox[v])'
    BY <1>4 DEF InboxOK, Window
  <2>1. CASE v = Window(g)
    BY <1>3, <1>4, <2>1 DEF Sent
  <2>2. CASE v # Window(g)
    <3>1. inbox'[v] = inbox[v]
      BY <1>4, <2>2
    <3>2. PICK h \in Flows : Window(h) = v /\ Sent(h, inbox[v])
      BY <3>1 DEF ClaimInv, InboxOK
    <3>3. h # f /\ h # g /\ flow'[h] = flow[h]
      BY <1>3, <2>2, <3>2 DEF Sent
    <3>. QED  BY <3>1, <3>2, <3>3 DEF Sent
  <2>. QED  BY <2>1, <2>2
<1>7. GoneIsGone'
  BY <1>1, <1>3, <1>4 DEF GoneIsGone, ClaimInv, Window
<1>8. ASSUME NEW h \in Flows
      PROVE  /\ flow'[h].at \in Owns => owner = Window(h)
             /\ flow'[h].at \in Without => owner # Window(h)
             /\ flow'[h].at \in Away => Window(h) \notin open
  <2>1. CASE h \in {f, g}
    BY <1>3, <2>1 DEF Owns, Without, Away
  <2>2. CASE h \notin {f, g}
    <3>1. flow'[h] = flow[h]
      BY <1>3, <2>2
    <3>. QED  BY <3>1, Before
  <2>. QED  BY <2>1, <2>2
<1>9. ClaimHeld'
  BY <1>8, Before DEF ClaimHeld, Owns, Without, Away, claims, Window
<1>10. NoLeakedClaim'
  <2> SUFFICES ASSUME owner \in alive'
               PROVE  owner \in open \/ \E h \in Flows : Window(h) = owner /\ flow'[h].at # "idle"
    BY DEF NoLeakedClaim, Busy, claims, Window
  <2>1. CASE owner = Window(g)
    BY <1>3, <2>1
  <2>2. CASE owner # Window(g)
    <3>1. owner \in open \/ \E h \in Flows : Window(h) = owner /\ flow[h].at # "idle"
      BY <2>2 DEF ClaimInv, NoLeakedClaim, Busy
    <3>. QED  BY <1>1, <1>2, <1>3, <2>2, <3>1
  <2>. QED  BY <2>1, <2>2
<1>11. TypeOK'
  <2>1. \A v \in Windows : \A i \in DOMAIN inbox'[v] : Window(inbox'[v][i].flow) = v
    BY <1>6 DEF InboxOK, Sent, Claim, Release, Window
  <2>. QED  BY <1>1, <1>3, <2>1 DEF ClaimInv, TypeOK, claims, Window
<1>. QED  BY <1>5, <1>6, <1>7, <1>9, <1>10, <1>11 DEF ClaimInv

LEMMA CreateKeeps == ASSUME ClaimInv, NEW f \in Flows, Create(f) PROVE ClaimInv'
<1>1. flow[f].at = "create" /\ owner # Window(f) /\ Window(f) \notin open
  BY Before DEF Create, Without, Away
<1>2. CASE flow' = [flow EXCEPT ![f] = [Idle EXCEPT !.at = "claim"]]
           /\ Send(Window(f), Claim(f)) /\ UNCHANGED alive /\ faults' \subseteq FaultKinds
  <2>1. /\ flow' \in [Flows -> [op : Op, at : At, carries : Handoff]]
        /\ \A g \in Flows \ {f} : flow'[g] = flow[g]
        /\ flow'[f].at = "claim"
    BY <1>2 DEF Idle, Op, At, Handoff, ClaimInv, TypeOK
  <2>2. Rest
    BY <1>2 DEF Create, Rest, claims, ClaimInv, TypeOK
  <2>. QED  BY <1>1, <1>2, <2>1, <2>2, AdvanceKeeps DEF Create, claims, Owns, Without, Away
<1>3. CASE \E g \in Flows : /\ Window(g) \notin alive
                            /\ alive' = alive \cup {Window(g)}
                            /\ flow' = [flow EXCEPT ![f] = Idle, ![g] = [Idle EXCEPT !.at = "claim"]]
                            /\ Send(Window(g), Claim(g))
                            /\ UNCHANGED faults
  BY <1>1, <1>3, NewWindowKeeps DEF Create
<1>. QED  BY <1>1, <1>2, <1>3 DEF Create, Fails, ClaimInv, TypeOK

-----------------------------------------------------------------------------
LEMMA BackgroundKeeps == ASSUME ClaimInv, Background PROVE ClaimInv'
<1>1. bg \in Bg /\ watching \subseteq alive /\ open \subseteq alive /\ alive \subseteq Windows
  BY DEF ClaimInv, TypeOK
<1>2. bg' \in Bg
  <2>1. ASSUME NEW w \in Windows, code_bg_start(w) PROVE bg' \in Bg
    BY <2>1 DEF code_bg_start, Bg
  <2>2. CASE BgStarted \/ BgReturns \/ StopTurn
    BY <1>1, <2>2 DEF BgStarted, BgReturns, StopTurn, Bg
  <2>3. CASE StopCommand
    BY <1>1, <2>3 DEF StopCommand, stop_owner, Bg
  <2>. QED  BY <2>1, <2>2, <2>3 DEF Background
<1>3. UNCHANGED <<host, open, flow, reattach, faults>> /\ watching' \subseteq alive
  BY <1>1 DEF Background, code_bg_start, BgStarted, BgReturns, StopTurn, StopCommand
<1>4. Rest
  BY <1>2, <1>3 DEF Rest, host, claims, ClaimInv, TypeOK
<1>. QED  BY <1>3, <1>4, AsideKeeps DEF host, claims

LEMMA InitClaims == Init => ClaimInv
<1> SUFFICES ASSUME Init PROVE ClaimInv
  OBVIOUS
<1>1. TypeOK
  <2>1. \A w \in Windows : DOMAIN inbox[w] = {}
    BY DEF Init
  <2>2. flow \in [Flows -> [op : Op, at : At, carries : Handoff]] /\ bg \in Bg
    BY SessionsAssumption DEF Init, Idle, Op, At, Handoff, Bg
  <2>. QED  BY <2>1, <2>2, SessionsAssumption DEF Init, TypeOK, Handoff
<1>2. OneAtATime /\ InboxOK /\ GoneIsGone /\ ClaimHeld /\ NoLeakedClaim
  BY SessionsAssumption
  DEF Init, Idle, OneAtATime, InboxOK, GoneIsGone, ClaimHeld, NoLeakedClaim
<1>. QED  BY <1>1, <1>2 DEF ClaimInv

LEMMA StepKeeps == ASSUME ClaimInv, ~Overlap, [Next]_vars PROVE ClaimInv'
<1>1. CASE UNCHANGED vars
  BY <1>1, AsideKeeps DEF vars, host, claims, Rest, ClaimInv, TypeOK
<1>2. ASSUME NEW f \in Flows, User(f) \/ Reattach(f) PROVE ClaimInv'
  BY <1>2, UserKeeps, ReattachKeeps
<1>3. ASSUME NEW f \in Flows, Continue(f) PROVE ClaimInv'
  BY <1>3, RefusedKeeps, ClaimedKeeps, LoadKeeps, AdoptKeeps, GiveBackKeeps, DisposedKeeps,
     StopOwnerKeeps, ReleasedKeeps, CreateKeeps, PurgeKeeps, DeleteKeeps DEF Continue
<1>4. ASSUME NEW w \in Windows, Command(w) PROVE ClaimInv'
  BY <1>4, CommandKeeps
<1>5. ASSUME NEW w \in Windows, CloseEmpty(w) \/ Crash(w) PROVE ClaimInv'
  BY <1>5, DestroysKeeps DEF CloseEmpty, Crash, Fails, ClaimInv, TypeOK
<1>. QED  BY <1>1, <1>2, <1>3, <1>4, <1>5, BackgroundKeeps DEF Next

-----------------------------------------------------------------------------
(* Theorems.  When each window does one thing at a time -- the instances of   *)
(* Overlap = TRUE show what becomes of SessionInOneWindow when it does not -- *)

LEMMA ClaimsHold == ASSUME ~Overlap PROVE Spec => []ClaimInv
  BY InitClaims, StepKeeps, PTL DEF Spec

\* ... the state keeps its type.
THEOREM SessionTypes == ASSUME ~Overlap PROVE Spec => []TypeOK
  BY ClaimsHold, PTL DEF ClaimInv

\* ... a session is open in at most one window, and that is the one the host
\* says owns it (claims.rs, code.svelte.ts).
THEOREM OpenInOneWindow == ASSUME ~Overlap PROVE Spec => []SessionInOneWindow
<1>1. ClaimInv => SessionInOneWindow
  <2> SUFFICES ASSUME ClaimInv PROVE Cardinality(open) <= 1
    BY DEF SessionInOneWindow
  <2>1. open \subseteq {owner}
    BY DEF ClaimInv, ClaimHeld
  <2>2. CASE open = {}
    BY <2>2, FS_EmptySet
  <2>3. CASE open = {owner}
    BY <2>3, FS_Singleton
  <2>. QED  BY <2>1, <2>2, <2>3
<1>. QED  BY <1>1, ClaimsHold, PTL

\* ... and no window keeps a claim it neither has open nor is dealing with, so
\* that another can open the session (claims.rs, code.svelte.ts).
THEOREM ClaimsAreReleased == ASSUME ~Overlap PROVE Spec => []NoLeakedClaim
  BY ClaimsHold, PTL DEF ClaimInv

-----------------------------------------------------------------------------
(* The background command and its watch. *)

\* What is handed over waits for the next owner or is on its way: a claim takes
\* it, and the release of the window that holds it puts it back.
FlowHanded(f) ==
    /\ flow[f].op = "open" /\ flow[f].at \in {"claim", "claimed"} => Window(f) \notin open
    /\ flow[f].carries # "none" =>
         \/ flow[f].at = "claimed"
         \/ flow[f].op = "open" /\ flow[f].at \in {"load", "loaded", "failed", "release", "released"}
         \/ flow[f].op = "handoff" /\ flow[f].at \in {"dispose", "release", "released", "create"}
    /\ flow[f].carries # "none" /\ flow[f].at = "release" => owner = Window(f)
    /\ flow[f].at = "release" =>
         \A h \in Handoff : inbox[Window(f)] = <<Release(f, h)>> => h = flow[f].carries

Handed ==
    /\ handoff # "none" => owner = Nobody
    /\ \A f \in Flows : FlowHanded(f)

\* An operation that is to stop the command, one that holds its watch.
Closing(f) == flow[f].op \in {"close", "delete"} /\ flow[f].at \in {"dispose", "stop"}
Ending(f) == Closing(f) \/ (flow[f].op = "delete" /\ flow[f].at = "purge")
Carries(f) ==
    /\ flow[f].carries = "watches"
    /\ flow[f].at \in {"claimed", "load", "loaded", "failed", "dispose", "release"}

\* Who sees to the command.
Custody ==
    "crash" \notin faults =>
        /\ bg.at = "asked" => bg.from \in open
        /\ bg.at = "running" =>
             bg.from \in open \/ \E f \in Flows : Window(f) = bg.from /\ Closing(f)
        /\ bg.at = "known" =>
             \/ open \cap watching # {}
             \/ handoff = "watches"
             \/ \E f \in Flows : Carries(f) \/ Ending(f)

\* One operation moves on.
LEMMA HandedMoves ==
    ASSUME ClaimInv, Handed, NEW f \in Flows,
           \A g \in Flows : Window(g) = Window(f) /\ flow[g].at # "idle" => g = f,
           \A g \in Flows \ {f} : flow'[g] = flow[g],
           \A v \in Windows \ {Window(f)} : inbox'[v] = inbox[v] /\ (v \in open' => v \in open),
           owner' # owner => owner \notin alive \ {Window(f)},
           handoff' # "none" => owner' = Nobody,
           FlowHanded(f)'
    PROVE  Handed'
<1>1. ASSUME NEW g \in Flows, g # f
      PROVE  FlowHanded(g)'
  <2>1. flow'[g] = flow[g] /\ FlowHanded(g)
    BY <1>1 DEF Handed
  <2>2. CASE flow[g].at = "idle"
    BY <2>1, <2>2 DEF FlowHanded
  <2>3. CASE flow[g].at # "idle"
    <3>1. Window(g) # Window(f) /\ Window(g) \in Windows /\ Window(g) \in alive
      BY <1>1, <2>3, Alone
    <3>. QED  BY <2>1, <3>1 DEF FlowHanded, Window, Release
  <2>. QED  BY <2>2, <2>3
<1>. QED  BY <1>1 DEF Handed

\* A window goes.
LEMMA HandedDestroys ==
    ASSUME ClaimInv, Handed, NEW w \in alive, Destroyed(w)
    PROVE  Handed'
<1>1. \A g \in Flows : flow'[g] = IF Window(g) = w THEN Idle ELSE flow[g]
  BY DEF Destroyed
<1>2. /\ owner' = IF owner = w THEN Nobody ELSE owner
      /\ open' = open \ {w} /\ handoff' = handoff
      /\ inbox' = [inbox EXCEPT ![w] = <<>>]
  BY DEF Destroyed
<1>3. ASSUME NEW g \in Flows
      PROVE  FlowHanded(g)'
  <2>1. CASE Window(g) = w
    BY <1>1, <2>1 DEF FlowHanded, Idle
  <2>2. CASE Window(g) # w
    <3>1. flow'[g] = flow[g] /\ inbox'[Window(g)] = inbox[Window(g)] /\ FlowHanded(g)
      BY <1>1, <1>2, <2>2, SessionsAssumption DEF Window, Handed, ClaimInv, InboxOK
    <3>. QED  BY <1>2, <2>2, <3>1 DEF FlowHanded, Window, Release
  <2>. QED  BY <2>1, <2>2
<1>4. owner # w => owner' = owner
  BY <1>2
<1>5. handoff' # "none" => owner' = Nobody
  BY <1>2 DEF Handed
<1>. QED  BY <1>3, <1>5 DEF Handed

\* Steps that leave the claim, the tabs and the operations alone.
LEMMA HandedAside ==
    ASSUME Handed, UNCHANGED <<owner, handoff, open, flow, inbox>>
    PROVE  Handed'
BY DEF Handed, FlowHanded, Window, Release

\* Where an operation stands that goes on, in fields.
LEMMA GoesTo ==
    ASSUME ClaimInv, NEW f \in Flows, NEW at, Goes(f, at)
    PROVE  /\ flow'[f].at = at /\ flow'[f].op = flow[f].op /\ flow'[f].carries = flow[f].carries
           /\ \A g \in Flows \ {f} : flow'[g] = flow[g]
BY DEF Goes, ClaimInv, TypeOK

LEMMA DoneTo ==
    ASSUME ClaimInv, NEW f \in Flows, Done(f)
    PROVE  /\ flow'[f].at = "idle" /\ flow'[f].op = "open" /\ flow'[f].carries = "none"
           /\ \A g \in Flows \ {f} : flow'[g] = flow[g]
BY DEF Done, Idle, ClaimInv, TypeOK

LEMMA Sends ==
    ASSUME ClaimInv, NEW f \in Flows, NEW m, Send(Window(f), m), inbox[Window(f)] = <<>>
    PROVE  inbox'[Window(f)] = <<m>> /\ \A v \in Windows \ {Window(f)} : inbox'[v] = inbox[v]
BY SessionsAssumption DEF Send, Window, ClaimInv, InboxOK

\* What a command of a window that the host takes up may be, and does to the claim.
TakenUp(f, w) ==
    /\ Window(f) = w /\ flow[f].at # "idle" /\ Sent(f, inbox[w])
    /\ \A g \in Flows \ {f} : flow'[g] = flow[g]
    /\ flow'[f].op = flow[f].op
    /\ \/ /\ flow[f].at = "claim" /\ flow'[f].at = "refused"
          /\ flow'[f].carries = flow[f].carries
          /\ owner' = owner /\ handoff' = handoff
       \/ /\ flow[f].at = "claim" /\ flow'[f].at = "claimed"
          /\ owner \notin alive \ {w}
          /\ flow'[f].carries = handoff
          /\ owner' = w /\ handoff' = "none"
       \/ /\ flow[f].at = "release" /\ flow'[f].at = "released"
          /\ flow'[f].carries = flow[f].carries
          /\ owner \notin {w, Nobody} /\ owner' = owner /\ handoff' = handoff
       \/ /\ flow[f].at = "release" /\ flow'[f].at = "released"
          /\ flow'[f].carries = flow[f].carries
          /\ owner \in {w, Nobody} /\ owner' = Nobody
          /\ flow[f].carries # "none" => handoff' = flow[f].carries
          /\ flow[f].carries = "none" /\ owner = Nobody => handoff' = handoff

\* There is nothing else a host takes up.
LEMMA Commands ==
    ASSUME ClaimInv, Handed, NEW w \in Windows, Command(w)
    PROVE  \E f \in Flows : TakenUp(f, w)
<1>1. inbox[w] # <<>>
  BY DEF Command
<1>2. PICK f \in Flows : Window(f) = w /\ Sent(f, inbox[w])
  BY <1>1 DEF ClaimInv, InboxOK
<1>3. flow[f].at # "idle"
  BY <1>2 DEF Sent
<1>4. flow \in [Flows -> [op : Op, at : At, carries : Handoff]]
  BY DEF ClaimInv, TypeOK
<1>5. CASE flow[f].at = "claim" /\ inbox[w] = <<Claim(f)>>
  <2>1. claim(f)
    BY <1>2, <1>5 DEF Command, Claim
  <2>2. CASE owner \in alive \ {w}
    <3>1. Goes(f, "refused") /\ UNCHANGED claims
      BY <1>2, <2>1, <2>2 DEF claim
    <3>. QED  BY <1>2, <1>3, <1>5, <3>1, GoesTo DEF claims, TakenUp
  <2>3. CASE owner \notin alive \ {w}
    <3>1. /\ owner' = w /\ handoff' = "none"
          /\ flow' = [flow EXCEPT ![f].at = "claimed", ![f].carries = handoff]
      BY <1>2, <2>1, <2>3 DEF claim
    <3>2. /\ flow'[f].op = flow[f].op /\ flow'[f].at = "claimed" /\ flow'[f].carries = handoff
          /\ \A g \in Flows \ {f} : flow'[g] = flow[g]
      BY <1>4, <3>1
    <3>. QED  BY <1>2, <1>3, <1>5, <2>3, <3>1, <3>2 DEF TakenUp
  <2>. QED  BY <2>2, <2>3
<1>6. ASSUME NEW h \in Handoff, flow[f].at = "release", inbox[w] = <<Release(f, h)>>
      PROVE  /\ Goes(f, "released") /\ h = flow[f].carries
             /\ \/ owner \notin {w, Nobody} /\ owner' = owner /\ handoff' = handoff
                \/ /\ owner \in {w, Nobody} /\ owner' = Nobody
                   /\ flow[f].carries # "none" => handoff' = flow[f].carries
                   /\ flow[f].carries = "none" /\ owner = Nobody => handoff' = handoff
  <2>1. release(f, h)
    BY <1>2, <1>6 DEF Command, Release
  <2>2. h = flow[f].carries
    BY <1>2, <1>6 DEF Handed, FlowHanded
  <2>. QED  BY <1>2, <2>1, <2>2 DEF release, claims
<1>. QED  BY <1>2, <1>3, <1>5, <1>6, GoesTo DEF Sent, TakenUp

\* A claim takes what was handed over, a release gives it back.
LEMMA HandedCommand ==
    ASSUME ClaimInv, Handed, NEW w \in Windows, Command(w)
    PROVE  Handed'
<1>1. PICK f \in Flows : TakenUp(f, w)
  BY Commands
<1>2. /\ \A g \in Flows : Window(g) = w /\ flow[g].at # "idle" => g = f
      /\ open' = open
      /\ \A v \in Windows \ {w} : inbox'[v] = inbox[v]
  BY <1>1, Alone DEF TakenUp, Command, ClaimInv, InboxOK
<1>3. FlowHanded(f) /\ (handoff # "none" => owner = Nobody)
  BY DEF Handed
<1>4. FlowHanded(f)'
  BY <1>1, <1>2, <1>3 DEF TakenUp, FlowHanded, Window
<1>5. handoff' # "none" => owner' = Nobody
  BY <1>1, <1>3 DEF TakenUp
<1>6. owner' # owner => owner \notin alive \ {w}
  BY <1>1, SessionsAssumption DEF TakenUp, ClaimInv, TypeOK
<1>. QED  BY <1>1, <1>2, <1>4, <1>5, <1>6, HandedMoves DEF TakenUp

\* An operation begins: what it is, in fields.
LEMMA BeginsAs ==
    ASSUME ClaimInv, NEW f \in Flows, NEW op, NEW at, NEW carries, Begin(f, op, at, carries)
    PROVE  /\ flow'[f].at = at /\ flow'[f].op = op /\ flow'[f].carries = carries
           /\ \A g \in Flows \ {f} : flow'[g] = flow[g]
BY DEF Begin, ClaimInv, TypeOK

\* What the user starts hands over nothing yet but the watch of a moved session.
LEMMA HandedUser ==
    ASSUME ClaimInv, Handed, ~Overlap, NEW f \in Flows, User(f) \/ Reattach(f)
    PROVE  Handed'
<1>1. CASE main \in open /\ UNCHANGED <<host, open, watching, flow, bg, faults>>
  BY <1>1, HandedAside DEF host, claims
<1>2. ASSUME User(f) \/ openSession(f)
      PROVE  Handed'
  <2>1. ~Busy(Window(f))
    BY <1>2 DEF User, Open, openSession, closeSession, handOffSession, deleteSession, Patient
  <2>2. \A g \in Flows : Window(g) = Window(f) /\ flow[g].at # "idle" => g = f
    BY <2>1 DEF Busy
  <2>3. Window(f) \in Windows /\ inbox[Window(f)] = <<>>
    BY <2>1, SessionsAssumption DEF Busy, ClaimInv, InboxOK, Sent, Window
  <2>4. handoff # "none" => owner = Nobody
    BY DEF Handed
  <2>5. CASE openSession(f) \/ deleteSession(f)
    <3>1. /\ Send(Window(f), Claim(f)) /\ UNCHANGED <<claims, open>>
          /\ \/ Begin(f, "open", "claim", "none") /\ Window(f) \notin open
             \/ Begin(f, "delete", "claim", "none")
      BY <2>5 DEF openSession, deleteSession
    <3>2. FlowHanded(f)'
      BY <3>1, BeginsAs DEF FlowHanded, Window
    <3>. QED  BY <2>2, <2>3, <2>4, <3>1, <3>2, BeginsAs, Sends, HandedMoves DEF claims
  <2>6. CASE closeSession(f) \/ handOffSession(f)
    <3>1. /\ Shut(f) /\ UNCHANGED <<claims, inbox>>
          /\ \/ Begin(f, "close", "dispose", "none")
             \/ Begin(f, "handoff", "dispose", "watches")
             \/ Begin(f, "handoff", "dispose", "bare")
      BY <2>6 DEF closeSession, handOffSession, host
    <3>2. FlowHanded(f)'
      BY <3>1, BeginsAs DEF FlowHanded, Window
    <3>3. open' \subseteq open
      BY <3>1 DEF Shut
    <3>. QED  BY <2>2, <2>4, <3>1, <3>2, <3>3, BeginsAs, HandedMoves DEF claims
  <2>. QED  BY <1>2, <2>5, <2>6 DEF User, Open
<1>. QED  BY <1>1, <1>2 DEF Reattach

\* What goes on keeps what it carries until it has it open or drops it to end it.
LEMMA HandedContinue ==
    ASSUME ClaimInv, Handed, NEW f \in Flows, Continue(f)
    PROVE  Handed'
<1>1. /\ FlowHanded(f)
      /\ handoff # "none" => owner = Nobody
  BY DEF Handed
<1>2. flow[f].at \notin {"idle", "claim", "release"}
  BY DEF Continue, Refused, Claimed, loadCodeSession, Adopt, GiveBack, Disposed, StopOwner, Released,
         Create, Purge, deleteCodeSession
<1>3. /\ Window(f) \in alive /\ Window(f) \in Windows
      /\ \A g \in Flows : Window(g) = Window(f) /\ flow[g].at # "idle" => g = f
      /\ inbox[Window(f)] = <<>>
      /\ flow[f].at \in Owns => owner = Window(f)
  BY <1>2, Alone, Before
\* The operation goes on, and sends nothing or its release.
<1>4. ASSUME \A g \in Flows \ {f} : flow'[g] = flow[g],
             UNCHANGED claims, open' \subseteq open \cup {Window(f)},
             FlowHanded(f)',
             \A v \in Windows \ {Window(f)} : inbox'[v] = inbox[v]
      PROVE  Handed'
  BY <1>1, <1>3, <1>4, HandedMoves DEF claims
<1>5. ASSUME \A g \in Flows \ {f} : flow'[g] = flow[g],
             flow'[f].at \notin {"claim", "claimed", "release"},
             \/ flow'[f].carries = "none"
             \/ flow'[f].op = "open" /\ flow'[f].at \in {"load", "loaded", "failed", "released"}
             \/ flow'[f].op = "handoff" /\ flow'[f].at \in {"dispose", "released", "create"},
             UNCHANGED <<claims, inbox>>, open' \subseteq open \cup {Window(f)}
      PROVE  Handed'
  BY <1>4, <1>5 DEF FlowHanded
<1>6. ASSUME flow'[f].at = "release", NEW h \in Handoff, flow'[f].carries = h,
             \A g \in Flows \ {f} : flow'[g] = flow[g],
             Send(Window(f), Release(f, h)),
             h = "none" \/ (owner = Window(f) /\ flow'[f].op \in {"open", "handoff"}),
             UNCHANGED <<claims, open>>
      PROVE  Handed'
  <2>1. inbox'[Window(f)] = <<Release(f, h)>> /\ \A v \in Windows \ {Window(f)} : inbox'[v] = inbox[v]
    BY <1>3, <1>6, Sends
  <2>2. \A k \in Handoff : inbox'[Window(f)] = <<Release(f, k)>> => k = h
    BY <2>1 DEF Release
  <2>3. FlowHanded(f)'
    BY <1>6, <2>2 DEF FlowHanded, Window, Release, claims
  <2>. QED  BY <1>4, <1>6, <2>1, <2>3
<1>7. CASE Refused(f) \/ Released(f)
  <2>1. CASE Destroyed(Window(f))
    BY <1>3, <2>1, HandedDestroys
  <2>2. CASE ~Destroyed(Window(f))
    <3>1. /\ Done(f) \/ (Goes(f, "create") /\ flow[f].op = "handoff")
                     \/ (Goes(f, "purge") /\ flow[f].op = "delete" /\ flow[f].at = "released")
          /\ UNCHANGED <<host, open>>
      BY <1>7, <2>2 DEF Refused, Released
    <3>2. flow[f].op = "delete" /\ flow[f].at = "released" => flow[f].carries = "none"
      BY <1>1 DEF FlowHanded
    <3>. QED  BY <1>5, <3>1, <3>2, DoneTo, GoesTo DEF host
  <2>. QED  BY <2>1, <2>2
<1>8. CASE Claimed(f)
  <2>1. CASE flow[f].op = "open" /\ UNCHANGED <<host, open>> /\ (Done(f) \/ Goes(f, "load"))
    BY <1>5, <2>1, DoneTo, GoesTo DEF host
  <2>2. CASE /\ flow' = [flow EXCEPT ![f].carries = "none",
                                     ![f].at = IF Window(f) \in open THEN "dispose" ELSE "purge"]
             /\ Shut(f)
    <3>1. /\ flow'[f].carries = "none" /\ flow'[f].at \in {"dispose", "purge"}
          /\ \A g \in Flows \ {f} : flow'[g] = flow[g]
      BY <2>2 DEF ClaimInv, TypeOK
    <3>2. open' \subseteq open /\ UNCHANGED <<claims, inbox>>
      BY <1>8, <2>2 DEF Claimed, Shut, host
    <3>. QED  BY <1>5, <3>1, <3>2
  <2>. QED  BY <1>8, <2>1, <2>2 DEF Claimed
<1>9. CASE loadCodeSession(f)
  <2>1. /\ flow[f].at = "load" /\ (Goes(f, "loaded") \/ Goes(f, "failed"))
        /\ UNCHANGED <<host, open>>
    BY <1>9 DEF loadCodeSession
  <2>2. flow[f].carries = "none" \/ flow[f].op = "open"
    BY <1>1, <2>1 DEF FlowHanded
  <2>. QED  BY <1>5, <2>1, <2>2, GoesTo DEF host
<1>10. CASE Adopt(f)
  <2>1. Done(f) /\ UNCHANGED host /\ open' \subseteq open \cup {Window(f)}
    BY <1>10 DEF Adopt
  <2>. QED  BY <1>5, <2>1, DoneTo DEF host
<1>11. CASE GiveBack(f)
  <2>1. /\ flow[f].at = "failed" /\ Goes(f, "release") /\ flow[f].carries \in Handoff
        /\ Send(Window(f), Release(f, flow[f].carries))
        /\ UNCHANGED <<claims, open>>
    BY <1>11, Before DEF GiveBack
  <2>2. owner = Window(f) /\ (flow[f].carries # "none" => flow[f].op = "open")
    BY <1>1, <1>3, <2>1 DEF FlowHanded, Owns
  <2>. QED  BY <1>6, <2>1, <2>2, GoesTo
<1>12. CASE Disposed(f)
  <2>1. flow[f].at = "dispose" /\ owner = Window(f) /\ UNCHANGED <<claims, open>>
    BY <1>3, <1>12 DEF Disposed, Owns
  <2>2. CASE flow[f].op = "handoff"
    <3>1. /\ Goes(f, "release") /\ flow[f].carries \in Handoff
          /\ Send(Window(f), Release(f, flow[f].carries))
      BY <1>12, <2>2, Before DEF Disposed
    <3>. QED  BY <1>6, <2>1, <2>2, <3>1, GoesTo
  <2>3. CASE flow[f].op # "handoff"
    <3>1. Goes(f, "stop") /\ UNCHANGED inbox
      BY <1>12, <2>3 DEF Disposed
    <3>2. flow[f].carries = "none"
      BY <1>1, <2>1, <2>3 DEF FlowHanded
    <3>. QED  BY <1>5, <2>1, <3>1, <3>2, GoesTo
  <2>. QED  BY <2>2, <2>3
<1>13. CASE StopOwner(f)
  <2>1. /\ flow[f].at = "stop" /\ Goes(f, "release") /\ Send(Window(f), Release(f, "none"))
        /\ UNCHANGED <<claims, open>>
    BY <1>13 DEF StopOwner
  <2>2. flow[f].carries = "none" /\ "none" \in Handoff
    BY <1>1, <2>1 DEF FlowHanded, Handoff
  <2>. QED  BY <1>6, <2>1, <2>2, GoesTo
<1>14. CASE Purge(f)
  <2>1. flow[f].at = "purge" /\ Goes(f, "deleting") /\ UNCHANGED <<host, open>>
    BY <1>14 DEF Purge
  <2>2. flow[f].carries = "none"
    BY <1>1, <2>1 DEF FlowHanded
  <2>. QED  BY <1>5, <2>1, <2>2, GoesTo DEF host
<1>15. CASE deleteCodeSession(f)
  <2>1. /\ flow[f].at = "deleting" /\ Send(Window(f), Release(f, "none"))
        /\ flow' = [flow EXCEPT ![f].op = "erase", ![f].at = "release"]
        /\ UNCHANGED <<claims, open>>
    BY <1>15 DEF deleteCodeSession
  <2>2. flow[f].carries = "none" /\ "none" \in Handoff
    BY <1>1, <2>1 DEF FlowHanded, Handoff
  <2>3. /\ flow'[f].at = "release" /\ flow'[f].carries = flow[f].carries
        /\ \A g \in Flows \ {f} : flow'[g] = flow[g]
    BY <2>1 DEF ClaimInv, TypeOK
  <2>. QED  BY <1>6, <2>1, <2>2, <2>3
<1>16. CASE Create(f)
  <2>1. /\ flow[f].at = "create" /\ Window(f) \notin open /\ UNCHANGED <<claims, open>>
    BY <1>16, Before DEF Create, Away
  <2>2. CASE Done(f) /\ UNCHANGED inbox
    BY <1>5, <2>1, <2>2, DoneTo
  <2>3. CASE flow' = [flow EXCEPT ![f] = [Idle EXCEPT !.at = "claim"]] /\ Send(Window(f), Claim(f))
    <3>1. /\ flow'[f].at = "claim" /\ flow'[f].carries = "none"
          /\ \A g \in Flows \ {f} : flow'[g] = flow[g]
      BY <2>3 DEF Idle, ClaimInv, TypeOK
    <3>2. FlowHanded(f)'
      BY <2>1, <3>1 DEF FlowHanded, Window
    <3>. QED  BY <1>3, <1>4, <2>1, <2>3, <3>1, <3>2, Sends
  <2>4. ASSUME NEW g \in Flows, Window(g) \notin alive,
               flow' = [flow EXCEPT ![f] = Idle, ![g] = [Idle EXCEPT !.at = "claim"]],
               Send(Window(g), Claim(g))
        PROVE  Handed'
    <3>1. /\ f # g /\ Window(g) # Window(f) /\ Window(g) \in Windows /\ Window(g) \notin open
          /\ inbox[Window(g)] = <<>>
          /\ \A h \in Flows : Window(h) = Window(g) => flow[h].at = "idle"
      BY <1>3, <2>4, SessionsAssumption DEF ClaimInv, GoneIsGone, Window
    <3>2. /\ flow'[f].at = "idle" /\ flow'[f].carries = "none"
          /\ flow'[g].at = "claim" /\ flow'[g].carries = "none"
          /\ \A h \in Flows \ {f, g} : flow'[h] = flow[h]
      BY <2>4, <3>1 DEF Idle, ClaimInv, TypeOK
    <3>3. \A v \in Windows \ {Window(g)} : inbox'[v] = inbox[v]
      BY <2>4, <3>1, Sends
    <3>4. ASSUME NEW h \in Flows
          PROVE  FlowHanded(h)'
      <4>1. CASE h \in {f, g}
        BY <2>1, <3>1, <3>2, <4>1 DEF FlowHanded, Window
      <4>2. CASE h \notin {f, g} /\ flow[h].at = "idle"
        <5>1. FlowHanded(h) /\ flow'[h] = flow[h]
          BY <3>2, <4>2 DEF Handed
        <5>. QED  BY <4>2, <5>1 DEF FlowHanded
      <4>3. CASE h \notin {f, g} /\ flow[h].at # "idle"
        <5>1. FlowHanded(h) /\ flow'[h] = flow[h] /\ inbox'[Window(h)] = inbox[Window(h)]
          BY <3>1, <3>2, <3>3, <4>3, SessionsAssumption DEF Handed, Window
        <5>. QED  BY <2>1, <5>1 DEF FlowHanded, Window, Release, claims
      <4>. QED  BY <4>1, <4>2, <4>3
    <3>. QED  BY <1>1, <2>1, <3>4 DEF Handed, claims
  <2>. QED  BY <1>16, <2>2, <2>3, <2>4 DEF Create
<1>. QED  BY <1>7, <1>8, <1>9, <1>10, <1>11, <1>12, <1>13, <1>14, <1>15, <1>16 DEF Continue

\* Handed is inductive.
LEMMA HandedStep == ASSUME ClaimInv, Handed, ~Overlap, [Next]_vars PROVE Handed'
<1>1. ASSUME NEW w \in Windows, CloseEmpty(w) \/ Crash(w) PROVE Handed'
  BY <1>1, HandedDestroys DEF CloseEmpty, Crash
<1>2. CASE UNCHANGED vars \/ Background
  <2>1. UNCHANGED <<owner, handoff, open, flow, inbox>>
    BY <1>2 DEF vars, host, claims, Background, code_bg_start, BgStarted, BgReturns, StopTurn, StopCommand
  <2>. QED  BY <2>1, HandedAside
<1>. QED  BY <1>1, <1>2, HandedUser, HandedContinue, HandedCommand DEF Next

\* A step that hands on what follows the command.
LEMMA CustodyPasses ==
    ASSUME Custody, bg' = bg, faults \subseteq faults', open \subseteq open',
           open \cap watching \subseteq open' \cap watching',
           \A g \in Flows : Closing(g) => Closing(g)',
           \A g \in Flows : Ending(g) => Ending(g)',
           \A g \in Flows : Carries(g) =>
               \/ Carries(g)' \/ Ending(g)' \/ handoff' = "watches" \/ open' \cap watching' # {},
           handoff = "watches" => handoff' = "watches" \/ \E g \in Flows : Carries(g)'
    PROVE  Custody'
BY DEF Custody, Window

\* The command is stopped, unless it still starts.
LEMMA StoppedIsKept ==
    ASSUME ClaimInv, Custody, stop_owner, UNCHANGED <<open, faults>>
    PROVE  Custody'
<1>1. bg'.at \in {"none", "asked"} /\ (bg'.at = "asked" => bg' = bg)
  BY DEF stop_owner, ClaimInv, TypeOK, Bg
<1>. QED  BY <1>1 DEF Custody

\* A tab goes, and its operation is to stop the command or takes the watch along.
LEMMA ShutIsKept ==
    ASSUME ClaimInv, Handed, Custody, ~Overlap, NEW f \in Flows, Shut(f), UNCHANGED faults,
           owner = Window(f), handoff' = handoff,
           \A g \in Flows \ {f} : flow'[g] = flow[g],
           flow[f].at \in {"idle", "claimed"},
           \/ flow'[f].op \in {"close", "delete"} /\ flow'[f].at = "dispose"
           \/ /\ flow'[f].op = "delete" /\ flow'[f].at = "purge"
              /\ Window(f) \notin open
           \/ /\ flow'[f].at = "dispose" /\ flow[f].at = "idle"
              /\ Window(f) \in open
              /\ ~Calling(Window(f))
              /\ Window(f) \in watching => flow'[f].carries = "watches"
    PROVE  Custody'
<1>1. /\ bg.at # "asked" \/ bg.from # Window(f)
      /\ open' = open \ {Window(f)} /\ watching' = watching \ {Window(f)}
      /\ bg'.at = bg.at /\ bg'.from = bg.from
  BY DEF Shut, ClaimInv, TypeOK, Bg
<1>2. open \subseteq {Window(f)}
  BY Before
<1>3. handoff = "none"
  BY SessionsAssumption DEF Handed, Window
<1>4. ASSUME NEW g \in Flows, Closing(g) \/ Ending(g)
      PROVE  flow'[g] = flow[g] /\ g # f
  BY <1>4 DEF Closing, Ending
<1>5. ASSUME "crash" \notin faults
      PROVE  /\ bg.at # "asked"
             /\ bg.at = "running" =>
                  \E g \in Flows : Window(g) = bg.from /\ Closing(g)'
             /\ bg.at = "known" => \E g \in Flows : Carries(g)' \/ Ending(g)'
  <2>1. bg.at # "asked"
    BY <1>1, <1>2, <1>5 DEF Custody
  <2>2. ASSUME bg.at = "running"
        PROVE  \E g \in Flows : Window(g) = bg.from /\ Closing(g)'
    <3>1. CASE bg.from \in open
      <4>1. bg.from = Window(f) /\ Closing(f)'
        BY <1>2, <2>2, <3>1 DEF Calling, Closing
      <4>. QED  BY <4>1
    <3>2. CASE bg.from \notin open
      <4>1. PICK g \in Flows : Window(g) = bg.from /\ Closing(g)
        BY <1>5, <2>2, <3>2 DEF Custody
      <4>2. Closing(g)'
        BY <1>4, <4>1 DEF Closing
      <4>. QED  BY <4>1, <4>2
    <3>. QED  BY <3>1, <3>2
  <2>3. ASSUME bg.at = "known"
        PROVE  \E g \in Flows : Carries(g)' \/ Ending(g)'
    <3>1. CASE flow'[f].op \in {"close", "delete"} /\ flow'[f].at \in {"dispose", "purge"}
      <4>1. Ending(f)'
        BY <3>1 DEF Ending, Closing
      <4>. QED  BY <4>1
    <3>2. CASE /\ flow'[f].at = "dispose" /\ flow[f].at = "idle" /\ Window(f) \in open
               /\ Window(f) \in watching => flow'[f].carries = "watches"
      <4>1. CASE Window(f) \in watching
        <5>1. Carries(f)'
          BY <3>2, <4>1 DEF Carries
        <5>. QED  BY <5>1
      <4>2. CASE Window(f) \notin watching
        <5>1. PICK g \in Flows : Carries(g) \/ Ending(g)
          BY <1>2, <1>3, <1>5, <2>3, <4>2 DEF Custody
        <5>2. CASE g = f
          BY <5>1, <5>2, <3>2 DEF Carries, Ending, Closing
        <5>3. CASE g # f
          <6>1. flow'[g] = flow[g]
            BY <5>3
          <6>2. Carries(g)' \/ Ending(g)'
            BY <5>1, <6>1 DEF Carries, Ending, Closing
          <6>. QED  BY <6>2
        <5>. QED  BY <5>2, <5>3
      <4>. QED  BY <4>1, <4>2
    <3>. QED  BY <3>1, <3>2
  <2>. QED  BY <2>1, <2>2, <2>3
<1>. QED  BY <1>1, <1>5 DEF Custody, Window

\* What the user starts leaves the command to somebody.
LEMMA CustodyUser ==
    ASSUME ClaimInv, Handed, Custody, ~Overlap, NEW f \in Flows, User(f) \/ Reattach(f)
    PROVE  Custody'
<1>1. CASE main \in open /\ UNCHANGED <<host, open, watching, flow, bg, faults>>
  <2>1. UNCHANGED <<handoff, open, watching, flow, bg, faults>>
    BY <1>1 DEF host, claims
  <2>. QED  BY <2>1 DEF Custody, Closing, Ending, Carries, Window
<1>2. CASE openSession(f) \/ deleteSession(f)
  <2>1. /\ UNCHANGED <<claims, open, watching, bg, faults>> /\ flow[f].at = "idle"
        /\ Begin(f, "open", "claim", "none") \/ Begin(f, "delete", "claim", "none")
    BY <1>2 DEF openSession, deleteSession, Begin
  <2>2. \A g \in Flows : /\ Closing(g) => Closing(g)'
                         /\ Ending(g) => Ending(g)'
                         /\ Carries(g) => Carries(g)'
    BY <2>1, BeginsAs DEF Closing, Ending, Carries
  <2>. QED  BY <2>1, <2>2, CustodyPasses DEF claims
<1>3. CASE closeSession(f)
  <2>1. /\ Begin(f, "close", "dispose", "none") /\ flow[f].at = "idle"
        /\ Shut(f) /\ Window(f) \in open /\ UNCHANGED <<claims, faults>>
    BY <1>3 DEF closeSession, host, Begin
  <2>. QED  BY <2>1, BeginsAs, Before, ShutIsKept DEF claims
<1>4. CASE handOffSession(f)
  <2>1. /\ Begin(f, "handoff", "dispose", IF Window(f) \in watching THEN "watches" ELSE "bare")
        /\ flow[f].at = "idle" /\ ~Calling(Window(f))
        /\ Shut(f) /\ Window(f) \in open /\ UNCHANGED <<claims, faults>>
    BY <1>4 DEF handOffSession, host, Begin
  <2>. QED  BY <2>1, BeginsAs, Before, ShutIsKept DEF claims
<1>. QED  BY <1>1, <1>2, <1>3, <1>4 DEF User, Open, Reattach

\* A watch passes from the operation that gives it back to the claims, and on.
LEMMA CustodyCommand ==
    ASSUME ClaimInv, Handed, Custody, NEW w \in Windows, Command(w)
    PROVE  Custody'
<1>1. PICK f \in Flows : TakenUp(f, w)
  BY Commands
<1>2. UNCHANGED <<open, watching, bg, faults>>
  BY DEF Command
<1>3. \A g \in Flows : (Closing(g) => Closing(g)') /\ (Ending(g) => Ending(g)')
  BY <1>1 DEF TakenUp, Closing, Ending
<1>4. FlowHanded(f) /\ (handoff # "none" => owner = Nobody) /\ Nobody # w
  BY SessionsAssumption DEF Handed
<1>5. \A g \in Flows \ {f} : Carries(g) => Carries(g)'
  BY <1>1 DEF TakenUp, Carries
<1>6. Carries(f) => handoff' = "watches"
  BY <1>1, <1>4 DEF TakenUp, Carries, FlowHanded
<1>7. handoff = "watches" => handoff' = "watches" \/ Carries(f)'
  BY <1>1, <1>4 DEF TakenUp, Carries, FlowHanded
<1>. QED  BY <1>2, <1>3, <1>5, <1>6, <1>7, CustodyPasses

\* A window that goes and does not have the session open follows nothing.
LEMMA CustodyDestroys ==
    ASSUME ClaimInv, Custody, NEW w \in alive, w \notin open, Destroyed(w), UNCHANGED <<bg, faults>>,
           \A f \in Flows : Window(f) = w => flow[f].at \in {"idle", "refused", "released"}
    PROVE  Custody'
<1>1. /\ \A g \in Flows : flow'[g] = IF Window(g) = w THEN Idle ELSE flow[g]
      /\ open' = open /\ watching' = watching \ {w} /\ handoff' = handoff
  BY DEF Destroyed
<1>2. \A g \in Flows : /\ Closing(g) => Closing(g)'
                       /\ Ending(g) => Ending(g)'
                       /\ Carries(g) => Carries(g)'
  BY <1>1 DEF Closing, Ending, Carries
<1>. QED  BY <1>1, <1>2, CustodyPasses

\* An operation that goes on keeps the watch or ends the command.
LEMMA CustodyContinue ==
    ASSUME ClaimInv, Handed, Custody, ~Overlap, NEW f \in Flows, Continue(f)
    PROVE  Custody'
<1>1. FlowHanded(f)
  BY DEF Handed
<1>2. flow[f].at \notin {"idle", "claim", "release"}
  BY DEF Continue, Refused, Claimed, loadCodeSession, Adopt, GiveBack, Disposed, StopOwner, Released,
         Create, Purge, deleteCodeSession
<1>3. /\ Window(f) \in alive /\ Window(f) \in Windows
      /\ \A g \in Flows : Window(g) = Window(f) /\ flow[g].at # "idle" => g = f
      /\ flow[f].at \in Owns => owner = Window(f)
      /\ \A v \in open : owner = v
  BY <1>2, Alone, Before
\* What the operation stands for goes with it.
<1>4. ASSUME \A g \in Flows \ {f} : flow'[g] = flow[g],
             bg' = bg, faults \subseteq faults', open \subseteq open', watching \subseteq watching',
             handoff' = handoff,
             Closing(f) => Closing(f)', Ending(f) => Ending(f)',
             Carries(f) => Carries(f)' \/ open' \cap watching' # {}
      PROVE  Custody'
  <2>1. \A g \in Flows \ {f} : /\ Closing(g) => Closing(g)'
                               /\ Ending(g) => Ending(g)'
                               /\ Carries(g) => Carries(g)'
    BY <1>4 DEF Closing, Ending, Carries
  <2>. QED  BY <1>4, <2>1, CustodyPasses
<1>5. CASE Refused(f) \/ Released(f)
  <2>0. flow[f].at \in {"refused", "released"} /\ UNCHANGED <<bg, faults>>
    BY <1>5 DEF Refused, Released
  <2>1. CASE Destroyed(Window(f))
    <3>1. Window(f) \notin open
      BY <1>3, <2>0, Before DEF Without, Away
    <3>. QED  BY <1>3, <2>0, <2>1, <3>1, CustodyDestroys
  <2>2. CASE ~Destroyed(Window(f))
    <3>1. /\ Done(f) \/ Goes(f, "create") \/ Goes(f, "purge")
          /\ UNCHANGED <<host, open, watching>>
      BY <1>5, <2>2 DEF Refused, Released
    <3>. QED  BY <1>4, <2>0, <3>1, DoneTo, GoesTo DEF host, claims, Closing, Ending, Carries
  <2>. QED  BY <2>1, <2>2
<1>6. CASE Claimed(f)
  <2>0. flow[f].at = "claimed" /\ owner = Window(f) /\ UNCHANGED <<handoff, faults>>
    BY <1>3, <1>6 DEF Claimed, Owns, host, claims
  <2>1. CASE /\ flow[f].op = "open" /\ UNCHANGED <<open, watching, bg>>
             /\ IF Window(f) \in open THEN Done(f) ELSE Goes(f, "load")
    <3>1. Goes(f, "load")
      BY <1>1, <2>0, <2>1 DEF FlowHanded
    <3>. QED  BY <1>4, <2>0, <2>1, <3>1, GoesTo DEF Closing, Ending, Carries
  <2>2. CASE /\ flow[f].op = "delete"
             /\ flow' = [flow EXCEPT ![f].carries = "none",
                                     ![f].at = IF Window(f) \in open THEN "dispose" ELSE "purge"]
             /\ Shut(f)
    <3>1. /\ flow'[f].op = "delete"
          /\ flow'[f].at = IF Window(f) \in open THEN "dispose" ELSE "purge"
          /\ \A g \in Flows \ {f} : flow'[g] = flow[g]
      BY <2>2 DEF ClaimInv, TypeOK
    <3>. QED  BY <2>0, <2>2, <3>1, ShutIsKept
  <2>. QED  BY <1>6, <2>1, <2>2 DEF Claimed
<1>7. CASE loadCodeSession(f)
  <2>1. /\ flow[f].at = "load" /\ (Goes(f, "loaded") \/ Goes(f, "failed"))
        /\ UNCHANGED <<handoff, open, watching, bg>> /\ faults \subseteq faults'
    BY <1>7 DEF loadCodeSession, Fails, host, claims
  <2>. QED  BY <1>4, <2>1, GoesTo DEF Closing, Ending, Carries
<1>8. CASE Adopt(f)
  <2>1. flow[f].at = "loaded" /\ Window(f) \notin open
    BY <1>8, Before DEF Adopt, Away
  <2>2. /\ Done(f) /\ UNCHANGED <<handoff, bg, faults>>
        /\ open' = open \cup {Window(f)}
        /\ watching' = IF flow[f].carries = "watches" THEN watching \cup {Window(f)} ELSE watching
    BY <1>8, <2>1 DEF Adopt, host, claims
  <2>. QED  BY <1>4, <2>1, <2>2, DoneTo DEF Closing, Ending, Carries
<1>9. CASE GiveBack(f)
  <2>1. /\ flow[f].at = "failed" /\ Goes(f, "release")
        /\ UNCHANGED <<handoff, open, watching, bg, faults>>
    BY <1>9 DEF GiveBack, claims
  <2>. QED  BY <1>4, <2>1, GoesTo DEF Closing, Ending, Carries
<1>10. CASE Disposed(f)
  <2>1. /\ flow[f].at = "dispose"
        /\ IF flow[f].op = "handoff" THEN Goes(f, "release") ELSE Goes(f, "stop")
        /\ UNCHANGED <<handoff, open, watching, bg, faults>>
    BY <1>10 DEF Disposed, claims
  <2>2. flow[f].op # "handoff" => flow[f].carries = "none"
    BY <1>1, <2>1 DEF FlowHanded
  <2>. QED  BY <1>4, <2>1, <2>2, GoesTo DEF Closing, Ending, Carries
<1>11. CASE StopOwner(f) \/ Purge(f)
  BY <1>11, StoppedIsKept DEF StopOwner, Purge
<1>12. CASE deleteCodeSession(f)
  <2>1. /\ flow[f].at = "deleting" /\ faults \subseteq faults'
        /\ flow' = [flow EXCEPT ![f].op = "erase", ![f].at = "release"]
        /\ UNCHANGED <<handoff, open, watching, bg>>
    BY <1>12 DEF deleteCodeSession, Fails, claims
  <2>2. \A g \in Flows \ {f} : flow'[g] = flow[g]
    BY <2>1 DEF ClaimInv, TypeOK
  <2>. QED  BY <1>4, <2>1, <2>2 DEF Closing, Ending, Carries
<1>13. CASE Create(f)
  <2>1. /\ flow[f].at = "create" /\ faults \subseteq faults'
        /\ UNCHANGED <<handoff, open, watching, bg>>
    BY <1>13 DEF Create, Fails, claims
  <2>2. CASE Done(f) \/ flow' = [flow EXCEPT ![f] = [Idle EXCEPT !.at = "claim"]]
    <3>1. \A g \in Flows \ {f} : flow'[g] = flow[g]
      BY <2>2 DEF Done, ClaimInv, TypeOK
    <3>. QED  BY <1>4, <2>1, <3>1 DEF Closing, Ending, Carries
  <2>3. ASSUME NEW g \in Flows, Window(g) \notin alive,
               flow' = [flow EXCEPT ![f] = Idle, ![g] = [Idle EXCEPT !.at = "claim"]]
        PROVE  Custody'
    <3>1. flow[g].at = "idle"
      BY <2>3, Alone
    <3>2. \A h \in Flows \ {f, g} : flow'[h] = flow[h]
      BY <2>3 DEF ClaimInv, TypeOK
    <3>3. \A h \in Flows : /\ Closing(h) => Closing(h)'
                           /\ Ending(h) => Ending(h)'
                           /\ Carries(h) => Carries(h)'
      BY <2>1, <3>1, <3>2 DEF Closing, Ending, Carries
    <3>. QED  BY <2>1, <3>3, CustodyPasses
  <2>. QED  BY <1>13, <2>2, <2>3 DEF Create
<1>. QED  BY <1>5, <1>6, <1>7, <1>8, <1>9, <1>10, <1>11, <1>12, <1>13 DEF Continue

\* The command starts in a window that has the session open.
LEMMA CustodyBackground == ASSUME ClaimInv, Custody, Background PROVE Custody'
<1>1. ASSUME NEW w \in Windows, code_bg_start(w) PROVE Custody'
  BY <1>1 DEF code_bg_start, Custody
<1>2. CASE BgStarted
  <2>1. bg.at = "asked" /\ bg'.at = "running" /\ bg'.from = bg.from /\ UNCHANGED <<open, faults>>
    BY <1>2 DEF BgStarted, ClaimInv, TypeOK, Bg
  <2>. QED  BY <2>1 DEF Custody
<1>3. CASE BgReturns
  <2>1. /\ bg.at = "running" /\ bg'.at = "known" /\ UNCHANGED <<handoff, open, flow, faults>>
        /\ watching' = watching \cup ({bg.from} \cap alive)
    BY <1>3 DEF BgReturns, host, claims, ClaimInv, TypeOK, Bg
  <2>2. \A g \in Flows : Closing(g) => Ending(g)'
    BY <2>1 DEF Ending, Closing
  <2>3. open \subseteq alive
    BY DEF ClaimInv, TypeOK
  <2>. QED  BY <2>1, <2>2, <2>3 DEF Custody
<1>4. CASE StopTurn
  <2>1. bg'.at = bg.at /\ bg'.from = bg.from /\ UNCHANGED <<handoff, open, watching, flow, faults>>
    BY <1>4 DEF StopTurn, host, claims, ClaimInv, TypeOK, Bg
  <2>. QED  BY <2>1 DEF Custody, Closing, Ending, Carries, Window
<1>5. CASE StopCommand
  BY <1>5, StoppedIsKept DEF StopCommand
<1>. QED  BY <1>1, <1>2, <1>3, <1>4, <1>5 DEF Background

\* Custody is inductive.
LEMMA CustodyStep == ASSUME ClaimInv, Handed, Custody, ~Overlap, [Next]_vars PROVE Custody'
<1>1. ASSUME NEW w \in Windows, CloseEmpty(w) PROVE Custody'
  <2>1. /\ w \in alive /\ w \notin open /\ ~Busy(w) /\ Destroyed(w) /\ UNCHANGED <<bg, faults>>
    BY <1>1 DEF CloseEmpty, Patient
  <2>. QED  BY <2>1, CustodyDestroys DEF Busy
<1>2. ASSUME NEW w \in Windows, Crash(w) PROVE Custody'
  BY <1>2 DEF Crash, Fails, Custody
<1>3. CASE UNCHANGED vars
  <2>1. UNCHANGED <<handoff, open, watching, flow, bg, faults>>
    BY <1>3 DEF vars, host, claims
  <2>. QED  BY <2>1 DEF Custody, Closing, Ending, Carries, Window
<1>. QED  BY <1>1, <1>2, <1>3, CustodyUser, CustodyContinue, CustodyCommand, CustodyBackground DEF Next

\* The three invariants together.
LEMMA InCustody == ASSUME ~Overlap PROVE Spec => [](ClaimInv /\ Handed /\ Custody)
<1>1. Init => Handed /\ Custody
  BY DEF Init, Idle, Handed, FlowHanded, Custody
<1>. QED  BY <1>1, InitClaims, StepKeeps, HandedStep, CustodyStep, PTL DEF Spec

\* ... a command that runs in the background is followed by a window, or its
\* watch waits for the next owner or is on its way to one, or an operation is
\* about to stop it, as long as no window crashes.
THEOREM WatchesAreKept == ASSUME ~Overlap PROVE Spec => []WatchesKept
<1>1. Custody => WatchesKept
  BY DEF Custody, WatchesKept, Carries, Ending, Closing
<1>. QED  BY <1>1, InCustody, PTL

\* ... and it never runs on without a window that has the session open or sees
\* to it, or a next owner it waits for (background.rs, claims.rs).
THEOREM CommandsEndInTime == ASSUME ~Overlap PROVE Spec => []NeverOutlives
<1>1. ClaimInv /\ Custody => NeverOutlives
  <2>. SUFFICES ASSUME ClaimInv, Custody, bg.at \in {"running", "known"}, "crash" \notin faults,
                       open = {}, handoff = "none"
                PROVE  \E w \in alive : Busy(w)
    BY DEF NeverOutlives
  <2>1. \E f \in Flows : Closing(f) \/ Carries(f) \/ Ending(f)
    BY DEF Custody
  <2>2. PICK f \in Flows : flow[f].at # "idle"
    BY <2>1 DEF Closing, Carries, Ending
  <2>. QED  BY <2>2, Alone DEF Busy
<1>. QED  BY <1>1, InCustody, PTL
=============================================================================
