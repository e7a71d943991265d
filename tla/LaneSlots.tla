------------------------------ MODULE LaneSlots ------------------------------
(***************************************************************************)
(* What the inference queue promises, without its list, its leases, its    *)
(* senders and its calls: every lane has a number of slots; whoever asks   *)
(* for one has it, or waits because the lane is full or because it gives   *)
(* way to the lane's foreground work.  InferenceQueue implements this:     *)
(* each of its ways to take a request out (a cancel, a release, a window's *)
(* cleanup, the lease sweeper) is a Leave.                                 *)
(***************************************************************************)
EXTENDS Integers, FiniteSets

CONSTANTS Ids, Lanes

VARIABLES
    asks,   \* who asks, and for what: id |-> [lane, priority]
    holds,  \* the ids among them that have a slot
    kept,   \* lanes kept free of background work for a turn that is away
    slots   \* per lane, the number of its slots

vars == <<asks, holds, kept, slots>>

Ask == [lane : Lanes, priority : {"foreground", "background"}]

On(lane) == {id \in DOMAIN asks : asks[id].lane = lane}

\* A background request gives way to the foreground ones of its lane, those
\* that have a slot and those that wait, and to a turn that is away.
MayHave(id) ==
    asks[id].priority = "background" =>
        /\ asks[id].lane \notin kept
        /\ \A other \in On(asks[id].lane) : asks[other].priority = "background"

-----------------------------------------------------------------------------
\* The state after a step, asks', kept' and slots' given: nobody loses a slot
\* but by leaving; a slot is given only on a lane that has one free, and only
\* to a request that may have it; and none stays free while such a request
\* waits.
Serve ==
    /\ holds' \subseteq DOMAIN asks'
    /\ holds \cap DOMAIN asks' \subseteq holds'
    /\ \A lane \in Lanes :
        LET had == (holds \cap On(lane)')
            has == (holds' \cap On(lane)')
            may == {id \in On(lane)' \ had : MayHave(id)'}
        IN /\ has \ had \subseteq may
           /\ has = had \/ Cardinality(has) <= slots'[lane]
           /\ may \subseteq has \/ Cardinality(has) >= slots'[lane]

\* A request comes and says how many slots its lane has; the lane may stop
\* being kept for it, if it is the turn that was away.
Join(id, lane) ==
    /\ id \notin DOMAIN asks
    /\ DOMAIN asks' = DOMAIN asks \cup {id}
    /\ asks'[id] \in Ask /\ asks'[id].lane = lane
    /\ \A other \in DOMAIN asks : asks'[other] = asks[other]
    /\ kept' \subseteq kept
    /\ slots'[lane] \in Nat \ {0}
    /\ slots' = [slots EXCEPT ![lane] = slots'[lane]]
    /\ Serve

\* Requests leave, with their slots if they have one; their lanes may be kept
\* for them, and others may stop being kept.
Leave ==
    /\ DOMAIN asks' \subseteq DOMAIN asks
    /\ asks' = [id \in DOMAIN asks' |-> asks[id]]
    /\ kept' \subseteq kept \cup {asks[id].lane : id \in DOMAIN asks \ DOMAIN asks'}
    /\ slots' = slots
    /\ Serve

-----------------------------------------------------------------------------
Init ==
    /\ DOMAIN asks = {}
    /\ holds = {}
    /\ kept = {}
    /\ slots = [lane \in Lanes |-> 1]

Next ==
    \/ \E id \in Ids, lane \in Lanes : Join(id, lane)
    \/ Leave

Spec == Init /\ [][Next]_vars
=============================================================================
