-------------------------- MODULE MCInferenceTurns --------------------------
(* Small instances of InferenceTurns: a chat and a job's turn on one lane,  *)
(* in one window or in two.                                                 *)
EXTENDS InferenceTurns, TLC

CONSTANTS chat, card, main, shell, local

TwoTurns == {chat, card}
MCReqIds == UNION {{t} \X (1..MaxRequests[t]) : t \in Turns}
TwoRequests == [t \in Turns |-> 2]
OneLane == [t \in Turns |-> local]
SameWindow == [t \in Turns |-> main]
OwnWindows == [t \in Turns |-> IF t = card THEN main ELSE shell]
CardIsBackground == [t \in Turns |-> IF t = card THEN "background" ELSE "foreground"]
=============================================================================
