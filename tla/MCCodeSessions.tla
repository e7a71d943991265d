---------------------------- MODULE MCCodeSessions ----------------------------
(* Small instances of CodeSessions: two operations at once in the main        *)
(* window, one in the session's own.                                          *)
EXTENDS CodeSessions

CONSTANTS detached, m1, m2, d1

FlowWindows == [f \in Flows |-> IF f = d1 THEN detached ELSE main]
=============================================================================
