---------------------------- MODULE MCRemoteChat ----------------------------
(***************************************************************************)
(* Instances of RemoteChat for TLC.                                        *)
(***************************************************************************)
EXTENDS RemoteChat, TLC

CONSTANTS p1

OnePage == {p1}
FirstOnly == {1}
AllFaults == {"db", "reload", "dispatch", "disconnect", "stop"}

=============================================================================
