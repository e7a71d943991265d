---------------------------- MODULE MCMcpServers ----------------------------
(***************************************************************************)
(* Instances of McpServers for TLC.                                        *)
(***************************************************************************)
EXTENDS McpServers, TLC

CONSTANTS s1, c1

OneServer == {s1}
OneCall == {c1}

=============================================================================
