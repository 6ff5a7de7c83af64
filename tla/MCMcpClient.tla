---------------------------- MODULE MCMcpClient ----------------------------
(***************************************************************************)
(* Instances of McpClient for TLC: a sandbox and the tools/call requests of *)
(* two API clients.                                                         *)
(***************************************************************************)
EXTENDS McpClient

CONSTANTS c1, c2

MCCalls == {c1, c2}

\* An id no call is given, and the one of the first tools/call.
MCOtherIDs     == {9}
MCCollidingIDs == {3}
=============================================================================
