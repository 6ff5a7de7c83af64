----------------------------- MODULE MCEventBus -----------------------------
(***************************************************************************)
(* An instance of EventBus for TLC: two clients, which differ in when they  *)
(* come and how fast they read.                                             *)
(***************************************************************************)
EXTENDS EventBus

CONSTANTS a, b

MCClients == {a, b}
=============================================================================
