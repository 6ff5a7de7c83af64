------------------------------ MODULE TokenUse ------------------------------
(***************************************************************************)
(* What tokens that may be used a limited number of times promise when a     *)
(* request reads the row in one statement and records the use in another:   *)
(* no request is admitted once the limit is on record.  Requests admitted   *)
(* before that may still be granted, so that overlapping ones may exceed it. *)
(* Nothing is said of a request that is abandoned, whatever it had done by   *)
(* then.  JoinTokens and Accounts implement this.                            *)
(***************************************************************************)
EXTENDS Naturals, FiniteSets

CONSTANTS
  Tokens,
  Requests,   \* the requests that present one
  Limit       \* Limit[t]: how many requests the token t is good for

VARIABLES
  admitted,   \* per token: requests that found it good and have not recorded a use
  granted     \* per token: requests that have recorded one

tokenVars == <<admitted, granted>>

Init ==
  /\ admitted = [t \in Tokens |-> {}]
  /\ granted = [t \in Tokens |-> {}]

Admit(r, t) ==
  /\ r \notin granted[t]
  /\ Cardinality(granted[t]) < Limit[t]
  /\ admitted' = [admitted EXCEPT ![t] = @ \cup {r}]
  /\ UNCHANGED granted

Grant(r, t) ==
  /\ r \in admitted[t]
  /\ admitted' = [admitted EXCEPT ![t] = @ \ {r}]
  /\ granted' = [granted EXCEPT ![t] = @ \cup {r}]

\* The request fails, or is lost with its process.
Abandon(r, t) ==
  /\ r \in admitted[t]
  /\ admitted' = [admitted EXCEPT ![t] = @ \ {r}]
  /\ UNCHANGED granted

Next == \E r \in Requests, t \in Tokens : Admit(r, t) \/ Grant(r, t) \/ Abandon(r, t)

Spec == Init /\ [][Next]_tokenVars
=============================================================================
