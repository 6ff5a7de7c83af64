------------------------------ MODULE MCStore ------------------------------
(***************************************************************************)
(* Instances for TLC of the components behind the HTTP handlers that promise *)
(* safety alone: accounts, join tokens, the key of the credentials, the rate *)
(* limiter; and of the log ring.  They share no row and no statement, so in  *)
(* a behaviour only one of them moves (part) and TLC adds their states       *)
(* instead of multiplying them.                                              *)
(***************************************************************************)
EXTENDS Accounts, JoinTokens, SecretKey, RateLimiter, LogRing, TLC

CONSTANTS c1, c2, c3, r1, r2, r3, once, twice

MCCalls     == {c1, c2, c3}
MCJoins     == {r1, r2, r3}
MCAskedUses == once :> 0 @@ twice :> 2

Symmetry == Permutations(MCCalls) \cup Permutations(MCJoins)

VARIABLE part

storeVars == <<part, accountsVars, joinVars, secretVars, limiterVars, ringVars>>

StoreInit ==
  /\ part \in {"accounts", "tokens", "secrets", "limiter", "ring"}
  /\ AccountsInit /\ (part = "accounts" \/ SlugsTaken = {})
  /\ JoinInit
  /\ SecretInit /\ (part = "secrets" \/ env = NoKey)
  /\ LimiterInit /\ RingInit

StoreNext ==
  \/ /\ part = "accounts" /\ AccountsNext
     /\ UNCHANGED <<part, joinVars, secretVars, limiterVars, ringVars>>
  \/ /\ part = "tokens" /\ JoinNext
     /\ UNCHANGED <<part, accountsVars, secretVars, limiterVars, ringVars>>
  \/ /\ part = "secrets" /\ SecretNext
     /\ UNCHANGED <<part, accountsVars, joinVars, limiterVars, ringVars>>
  \/ /\ part = "limiter" /\ LimiterNext
     /\ UNCHANGED <<part, accountsVars, joinVars, secretVars, ringVars>>
  \/ /\ part = "ring" /\ RingNext
     /\ UNCHANGED <<part, accountsVars, joinVars, secretVars, limiterVars>>

StoreSpec == StoreInit /\ [][StoreNext]_storeVars

\* What the repository says of both kinds of secrets that may be used a limited number of
\* times: a reset link is "single-use" (accounts.go:32, schema.go:146), and "exhausted
\* tokens are rejected" (cloud.go:173), of "single/limited-use" ones (schema.go:98).
LimitsKept == LinksWorkOnce /\ UsesWithinLimit
=============================================================================
