----------------------------- MODULE JoinTokens -----------------------------
(***************************************************************************)
(* Join tokens and the runtimes that register with them: the statements of  *)
(* internal/store/cloud.go and the handlers of api/handlers_cloud.go that   *)
(* issue them.  A statement is atomic; a request is several of them, so     *)
(* requests interleave, and any statement may fail.  A runtime is named by  *)
(* the request that registered it.                                          *)
(***************************************************************************)
EXTENDS Integers, FiniteSets

CONSTANTS
  Tokens,     \* join tokens, by the secret that presents them
  Joins,      \* POST /v1/cloud/runtimes/register requests
  NoToken,
  AskedUses   \* the max_uses each token is asked for

ASSUME JoinAssumption ==
  /\ IsFiniteSet(Joins)
  /\ NoToken \notin Tokens
  /\ AskedUses \in [Tokens -> Int]

VARIABLES
  minted,     \* the rows of runtime_join_tokens
  lapsed,     \* the tokens whose expires_at has passed
  uses,       \* runtime_join_tokens.uses
  joining,    \* where each request is
  presented,  \* the token each request presents
  runtimes    \* runtimes.status, for the requests that registered one

tokenRows == <<minted, lapsed>>
joinVars  == <<minted, lapsed, uses, joining, presented, runtimes>>

Statuses == {"online", "offline"}

\* A token asked for no use, or fewer, has one.
MaxUses(t) == IF AskedUses[t] <= 0 THEN 1 ELSE AskedUses[t]

JoinTypeOK ==
  /\ minted \subseteq Tokens
  /\ lapsed \subseteq minted
  /\ uses \in [Tokens -> Nat]
  /\ joining \in [Joins -> {"idle", "redeem", "register", "joined", "refused", "failed", "wasted"}]
  /\ presented \in [Joins -> Tokens \cup {NoToken}]
  /\ runtimes \in [Joins -> Statuses \cup {"none"}]

JoinInit ==
  /\ minted = {}
  /\ lapsed = {}
  /\ uses = [t \in Tokens |-> 0]
  /\ joining = [r \in Joins |-> "idle"]
  /\ presented = [r \in Joins |-> NoToken]
  /\ runtimes = [r \in Joins |-> "none"]

-----------------------------------------------------------------------------
(* The token *)

MintJoinToken(t) ==
  /\ t \notin minted
  /\ minted' = minted \cup {t}
  /\ UNCHANGED <<lapsed, uses, joining, presented, runtimes>>

\* A token without a lifetime never gets here.
Lapse(t) ==
  /\ t \in minted \ lapsed
  /\ lapsed' = lapsed \cup {t}
  /\ UNCHANGED <<minted, uses, joining, presented, runtimes>>

RedeemableOneMore(t) == t \in minted \ lapsed /\ uses[t] <= MaxUses(t)   \* fault: off by one
Redeemable(t)        == t \in minted \ lapsed /\ uses[t] < MaxUses(t)

-----------------------------------------------------------------------------
(* handleCloudRegisterRuntime: RedeemJoinToken, then RegisterRuntime *)

\* The SELECT and the tests on what it returned.
CheckToken(r, t) ==
  /\ joining[r] = "idle"
  /\ presented' = [presented EXCEPT ![r] = t]
  /\ joining' = [joining EXCEPT ![r] = IF Redeemable(t) THEN "redeem" ELSE "refused"]
  /\ UNCHANGED <<tokenRows, uses, runtimes>>

\* UPDATE ... SET uses=uses+1 does not look at what the SELECT returned.
IncrementedOnce(n) == 1                        \* fault: writes back what it read, plus one
Incremented(n)     == n + 1

CountUse(r) ==
  /\ joining[r] = "redeem"
  /\ uses' = [uses EXCEPT ![presented[r]] = Incremented(@)]
  /\ joining' = [joining EXCEPT ![r] = "register"]
  /\ UNCHANGED <<tokenRows, presented, runtimes>>

RegisterRuntime(r) ==
  /\ joining[r] = "register"
  /\ runtimes' = [runtimes EXCEPT ![r] = "online"]
  /\ joining' = [joining EXCEPT ![r] = "joined"]
  /\ UNCHANGED <<tokenRows, uses, presented>>

\* The next statement does not run, or the answer to the last one is lost, or the process
\* stops: what was written stays, and a use that was counted is wasted.
AbandonJoin(r) ==
  /\ joining[r] \in {"redeem", "register"}
  /\ joining' = [joining EXCEPT ![r] = IF @ = "redeem" THEN "failed" ELSE "wasted"]
  /\ UNCHANGED <<tokenRows, uses, presented, runtimes>>

\* The SELECT finds the row by the hash of the runtime's token, the UPDATE finds it
\* again by id; no statement deletes a runtime, so nothing can come between them.
Heartbeat(r, status) ==
  /\ joining[r] = "joined"
  /\ runtimes[r] # status
  /\ runtimes' = [runtimes EXCEPT ![r] = status]
  /\ UNCHANGED <<tokenRows, uses, joining, presented>>

JoinNext ==
  \/ \E t \in Tokens : MintJoinToken(t) \/ Lapse(t)
  \/ \E r \in Joins, t \in Tokens : CheckToken(r, t)
  \/ \E r \in Joins : CountUse(r) \/ RegisterRuntime(r) \/ AbandonJoin(r)
  \/ \E r \in Joins, status \in Statuses : Heartbeat(r, status)

JoinSpec == JoinInit /\ [][JoinNext]_joinVars

-----------------------------------------------------------------------------
(* Properties *)

Joining(t, steps) == {r \in Joins : presented[r] = t /\ joining[r] \in steps}

Counted(t)    == Joining(t, {"register", "joined", "wasted"})
JoinedWith(t) == {r \in Joins : presented[r] = t /\ runtimes[r] # "none"}

\* Every runtime has a use of its own on record, whichever statements of whichever
\* requests failed or overlapped (RedeemJoinToken counts before RegisterRuntime inserts,
\* and the UPDATE adds to what is there).
RuntimesAccounted ==
  \A t \in Tokens : /\ JoinedWith(t) \subseteq Counted(t)
                    /\ Cardinality(Counted(t)) <= uses[t]

\* What TokenUse sees: a use is granted when its request knows that the UPDATE has run.
TokenRules ==
  INSTANCE TokenUse WITH
    Requests <- Joins,
    Limit <- [t \in Tokens |-> MaxUses(t)],
    admitted <- [t \in Tokens |-> Joining(t, {"redeem"})],
    granted <- [t \in Tokens |-> Counted(t)]

\* RedeemJoinToken admits nobody that reads the row after max_uses uses were counted ("join
\* token already used").  Requests that read it before that may still be counted.
ExhaustedTokensAreRefused == TokenRules!Spec

\* A token is not used more than max_uses times ("single/limited-use", schema.go:98;
\* "exhausted tokens are rejected", cloud.go:173).
UsesWithinLimit == \A t \in Tokens : uses[t] <= MaxUses(t)
=============================================================================
