---------------------------- MODULE CloudProofs ----------------------------
(***************************************************************************)
(* Proofs about what the cloud side of the store keeps: join tokens and the   *)
(* runtimes that register with them, and the key of the credentials, for any *)
(* number of tokens, requests, keys, failures and restarts.                  *)
(***************************************************************************)
EXTENDS JoinTokens, SecretKey, FiniteSetTheorems, TLAPS

(***************************************************************************)
(* JoinTokens: every runtime is accounted for, and JoinTokens implements     *)
(* TokenUse.                                                                *)
(***************************************************************************)

\* A request past the SELECT presents a token, and only one that has joined has a runtime.
RequestInv ==
  \A r \in Joins :
    /\ joining[r] \notin {"idle", "refused"} => presented[r] \in Tokens
    /\ runtimes[r] # "none" => joining[r] = "joined"

\* The column counts the requests that know of their use, and nothing else.
UsesInv == \A t \in Tokens : uses[t] = Cardinality(Counted(t))

JoinInv == JoinTypeOK /\ RequestInv /\ UsesInv

\* The sets of requests that the invariant counts are finite.
LEMMA CountedFinite ==
  \A t \in Tokens : IsFiniteSet(Counted(t)) /\ Cardinality(Counted(t)) \in Nat
<1> TAKE t \in Tokens
<1>1. Counted(t) \subseteq Joins
  BY DEF Counted, Joining
<1> QED BY <1>1, JoinAssumption, FS_Subset, FS_CardinalityType

LEMMA JoinInitInv == JoinInit => JoinInv
<1> SUFFICES ASSUME JoinInit PROVE JoinInv
  OBVIOUS
<1>1. JoinTypeOK /\ RequestInv
  BY DEF JoinInit, JoinTypeOK, RequestInv, Statuses
<1>2. ASSUME NEW t \in Tokens PROVE uses[t] = Cardinality(Counted(t))
  <2>1. Counted(t) = {}
    BY DEF JoinInit, Counted, Joining
  <2> QED BY <2>1, FS_EmptySet DEF JoinInit
<1> QED BY <1>1, <1>2 DEF JoinInv, UsesInv

\* The types and the requests, step by step.
LEMMA RequestStep ==
  ASSUME JoinTypeOK, RequestInv, [JoinNext]_joinVars
  PROVE  JoinTypeOK' /\ RequestInv'
<1> USE JoinAssumption DEF JoinTypeOK, RequestInv, tokenRows, Statuses
<1>1. ASSUME NEW t \in Tokens, MintJoinToken(t) \/ Lapse(t) PROVE JoinTypeOK' /\ RequestInv'
  BY <1>1 DEF MintJoinToken, Lapse
<1>2. ASSUME NEW r \in Joins, NEW t \in Tokens, CheckToken(r, t)
      PROVE JoinTypeOK' /\ RequestInv'
  BY <1>2 DEF CheckToken
<1>3. ASSUME NEW r \in Joins, CountUse(r) PROVE JoinTypeOK' /\ RequestInv'
  BY <1>3 DEF CountUse, Incremented
<1>4. ASSUME NEW r \in Joins, RegisterRuntime(r) PROVE JoinTypeOK' /\ RequestInv'
  BY <1>4 DEF RegisterRuntime
<1>5. ASSUME NEW r \in Joins, AbandonJoin(r) PROVE JoinTypeOK' /\ RequestInv'
  BY <1>5 DEF AbandonJoin
<1>6. ASSUME NEW r \in Joins, NEW s \in Statuses, Heartbeat(r, s)
      PROVE JoinTypeOK' /\ RequestInv'
  BY <1>6 DEF Heartbeat
<1>7. CASE UNCHANGED joinVars
  BY <1>7 DEF joinVars
<1> QED BY <1>1, <1>2, <1>3, <1>4, <1>5, <1>6, <1>7 DEF JoinNext

(***************************************************************************)
(* What the steps do to the sets of requests at a point, of every token.     *)
(***************************************************************************)

LEMMA CheckMoves ==
  ASSUME JoinTypeOK, NEW r \in Joins, NEW t \in Tokens, CheckToken(r, t), NEW u \in Tokens
  PROVE  /\ Counted(u)' = Counted(u) /\ r \notin Counted(u)
         /\ Joining(u, {"redeem"})' = IF u = t /\ Redeemable(t)
                                        THEN Joining(u, {"redeem"}) \cup {r}
                                        ELSE Joining(u, {"redeem"})
BY DEF JoinTypeOK, CheckToken, Counted, Joining

LEMMA CountMoves ==
  ASSUME JoinTypeOK, NEW r \in Joins, CountUse(r), NEW u \in Tokens
  PROVE  /\ r \in Joining(presented[r], {"redeem"}) /\ r \notin Counted(u)
         /\ u = presented[r] => /\ Counted(u)' = Counted(u) \cup {r}
                                /\ Joining(u, {"redeem"})' = Joining(u, {"redeem"}) \ {r}
         /\ u # presented[r] => /\ Counted(u)' = Counted(u)
                                /\ Joining(u, {"redeem"})' = Joining(u, {"redeem"})
BY DEF JoinTypeOK, CountUse, Counted, Joining

LEMMA AbandonMoves ==
  ASSUME JoinTypeOK, NEW r \in Joins, AbandonJoin(r), NEW u \in Tokens
  PROVE  /\ Counted(u)' = Counted(u)
         /\ Joining(u, {"redeem"})' = IF u = presented[r] THEN Joining(u, {"redeem"}) \ {r}
                                                         ELSE Joining(u, {"redeem"})
         /\ r \in Joining(presented[r], {"redeem"}) \/ r \notin Joining(u, {"redeem"})
BY DEF JoinTypeOK, AbandonJoin, Counted, Joining

\* A step that is none of these three moves no request into or out of the sets.
LEMMA OthersMoveNothing ==
  ASSUME JoinTypeOK, [JoinNext]_joinVars, NEW u \in Tokens
  PROVE  \/ \E r \in Joins, t \in Tokens : CheckToken(r, t)
         \/ \E r \in Joins : CountUse(r) \/ AbandonJoin(r)
         \/ /\ Counted(u)' = Counted(u)
            /\ Joining(u, {"redeem"})' = Joining(u, {"redeem"})
            /\ uses' = uses
<1> USE DEF JoinTypeOK, Counted, Joining, tokenRows
<1>1. ASSUME NEW t \in Tokens, MintJoinToken(t) \/ Lapse(t)
      PROVE joining' = joining /\ presented' = presented /\ uses' = uses
  BY <1>1 DEF MintJoinToken, Lapse
<1>2. ASSUME NEW r \in Joins, RegisterRuntime(r)
      PROVE  /\ Counted(u)' = Counted(u) /\ uses' = uses
             /\ Joining(u, {"redeem"})' = Joining(u, {"redeem"})
  BY <1>2 DEF RegisterRuntime
<1>3. ASSUME NEW r \in Joins, NEW s \in Statuses, Heartbeat(r, s)
      PROVE joining' = joining /\ presented' = presented /\ uses' = uses
  BY <1>3 DEF Heartbeat
<1>4. CASE UNCHANGED joinVars
  BY <1>4 DEF joinVars
<1> QED BY <1>1, <1>2, <1>3, <1>4 DEF JoinNext

-----------------------------------------------------------------------------

LEMMA JoinStepInv ==
  ASSUME JoinInv, [JoinNext]_joinVars
  PROVE  JoinInv'
<1>1. JoinTypeOK /\ RequestInv /\ UsesInv /\ JoinTypeOK' /\ RequestInv'
  BY RequestStep DEF JoinInv
<1>2. ASSUME NEW u \in Tokens PROVE uses'[u] = Cardinality(Counted(u)')
  <2>0. /\ IsFiniteSet(Counted(u)) /\ Cardinality(Counted(u)) \in Nat
        /\ uses[u] = Cardinality(Counted(u))
    BY <1>1, CountedFinite DEF UsesInv, JoinTypeOK
  <2>1. ASSUME NEW r \in Joins, NEW t \in Tokens, CheckToken(r, t)
        PROVE uses'[u] = Cardinality(Counted(u)')
    <3>1. Counted(u)' = Counted(u) /\ uses' = uses
      BY <1>1, <2>1, CheckMoves DEF CheckToken
    <3> QED BY <2>0, <3>1
  <2>2. ASSUME NEW r \in Joins, CountUse(r) PROVE uses'[u] = Cardinality(Counted(u)')
    <3>1. presented[r] \in Tokens
      BY <1>1, <2>2 DEF RequestInv, CountUse
    <3>2. CASE u = presented[r]
      <4>1. Counted(u)' = Counted(u) \cup {r} /\ r \notin Counted(u)
        BY <1>1, <2>2, <3>2, CountMoves
      <4>2. Cardinality(Counted(u)') = Cardinality(Counted(u)) + 1
        BY <2>0, <4>1, FS_AddElement
      <4>3. uses'[u] = uses[u] + 1
        BY <1>1, <2>2, <3>2 DEF CountUse, Incremented, JoinTypeOK
      <4> QED BY <2>0, <4>2, <4>3
    <3>3. CASE u # presented[r]
      <4>1. Counted(u)' = Counted(u)
        BY <1>1, <2>2, <3>3, CountMoves
      <4>2. uses'[u] = uses[u]
        BY <1>1, <2>2, <3>3 DEF CountUse, JoinTypeOK
      <4> QED BY <2>0, <4>1, <4>2
    <3> QED BY <3>2, <3>3
  <2>3. ASSUME NEW r \in Joins, AbandonJoin(r) PROVE uses'[u] = Cardinality(Counted(u)')
    <3>1. Counted(u)' = Counted(u) /\ uses' = uses
      BY <1>1, <2>3, AbandonMoves DEF AbandonJoin
    <3> QED BY <2>0, <3>1
  <2>4. CASE Counted(u)' = Counted(u) /\ uses' = uses
    BY <2>0, <2>4
  <2> QED BY <1>1, <2>1, <2>2, <2>3, <2>4, OthersMoveNothing
<1> QED BY <1>1, <1>2 DEF JoinInv, UsesInv

\* The inductive invariant of tokens, requests and runtimes.
THEOREM JoinInvariance == JoinSpec => []JoinInv
BY JoinInitInv, JoinStepInv, PTL DEF JoinSpec

\* Types are kept.
THEOREM JoinTypesKept == JoinSpec => []JoinTypeOK
<1>1. JoinInv => JoinTypeOK
  BY DEF JoinInv
<1> QED BY <1>1, JoinInvariance, PTL

\* Every runtime has a counted use of its own, for any number of overlapping requests.
THEOREM RuntimesAreAccounted == JoinSpec => []RuntimesAccounted
<1>1. JoinInv => RuntimesAccounted
  BY DEF JoinInv, JoinTypeOK, RequestInv, UsesInv, RuntimesAccounted, JoinedWith, Counted, Joining
<1> QED BY <1>1, JoinInvariance, PTL

-----------------------------------------------------------------------------
(* Refinement: the SELECT admits, the UPDATE grants. *)

Admitted == [t \in Tokens |-> Joining(t, {"redeem"})]
Granted  == [t \in Tokens |-> Counted(t)]
Limits   == [t \in Tokens |-> MaxUses(t)]

LEMMA JoinRefinesInit == JoinInit => TokenRules!Init
BY DEF JoinInit, TokenRules!Init, Joining, Counted

LEMMA JoinRefinesStep ==
  ASSUME JoinInv, [JoinNext]_joinVars
  PROVE  [TokenRules!Next]_(TokenRules!tokenVars)
<1> USE DEF JoinInv
<1>1. ASSUME NEW r \in Joins, NEW t \in Tokens, CheckToken(r, t)
      PROVE [TokenRules!Next]_(TokenRules!tokenVars)
  <2>1. /\ Granted' = Granted /\ r \notin Granted[t]
        /\ Admitted' = IF Redeemable(t) THEN [Admitted EXCEPT ![t] = @ \cup {r}] ELSE Admitted
    BY <1>1, CheckMoves DEF Admitted, Granted
  <2>2. CASE Redeemable(t)
    <3>1. Cardinality(Granted[t]) < Limits[t]
      <4>1. /\ Cardinality(Counted(t)) <= uses[t] /\ Cardinality(Counted(t)) \in Nat
            /\ uses[t] \in Nat /\ MaxUses(t) \in Int
        BY CountedFinite, JoinAssumption DEF UsesInv, JoinTypeOK, MaxUses
      <4> QED BY <2>2, <4>1 DEF Redeemable, Granted, Limits
    <3>2. TokenRules!Cardinality(Granted[t]) = Cardinality(Granted[t])
      BY DEF TokenRules!Cardinality, Cardinality
    <3>3. TokenRules!Admit(r, t)
      BY <2>1, <2>2, <3>1, <3>2 DEF TokenRules!Admit, Admitted, Granted, Limits
    <3> QED BY <3>3 DEF TokenRules!Next
  <2>3. CASE ~Redeemable(t)
    BY <2>1, <2>3 DEF TokenRules!tokenVars, Admitted, Granted
  <2> QED BY <2>2, <2>3
<1>2. ASSUME NEW r \in Joins, CountUse(r) PROVE [TokenRules!Next]_(TokenRules!tokenVars)
  <2> DEFINE t == presented[r]
  <2>1. t \in Tokens
    BY <1>2 DEF RequestInv, CountUse
  <2>2. /\ r \in Admitted[t]
        /\ Admitted' = [Admitted EXCEPT ![t] = @ \ {r}]
        /\ Granted' = [Granted EXCEPT ![t] = @ \cup {r}]
    BY <1>2, <2>1, CountMoves DEF Admitted, Granted
  <2>3. TokenRules!Grant(r, t)
    BY <2>2 DEF TokenRules!Grant, Admitted, Granted
  <2> QED BY <2>1, <2>3 DEF TokenRules!Next
<1>3. ASSUME NEW r \in Joins, AbandonJoin(r) PROVE [TokenRules!Next]_(TokenRules!tokenVars)
  <2> DEFINE t == presented[r]
  <2>1. t \in Tokens
    BY <1>3 DEF RequestInv, AbandonJoin
  <2>2. Granted' = Granted /\ Admitted' = [Admitted EXCEPT ![t] = @ \ {r}]
    BY <1>3, <2>1, AbandonMoves DEF Admitted, Granted
  <2>3. CASE r \in Admitted[t]
    <3>1. TokenRules!Abandon(r, t)
      BY <2>2, <2>3 DEF TokenRules!Abandon, Admitted, Granted
    <3> QED BY <2>1, <3>1 DEF TokenRules!Next
  <2>4. CASE r \notin Admitted[t]
    <3>1. Admitted' = Admitted
      BY <2>1, <2>2, <2>4 DEF Admitted
    <3> QED BY <2>2, <3>1 DEF TokenRules!tokenVars, Admitted, Granted
  <2> QED BY <2>3, <2>4
<1>4. CASE \A u \in Tokens : /\ Counted(u)' = Counted(u)
                             /\ Joining(u, {"redeem"})' = Joining(u, {"redeem"})
  BY <1>4 DEF TokenRules!tokenVars
<1> QED BY <1>1, <1>2, <1>3, <1>4, OthersMoveNothing

\* JoinTokens implements TokenUse, for any number of tokens, uses and requests.
THEOREM JoinImplementation == JoinSpec => ExhaustedTokensAreRefused
BY JoinRefinesInit, JoinRefinesStep, JoinInvariance, PTL
DEF JoinSpec, ExhaustedTokensAreRefused, TokenRules!Spec

(***************************************************************************)
(* What TokenUse promises in numbers (TokenUseProofs), said of the column.   *)
(***************************************************************************)

Uses ==
  INSTANCE TokenUseProofs WITH
    Requests <- Joins,
    Limit <- [t \in Tokens |-> MaxUses(t)],
    admitted <- [t \in Tokens |-> Joining(t, {"redeem"})],
    granted <- [t \in Tokens |-> Counted(t)]

\* TokenRules and Uses instantiate the same module and say the same.
LEMMA SameRules == TokenRules!Spec => Uses!Spec
<1>1. TokenRules!Init => Uses!Init
  BY DEF TokenRules!Init, Uses!Init
<1>2. ASSUME NEW r \in Joins, NEW t \in Tokens, TokenRules!Admit(r, t) PROVE Uses!Admit(r, t)
  <2>1. TokenRules!Cardinality(Granted[t]) = Uses!Cardinality(Granted[t])
    BY DEF TokenRules!Cardinality, Uses!Cardinality
  <2> QED BY <1>2, <2>1 DEF TokenRules!Admit, Uses!Admit, Granted
<1>3. ASSUME NEW r \in Joins, NEW t \in Tokens,
             TokenRules!Grant(r, t) \/ TokenRules!Abandon(r, t)
      PROVE  Uses!Grant(r, t) \/ Uses!Abandon(r, t)
  BY <1>3 DEF TokenRules!Grant, Uses!Grant, TokenRules!Abandon, Uses!Abandon
<1>4. [TokenRules!Next]_(TokenRules!tokenVars) => [Uses!Next]_(Uses!tokenVars)
  BY <1>2, <1>3 DEF TokenRules!Next, Uses!Next, TokenRules!tokenVars, Uses!tokenVars
<1> QED BY <1>1, <1>4, PTL DEF TokenRules!Spec, Uses!Spec

\* Never more than k redemptions of a token are between the SELECT and the UPDATE.
RedemptionsOverlap(k) == \A t \in Tokens : Cardinality(Joining(t, {"redeem"})) <= k

UsesWithin(k) == \A t \in Tokens : uses[t] <= MaxUses(t) + k - 1

\* RedeemJoinToken counts at most k - 1 uses beyond max_uses while no more than k
\* redemptions of a token overlap, whatever else happens; one at a time, the limit is kept.
THEOREM UsesBounded ==
  ASSUME NEW k \in Nat \ {0}
  PROVE  JoinSpec /\ []RedemptionsOverlap(k) => []UsesWithin(k)
<1>1. Limits \in [Tokens -> Nat]
  BY JoinAssumption DEF Limits, MaxUses
<1>2. Uses!Spec /\ []Uses!OverlapWithin(k) => []Uses!GrantedWithin(k)
  BY <1>1, Uses!GrantsBounded DEF Limits
<1>3. RedemptionsOverlap(k) => Uses!OverlapWithin(k)
  <2> SUFFICES ASSUME RedemptionsOverlap(k), NEW t \in Tokens
               PROVE  Uses!Cardinality(Admitted[t]) <= k
    BY DEF Uses!OverlapWithin, Admitted
  <2>1. Uses!Cardinality(Admitted[t]) = Cardinality(Admitted[t])
    BY DEF Uses!Cardinality, Cardinality
  <2> QED BY <2>1 DEF RedemptionsOverlap, Admitted
<1>4. JoinInv /\ Uses!GrantedWithin(k) => UsesWithin(k)
  <2> SUFFICES ASSUME JoinInv, Uses!GrantedWithin(k), NEW t \in Tokens
               PROVE  uses[t] <= MaxUses(t) + k - 1
    BY DEF UsesWithin
  <2>1. Uses!Cardinality(Granted[t]) = Cardinality(Granted[t])
    BY DEF Uses!Cardinality, Cardinality
  <2>2. Uses!Cardinality(Granted[t]) <= Limits[t] + k - 1
    BY DEF Uses!GrantedWithin, Granted, Limits
  <2>3. Granted[t] = Counted(t) /\ Limits[t] = MaxUses(t)
    BY DEF Granted, Limits
  <2> QED BY <2>1, <2>2, <2>3 DEF JoinInv, UsesInv
<1> QED BY <1>2, <1>3, <1>4, SameRules, JoinImplementation, JoinInvariance, PTL
        DEF ExhaustedTokensAreRefused

-----------------------------------------------------------------------------
(***************************************************************************)
(* SecretKey: what was encrypted stays readable.                             *)
(***************************************************************************)

\* What the environment settles: with a key in it the file is never used.
EnvInv ==
  IF env = EnvKey THEN key \in {EnvKey, NoKey} /\ saved = {}
                  ELSE key # EnvKey /\ \A p \in Providers : sealed[p] # EnvKey

\* While no read has failed, what is on disk is the one key that ever was saved, and
\* a process that runs after that has it.
FileInv ==
  ~misread =>
    /\ saved \subseteq {file}
    /\ env # EnvKey /\ key # NoKey /\ file \in Keys => key = file

SecretInv == SecretTypeOK /\ EnvInv /\ FileInv

LEMMA SecretInitInv == SecretInit => SecretInv
BY SecretAssumption DEF SecretInit, SecretInv, SecretTypeOK, EnvInv, FileInv

LEMMA SecretStepInv ==
  ASSUME SecretInv, [SecretNext]_secretVars
  PROVE  SecretInv'
<1> USE SecretAssumption DEF SecretInv, SecretTypeOK, EnvInv, FileInv
<1>1. CASE UseEnvironment
  BY <1>1 DEF UseEnvironment
<1>2. CASE UseFile
  BY <1>2 DEF UseFile
<1>3. ASSUME NEW k \in Keys, CreateKey(k) PROVE SecretInv'
  <2>1. CASE misread'
    BY <1>3, <2>1 DEF CreateKey, FindsNoKey
  <2>2. CASE ~misread'
    <3>1. ~misread /\ file \notin Keys
      BY <1>3, <2>2 DEF CreateKey, FindsNoKey
    <3>2. saved = {}
      BY <3>1
    <3>3. /\ env = NoKey /\ env' = NoKey /\ sealed' = sealed /\ drawn' = drawn \cup {k}
          /\ key' \in {k, NoKey} /\ misread' \in BOOLEAN
          /\ \/ file' = k /\ saved' = {k} /\ key' = k
             \/ file' = file /\ saved' = {} /\ key' = k
             \/ file' = "torn" /\ saved' = {} /\ key' = NoKey
      BY <1>3, <3>1, <3>2 DEF CreateKey, FindsNoKey
    <3>4. file' \in Keys \cup {"absent", "torn"}
      BY <3>3
    <3>5. SecretTypeOK' /\ EnvInv'
      <4>1. drawn' \subseteq Keys /\ saved' \subseteq drawn'
        BY <3>2, <3>3
      <4>2. env # EnvKey /\ key' # EnvKey
        BY <3>3
      <4>3. SecretTypeOK'
        BY <3>3, <3>4, <4>1
      <4>4. EnvInv'
        BY <3>3, <4>2
      <4> QED BY <4>3, <4>4
    <3>6. FileInv'
      BY <3>1, <3>3
    <3> QED BY <3>5, <3>6
  <2> QED BY <2>1, <2>2
<1>4. ASSUME NEW p \in Providers, SetProviderCredential(p) PROVE SecretInv'
  BY <1>4 DEF SetProviderCredential
<1>5. CASE Stop
  BY <1>5 DEF Stop
<1>6. CASE UNCHANGED secretVars
  BY <1>6 DEF secretVars
<1> QED BY <1>1, <1>2, <1>3, <1>4, <1>5, <1>6 DEF SecretNext

\* The inductive invariant of the key, on disk and in the process.
THEOREM SecretInvariance == SecretSpec => []SecretInv
BY SecretInitInv, SecretStepInv, PTL DEF SecretSpec

\* Types are kept, and no key is on disk that was not drawn.
THEOREM SecretTypesKept == SecretSpec => []SecretTypeOK
<1>1. SecretInv => SecretTypeOK
  BY DEF SecretInv
<1> QED BY <1>1, SecretInvariance, PTL

\* What was sealed with the environment's key, or with one that reached the disk whole,
\* is readable in every later process, while no read of the file fails.
THEOREM CredentialsAreReadable == SecretSpec => []CredentialsStayReadable
<1>1. SecretInv => CredentialsStayReadable
  BY SecretAssumption
  DEF SecretInv, SecretTypeOK, EnvInv, FileInv, CredentialsStayReadable, Readable
<1> QED BY <1>1, SecretInvariance, PTL
=============================================================================
