--------------------------- MODULE TokenUseProofs ---------------------------
(***************************************************************************)
(* What TokenUse comes to in numbers, for any tokens, requests and limits.   *)
(* No request is admitted once the limit is on record, but those admitted    *)
(* before that count on: a token may be granted beyond its limit, and by how  *)
(* much depends on how many requests are between its two statements at once. *)
(***************************************************************************)
EXTENDS TokenUse, FiniteSetTheorems, TLAPS

UseTypeOK ==
  /\ admitted \in [Tokens -> SUBSET Requests]
  /\ granted \in [Tokens -> SUBSET Requests]
  /\ \A t \in Tokens : IsFiniteSet(admitted[t]) /\ IsFiniteSet(granted[t])

\* Never more than k requests of a token are between its two statements.
OverlapWithin(k) == \A t \in Tokens : Cardinality(admitted[t]) <= k

Accounted(k) ==
  \A t \in Tokens : Cardinality(admitted[t]) + Cardinality(granted[t]) <= Limit[t] + k - 1

GrantedWithin(k) == \A t \in Tokens : Cardinality(granted[t]) <= Limit[t] + k - 1

LEMMA UseTypesStep ==
  ASSUME UseTypeOK, [Next]_tokenVars
  PROVE  UseTypeOK'
<1> USE DEF UseTypeOK
<1>1. ASSUME NEW r \in Requests, NEW t \in Tokens, Admit(r, t) PROVE UseTypeOK'
  <2>1. IsFiniteSet(admitted[t] \cup {r})
    BY FS_AddElement
  <2> QED BY <1>1, <2>1 DEF Admit
<1>2. ASSUME NEW r \in Requests, NEW t \in Tokens, Grant(r, t) PROVE UseTypeOK'
  <2>1. IsFiniteSet(granted[t] \cup {r}) /\ IsFiniteSet(admitted[t] \ {r})
    BY FS_AddElement, FS_RemoveElement
  <2> QED BY <1>2, <2>1 DEF Grant
<1>3. ASSUME NEW r \in Requests, NEW t \in Tokens, Abandon(r, t) PROVE UseTypeOK'
  <2>1. IsFiniteSet(admitted[t] \ {r})
    BY FS_RemoveElement
  <2> QED BY <1>3, <2>1 DEF Abandon
<1>4. CASE UNCHANGED tokenVars
  BY <1>4 DEF tokenVars
<1> QED BY <1>1, <1>2, <1>3, <1>4 DEF Next

\* What one step does to the two numbers of a token.
LEMMA StepNumbers ==
  ASSUME UseTypeOK, [Next]_tokenVars, NEW u \in Tokens
  PROVE  LET a == Cardinality(admitted[u])   g == Cardinality(granted[u])
         IN  /\ a \in Nat /\ g \in Nat /\ Cardinality(admitted'[u]) \in Nat
             /\ Cardinality(granted'[u]) \in Nat
             /\ \/ Cardinality(admitted'[u]) + Cardinality(granted'[u]) <= a + g
                \/ Cardinality(granted'[u]) = g /\ g < Limit[u]
<1> DEFINE a == Cardinality(admitted[u])
           g == Cardinality(granted[u])
<1>1. UseTypeOK'
  BY UseTypesStep
<1>2. /\ IsFiniteSet(admitted[u]) /\ IsFiniteSet(granted[u])
      /\ a \in Nat /\ g \in Nat
      /\ Cardinality(admitted'[u]) \in Nat /\ Cardinality(granted'[u]) \in Nat
  BY <1>1, FS_CardinalityType DEF UseTypeOK
<1>3. ASSUME NEW r \in Requests, NEW t \in Tokens, Admit(r, t)
      PROVE  \/ Cardinality(admitted'[u]) + Cardinality(granted'[u]) <= a + g
             \/ Cardinality(granted'[u]) = g /\ g < Limit[u]
  <2>1. CASE t = u
    BY <1>3, <2>1 DEF Admit
  <2>2. CASE t # u
    <3>1. admitted'[u] = admitted[u] /\ granted'[u] = granted[u]
      BY <1>3, <2>2 DEF Admit, UseTypeOK
    <3> QED BY <1>2, <3>1
  <2> QED BY <2>1, <2>2
<1>4. ASSUME NEW r \in Requests, NEW t \in Tokens, Grant(r, t)
      PROVE  Cardinality(admitted'[u]) + Cardinality(granted'[u]) <= a + g
  <2>1. CASE t = u
    <3>1. /\ r \in admitted[u] /\ admitted'[u] = admitted[u] \ {r}
          /\ granted'[u] = granted[u] \cup {r}
      BY <1>4, <2>1 DEF Grant, UseTypeOK
    <3>2. Cardinality(admitted'[u]) = a - 1
      <4>1. Cardinality(admitted[u] \ {r}) = Cardinality(admitted[u]) - 1
        BY <1>2, <3>1, FS_RemoveElement
      <4> QED BY <3>1, <4>1
    <3>3. Cardinality(granted'[u]) = g \/ Cardinality(granted'[u]) = g + 1
      <4>1. \/ Cardinality(granted[u] \cup {r}) = Cardinality(granted[u])
            \/ Cardinality(granted[u] \cup {r}) = Cardinality(granted[u]) + 1
        BY <1>2, FS_AddElement
      <4> QED BY <3>1, <4>1
    <3> HIDE DEF a, g
    <3> QED BY <1>2, <3>2, <3>3
  <2>2. CASE t # u
    <3>1. admitted'[u] = admitted[u] /\ granted'[u] = granted[u]
      BY <1>4, <2>2 DEF Grant, UseTypeOK
    <3> QED BY <1>2, <3>1
  <2> QED BY <2>1, <2>2
<1>5. ASSUME NEW r \in Requests, NEW t \in Tokens, Abandon(r, t)
      PROVE  Cardinality(admitted'[u]) + Cardinality(granted'[u]) <= a + g
  <2>1. CASE t = u
    <3>1. /\ r \in admitted[u] /\ admitted'[u] = admitted[u] \ {r}
          /\ granted'[u] = granted[u]
      BY <1>5, <2>1 DEF Abandon, UseTypeOK
    <3>2. Cardinality(admitted'[u]) = a - 1
      <4>1. Cardinality(admitted[u] \ {r}) = Cardinality(admitted[u]) - 1
        BY <1>2, <3>1, FS_RemoveElement
      <4> QED BY <3>1, <4>1
    <3> QED BY <1>2, <3>1, <3>2
  <2>2. CASE t # u
    <3>1. admitted'[u] = admitted[u] /\ granted'[u] = granted[u]
      BY <1>5, <2>2 DEF Abandon, UseTypeOK
    <3> QED BY <1>2, <3>1
  <2> QED BY <2>1, <2>2
<1>6. CASE UNCHANGED tokenVars
  <2>1. admitted'[u] = admitted[u] /\ granted'[u] = granted[u]
    BY <1>6 DEF tokenVars
  <2> QED BY <1>2, <2>1
<1> QED BY <1>2, <1>3, <1>4, <1>5, <1>6 DEF Next

LEMMA AccountedStep ==
  ASSUME Limit \in [Tokens -> Nat], NEW k \in Nat \ {0},
         UseTypeOK, Accounted(k), OverlapWithin(k)', [Next]_tokenVars
  PROVE  Accounted(k)'
<1> SUFFICES ASSUME NEW u \in Tokens
             PROVE  Cardinality(admitted'[u]) + Cardinality(granted'[u]) <= Limit[u] + k - 1
  BY DEF Accounted
<1> DEFINE a == Cardinality(admitted[u])
           g == Cardinality(granted[u])
           b == Cardinality(admitted'[u])
           h == Cardinality(granted'[u])
<1>1. /\ a \in Nat /\ g \in Nat /\ b \in Nat /\ h \in Nat
      /\ \/ b + h <= a + g
         \/ h = g /\ g < Limit[u]
  BY StepNumbers
<1>2. a + g <= Limit[u] + k - 1 /\ b <= k /\ Limit[u] \in Nat
  BY DEF Accounted, OverlapWithin
<1> HIDE DEF a, g, b, h
<1>3. b + h <= Limit[u] + k - 1
  BY <1>1, <1>2
<1> QED BY <1>3 DEF b, h

\* A token is granted at most k - 1 requests beyond its limit while no more than k of its
\* requests overlap; with k = 1, where they do not, the limit is kept.
THEOREM GrantsBounded ==
  ASSUME Limit \in [Tokens -> Nat], NEW k \in Nat \ {0}
  PROVE  Spec /\ []OverlapWithin(k) => []GrantedWithin(k)
<1>1. Init => UseTypeOK /\ Accounted(k)
  <2> SUFFICES ASSUME Init PROVE UseTypeOK /\ Accounted(k)
    OBVIOUS
  <2>1. UseTypeOK
    BY FS_EmptySet DEF Init, UseTypeOK
  <2>2. ASSUME NEW t \in Tokens
        PROVE  Cardinality(admitted[t]) + Cardinality(granted[t]) <= Limit[t] + k - 1
    <3>1. Cardinality(admitted[t]) = 0 /\ Cardinality(granted[t]) = 0
      BY FS_EmptySet DEF Init
    <3> QED BY <3>1
  <2> QED BY <2>1, <2>2 DEF Accounted
<1>2. UseTypeOK /\ Accounted(k) /\ OverlapWithin(k)' /\ [Next]_tokenVars
        => (UseTypeOK /\ Accounted(k))'
  BY UseTypesStep, AccountedStep
<1>3. UseTypeOK /\ Accounted(k) => GrantedWithin(k)
  <2> SUFFICES ASSUME UseTypeOK, Accounted(k), NEW t \in Tokens
               PROVE  Cardinality(granted[t]) <= Limit[t] + k - 1
    BY DEF GrantedWithin
  <2>1. Cardinality(admitted[t]) \in Nat /\ Cardinality(granted[t]) \in Nat
    BY FS_CardinalityType DEF UseTypeOK
  <2> QED BY <2>1 DEF Accounted
<1> QED BY <1>1, <1>2, <1>3, PTL DEF Spec
=============================================================================
