--------------------------- MODULE RuntimeProofs ---------------------------
(***************************************************************************)
(* Proofs about components that share nothing with one another: the log      *)
(* ring, the rate limiter and the stream of lines, for any limits, any       *)
(* bytes, any addresses and anything a command may print.                    *)
(***************************************************************************)
EXTENDS LogRing, RateLimiter, LineStream, SequenceTheorems, TLAPS

(***************************************************************************)
(* LogRing.  However the output is cut into writes, the buffer is its end.   *)
(***************************************************************************)

RingInv == RingTypeOK /\ KeepsLatest

\* What Latest returns: the last n elements.
LEMMA LatestElements ==
  ASSUME NEW s \in Seq(Bytes), NEW n \in 0 .. Len(s)
  PROVE  /\ Latest(s, n) \in Seq(Bytes)
         /\ Len(Latest(s, n)) = n
         /\ \A i \in 1 .. n : Latest(s, n)[i] = s[Len(s) - n + i]
<1>1. \A i \in Len(s) - n + 1 .. Len(s) : s[i] \in Bytes
  OBVIOUS
<1> QED BY <1>1 DEF Latest

\* Trimming what is left of s together with p is trimming s and p.
LEMMA LatestOfConcatenation ==
  ASSUME NEW s \in Seq(Bytes), NEW p \in Seq(Bytes), NEW n \in 0 .. Len(s)
  PROVE  Latest(Latest(s, n) \o p, n) = Latest(s \o p, n)
<1> DEFINE t == Latest(s, n)
           u == t \o p
           v == s \o p
<1>1. t \in Seq(Bytes) /\ Len(t) = n /\ \A i \in 1 .. n : t[i] = s[Len(s) - n + i]
  BY LatestElements
<1> HIDE DEF t
<1>2. u \in Seq(Bytes) /\ Len(u) = n + Len(p)
  BY <1>1, ConcatProperties
<1>3. v \in Seq(Bytes) /\ Len(v) = Len(s) + Len(p)
  BY ConcatProperties
<1>0. Len(p) \in Nat /\ Len(s) \in Nat /\ n \in Nat
  OBVIOUS
<1>4. ASSUME NEW i \in 1 .. n PROVE u[Len(u) - n + i] = v[Len(v) - n + i]
  <2>1. CASE Len(p) + i <= n
    <3>1. u[Len(p) + i] = t[Len(p) + i]
      BY <1>1, <2>1
    <3>2. v[Len(s) + Len(p) - n + i] = s[Len(s) + Len(p) - n + i]
      BY <2>1
    <3> QED BY <1>1, <1>2, <1>3, <2>1, <3>1, <3>2
  <2>2. CASE Len(p) + i > n
    <3>1. u[Len(p) + i] = p[Len(p) + i - n]
      BY <1>1, <2>2
    <3>2. v[Len(s) + Len(p) - n + i] = p[Len(p) + i - n]
      BY <2>2
    <3> QED BY <1>2, <1>3, <3>1, <3>2
  <2>3. Len(p) + i <= n \/ Len(p) + i > n
    BY <1>0
  <2> HIDE DEF u, v
  <2> QED BY <2>1, <2>2, <2>3
<1> HIDE DEF u, v
<1>5. n \in 0 .. Len(u) /\ n \in 0 .. Len(v)
  BY <1>1, <1>2, <1>3
<1>6. /\ Latest(u, n) \in Seq(Bytes) /\ Len(Latest(u, n)) = n
      /\ Latest(v, n) \in Seq(Bytes) /\ Len(Latest(v, n)) = n
      /\ \A i \in 1 .. n : Latest(u, n)[i] = Latest(v, n)[i]
  BY <1>2, <1>3, <1>4, <1>5, LatestElements
<1>7. Latest(u, n) = Latest(v, n)
  BY <1>6, SeqEqual
<1> QED BY <1>7 DEF t, u, v

LEMMA WriteStep ==
  ASSUME RingInv, NEW n \in 0 .. MaxWritten, NEW p \in [1..n -> Bytes], RingWrite(p)
  PROVE  RingInv'
<1> USE RingAssumption
<1>1. p \in Seq(Bytes) /\ Len(p) = n
  OBVIOUS
<1>2. buf \in Seq(Bytes) /\ written \in Seq(Bytes)
  BY DEF RingInv, RingTypeOK
<1>3. buf' = Trimmed(buf \o p) /\ written' = written \o p
  BY DEF RingWrite
<1>4. written' \in Seq(Bytes) /\ Len(written') = Len(written) + n
  BY <1>1, <1>2, <1>3, ConcatProperties
<1>5. CASE Len(written) <= RingLimit
  <2>1. buf = written
    BY <1>2, <1>5 DEF RingInv, KeepsLatest
  <2>2. buf' = Trimmed(written')
    BY <1>3, <2>1
  <2>3. buf' \in Seq(Bytes)
    BY <1>4, <2>2, LatestElements DEF Trimmed
  <2> QED BY <1>4, <2>2, <2>3 DEF RingInv, RingTypeOK, KeepsLatest, Trimmed
<1>6. CASE Len(written) > RingLimit
  <2>1. buf = Latest(written, RingLimit) /\ Len(buf) = RingLimit
    BY <1>2, <1>6, LatestElements DEF RingInv, KeepsLatest
  <2>2. Latest(buf \o p, RingLimit) = Latest(written', RingLimit)
    BY <1>1, <1>2, <1>3, <1>6, <2>1, LatestOfConcatenation
  <2>3. buf' = Latest(buf \o p, RingLimit)
    <3>1. CASE n = 0
      <4>1. buf \o p = buf /\ Len(buf) = RingLimit
        BY <1>1, <1>2, <2>1, <3>1
      <4>2. Latest(buf, RingLimit) = buf
        BY <1>2, <2>1 DEF Latest
      <4> QED BY <1>3, <4>1, <4>2 DEF Trimmed
    <3>2. CASE n > 0
      <4>1. Len(buf \o p) > RingLimit
        BY <1>1, <1>2, <2>1, <3>2
      <4> QED BY <1>3, <4>1 DEF Trimmed
    <3> QED BY <3>1, <3>2
  <2>4. Latest(written', RingLimit) \in Seq(Bytes)
    BY <1>4, <1>6, LatestElements
  <2> QED BY <1>4, <1>6, <2>2, <2>3, <2>4 DEF RingInv, RingTypeOK, KeepsLatest
<1> QED BY <1>2, <1>5, <1>6

\* The buffer and all that was written: types, and what the buffer holds.
THEOREM RingInvariance == RingSpec => []RingInv
<1>1. RingInit => RingInv
  BY RingAssumption DEF RingInit, RingInv, RingTypeOK, KeepsLatest
<1>2. RingInv /\ [RingNext]_ringVars => RingInv'
  <2> SUFFICES ASSUME RingInv, [RingNext]_ringVars PROVE RingInv'
    OBVIOUS
  <2>1. CASE RingNext
    BY <2>1, WriteStep DEF RingNext
  <2>2. CASE UNCHANGED ringVars
    BY <2>2 DEF ringVars, RingInv, RingTypeOK, KeepsLatest
  <2> QED BY <2>1, <2>2
<1> QED BY <1>1, <1>2, PTL DEF RingSpec

\* The ring holds the end of the output, for every limit and every sequence of writes.
THEOREM TheRingKeepsTheLatest == RingSpec => []KeepsLatest
<1>1. RingInv => KeepsLatest
  BY DEF RingInv
<1> QED BY <1>1, RingInvariance, PTL

-----------------------------------------------------------------------------
(***************************************************************************)
(* RateLimiter.  Count back from the last request an address was granted:    *)
(* the window counts the first ones, those before it are older than its      *)
(* opening (up to Lag), and those beyond Limit more are older by a Window.   *)
(***************************************************************************)

InWindow(a) == hits[a].count <= Len(admitted[a])

Past(a) ==
  /\ hits[a].reset <= now + Window
  /\ \A i \in 1 .. Len(admitted[a]) : admitted[a][i] <= now

Before(a) ==
  hits[a] # NoWindow =>
    \A i \in 1 .. Len(admitted[a]) - hits[a].count :
      admitted[a][i] + Window <= hits[a].reset + Lag

LongBefore(a) ==
  \A i \in 1 .. Len(admitted[a]) - hits[a].count - Limit :
    admitted[a][i] + Window < now + Lag

Inside(a) ==
  \A i \in 1 .. Len(admitted[a]) :
    i > Len(admitted[a]) - hits[a].count => hits[a].reset <= admitted[a][i] + Window

Apart(a) ==
  \A i \in 1 .. Len(admitted[a]) - 2 * Limit :
    admitted[a][i] + Window < admitted[a][i + 2 * Limit] + Lag

AddressInv(a) ==
  InWindow(a) /\ Past(a) /\ Before(a) /\ LongBefore(a) /\ Inside(a) /\ Apart(a)

RateInv == LimiterTypeOK /\ \A a \in Addresses : AddressInv(a)

\* What a sweep leaves of one window: the window, or nothing if it was over.
LEMMA SweptEither ==
  ASSUME NEW table, NEW t, NEW a \in Addresses
  PROVE  \/ Swept(table, t)[a] = table[a]
         \/ Over(table[a], t) /\ Swept(table, t)[a] = NoWindow
BY DEF Swept

\* A window after another address's request: as it was, or over and dropped.
LEMMA OthersWindow ==
  ASSUME LimiterTypeOK, NEW a \in Addresses, NEW t \in Times, Allow(a, t),
         NEW b \in Addresses, b # a
  PROVE  /\ admitted'[b] = admitted[b] /\ now' = now
         /\ \/ hits'[b] = hits[b]
            \/ t <= now /\ Over(hits[b], t) /\ hits'[b] = NoWindow
<1>1. admitted'[b] = admitted[b] /\ now' = now /\ t <= now
  BY DEF Allow, LimiterTypeOK
<1>2. CASE AllowCounts(a, t)
  <2>1. hits'[b] = hits[b]
    BY <1>2 DEF AllowCounts, LimiterTypeOK
  <2> QED BY <1>1, <2>1
<1>3. CASE AllowOpens(a, t)
  <2> DEFINE table == [hits EXCEPT ![a] = [count |-> 1, reset |-> t + Window]]
  <2>1. hits' = Swept(table, t) /\ table[b] = hits[b]
    BY <1>3 DEF AllowOpens, LimiterTypeOK
  <2> HIDE DEF table
  <2>2. \/ hits'[b] = hits[b]
        \/ Over(hits[b], t) /\ hits'[b] = NoWindow
    BY <2>1, SweptEither
  <2> QED BY <1>1, <2>2
<1> QED BY <1>2, <1>3 DEF Allow

\* Its own window: counted once more, or opened.
LEMMA OwnWindow ==
  ASSUME LimiterTypeOK, NEW a \in Addresses, NEW t \in Times, Allow(a, t)
  PROVE  /\ admitted'[a] = Append(admitted[a], now) /\ now' = now
         /\ t <= now /\ now <= t + Lag
         /\ \/ /\ t <= hits[a].reset /\ hits[a].count < Limit
               /\ hits'[a] = [count |-> hits[a].count + 1, reset |-> hits[a].reset]
            \/ /\ Over(hits[a], t)
               /\ hits'[a] = [count |-> 1, reset |-> t + Window]
<1>1. admitted'[a] = Append(admitted[a], now) /\ now' = now /\ t <= now /\ now <= t + Lag
  BY DEF Allow, LimiterTypeOK
<1>0. /\ hits \in [Addresses -> [count : 0..Limit, reset : Int]]
      /\ t \in Nat /\ Limit \in Nat /\ Window \in Nat \ {0}
  BY LimiterAssumption DEF LimiterTypeOK, Times
<1>2. CASE AllowCounts(a, t)
  <2>1. hits'[a] = [hits[a] EXCEPT !.count = @ + 1] /\ hits[a].count < Limit
    BY <1>0, <1>2 DEF AllowCounts
  <2>2. t <= hits[a].reset
    BY <1>0, <1>2 DEF AllowCounts, Over
  <2>3. hits'[a] = [count |-> hits[a].count + 1, reset |-> hits[a].reset]
    BY <1>0, <2>1
  <2> QED BY <1>1, <2>1, <2>2, <2>3
<1>3. CASE AllowOpens(a, t)
  <2> DEFINE w == [count |-> 1, reset |-> t + Window]
             table == [hits EXCEPT ![a] = w]
  <2>1. hits' = Swept(table, t) /\ table[a] = w /\ Over(hits[a], t)
    BY <1>0, <1>3 DEF AllowOpens
  <2> HIDE DEF table
  <2>2. ~Over(w, t)
    BY <1>0 DEF Over
  <2>3. hits'[a] = w
    BY <2>1, <2>2, SweptEither
  <2> QED BY <1>1, <2>1, <2>3
<1> QED BY <1>2, <1>3 DEF Allow

LEMMA RateInitInv == LimiterInit => RateInv
<1> SUFFICES ASSUME LimiterInit PROVE RateInv
  OBVIOUS
<1> USE LimiterAssumption DEF LimiterInit
<1>1. LimiterTypeOK
  BY DEF LimiterTypeOK, NoWindow, Times
<1>2. ASSUME NEW a \in Addresses PROVE AddressInv(a)
  <2>1. admitted[a] = <<>> /\ Len(admitted[a]) = 0 /\ hits[a] = NoWindow /\ hits[a].count = 0
    BY DEF NoWindow
  <2>2. now = 0 /\ hits[a].reset = -1
    BY DEF NoWindow
  <2>3. \A m \in Nat : 1 .. 0 - m = {}
    OBVIOUS
  <2> QED BY <2>1, <2>2, <2>3
          DEF AddressInv, InWindow, Past, Before, LongBefore, Inside, Apart
<1> QED BY <1>1, <1>2 DEF RateInv

LEMMA RateTypesStep ==
  ASSUME LimiterTypeOK, [LimiterNext]_limiterVars
  PROVE  LimiterTypeOK'
<1> USE LimiterAssumption
<1>1. CASE Tick
  BY <1>1 DEF Tick, LimiterTypeOK, Times
<1>2. ASSUME NEW a \in Addresses, NEW t \in Times, Allow(a, t) PROVE LimiterTypeOK'
  <2>1. now' \in Times /\ admitted' \in [Addresses -> Seq(Times)]
    BY <1>2 DEF Allow, LimiterTypeOK
  <2>2. CASE AllowCounts(a, t)
    <3>1. hits[a] \in [count : 0..Limit, reset : Int]
      BY DEF LimiterTypeOK
    <3>2. [hits[a] EXCEPT !.count = @ + 1] \in [count : 0..Limit, reset : Int]
      BY <2>2, <3>1 DEF AllowCounts
    <3>3. hits' \in [Addresses -> [count : 0..Limit, reset : Int]]
      BY <2>2, <3>2 DEF AllowCounts, LimiterTypeOK
    <3> QED BY <2>1, <3>3 DEF LimiterTypeOK
  <2>3. CASE AllowOpens(a, t)
    <3> DEFINE table == [hits EXCEPT ![a] = [count |-> 1, reset |-> t + Window]]
    <3>1. table \in [Addresses -> [count : 0..Limit, reset : Int]]
      BY DEF LimiterTypeOK, Times
    <3>2. NoWindow \in [count : 0..Limit, reset : Int]
      BY DEF NoWindow
    <3>3. hits' = Swept(table, t)
      BY <2>3 DEF AllowOpens
    <3> HIDE DEF table
    <3>4. hits' \in [Addresses -> [count : 0..Limit, reset : Int]]
      BY <3>1, <3>2, <3>3 DEF Swept
    <3> QED BY <2>1, <3>4 DEF LimiterTypeOK
  <2> QED BY <1>2, <2>2, <2>3 DEF Allow
<1>3. CASE UNCHANGED limiterVars
  BY <1>3 DEF limiterVars, LimiterTypeOK
<1> QED BY <1>1, <1>2, <1>3 DEF LimiterNext

\* Its own request: the sequence grows by one, at the present time.
LEMMA OwnAddressStep ==
  ASSUME LimiterTypeOK, NEW a \in Addresses, AddressInv(a), NEW t \in Times, Allow(a, t)
  PROVE  AddressInv(a)'
<1> DEFINE s == admitted[a]
           r == admitted'[a]
           n == Len(s)
           k == hits[a].count
<1>0. /\ s \in Seq(Times) /\ n \in Nat /\ k \in Nat /\ k <= Limit /\ hits[a].reset \in Int
      /\ now \in Nat /\ t \in Nat /\ Limit \in Nat \ {0} /\ Window \in Nat /\ Lag \in Nat
  BY LimiterAssumption DEF LimiterTypeOK, Times
<1>1. /\ r = Append(s, now) /\ now' = now /\ t <= now /\ now <= t + Lag
      /\ \/ /\ t <= hits[a].reset /\ k < Limit
            /\ hits'[a] = [count |-> k + 1, reset |-> hits[a].reset]
         \/ /\ Over(hits[a], t)
            /\ hits'[a] = [count |-> 1, reset |-> t + Window]
  BY OwnWindow
<1>2. Len(r) = n + 1 /\ r[n + 1] = now /\ \A i \in 1 .. n : r[i] = s[i] /\ s[i] \in Nat
  <2>1. r = Append(s, now) /\ now \in Times
    BY <1>1 DEF LimiterTypeOK
  <2> HIDE DEF s, r
  <2>2. Len(r) = n + 1 /\ r[n + 1] = now /\ \A i \in 1 .. n : r[i] = s[i]
    BY <1>0, <2>1, AppendProperties
  <2>3. \A i \in 1 .. n : s[i] \in Times
    BY <1>0, ElementOfSeq
  <2>4. \A i \in 1 .. n : s[i] \in Nat
    BY <2>3, LimiterAssumption DEF Times
  <2> QED BY <2>2, <2>4
<1>3. /\ k <= n /\ hits[a].reset <= now + Window
      /\ \A i \in 1 .. n : s[i] <= now
      /\ hits[a] # NoWindow => \A i \in 1 .. n - k : s[i] + Window <= hits[a].reset + Lag
      /\ \A i \in 1 .. n - k - Limit : s[i] + Window < now + Lag
      /\ \A i \in 1 .. n : i > n - k => hits[a].reset <= s[i] + Window
      /\ \A i \in 1 .. n - 2 * Limit : s[i] + Window < s[i + 2 * Limit] + Lag
  BY DEF AddressInv, InWindow, Past, Before, LongBefore, Inside, Apart
<1> HIDE DEF s, r, n, k
\* Beyond Limit requests, one is as old as LongBefore says whenever a window is opened.
<1>4. Over(hits[a], t) => \A i \in 1 .. n - Limit : s[i] + Window < now + Lag
  <2>1. CASE hits[a] = NoWindow
    <3>1. k = 0
      BY <2>1 DEF NoWindow, k
    <3> QED BY <1>0, <1>3, <3>1
  <2>2. CASE hits[a] # NoWindow
    <3> SUFFICES ASSUME Over(hits[a], t), NEW i \in 1 .. n - Limit
                 PROVE  s[i] + Window < now + Lag
      OBVIOUS
    <3>1. i \in 1 .. n - k /\ i \in 1 .. n
      BY <1>0, <1>3
    <3>2. s[i] + Window <= hits[a].reset + Lag
      BY <1>3, <2>2, <3>1
    <3>3. s[i] \in Nat /\ hits[a].reset < t /\ t <= now
      BY <1>1, <1>2, <3>1 DEF Over
    <3> QED BY <1>0, <3>2, <3>3, SMTT(30)
  <2> QED BY <2>1, <2>2
<1> DEFINE j == hits'[a].count
           e == hits'[a].reset
<1>5. \/ t <= hits[a].reset /\ k < Limit /\ j = k + 1 /\ e = hits[a].reset
      \/ Over(hits[a], t) /\ j = 1 /\ e = t + Window
  BY <1>1
<1>6. ~Over(hits[a], t) => hits[a] # NoWindow
  BY <1>0 DEF Over, NoWindow
<1>7. t <= hits[a].reset => ~Over(hits[a], t)
  BY <1>0 DEF Over
<1> HIDE DEF j, e
<1>8. j \in Nat /\ e \in Int /\ j <= n + 1 /\ j >= 1 /\ j <= Limit
  BY <1>0, <1>3, <1>5
<1>14. e <= now + Window
  BY <1>0, <1>1, <1>3, <1>5
<1>9. \A i \in 1 .. (n + 1) - j : r[i] + Window <= e + Lag
  <2> SUFFICES ASSUME NEW i \in 1 .. (n + 1) - j PROVE r[i] + Window <= e + Lag
    OBVIOUS
  <2>1. i \in 1 .. n /\ r[i] = s[i] /\ s[i] \in Nat /\ s[i] <= now
    BY <1>0, <1>2, <1>3, <1>8
  <2>2. CASE t <= hits[a].reset /\ j = k + 1 /\ e = hits[a].reset
    <3>1. i \in 1 .. n - k
      BY <1>0, <2>2
    <3> QED BY <1>3, <1>6, <1>7, <2>1, <2>2, <3>1
  <2>3. CASE j = 1 /\ e = t + Window
    BY <1>0, <1>1, <2>1, <2>3, SMTT(30)
  <2> QED BY <1>5, <2>2, <2>3
<1>10. \A i \in 1 .. (n + 1) - j - Limit : r[i] + Window < now + Lag
  <2> SUFFICES ASSUME NEW i \in 1 .. (n + 1) - j - Limit PROVE r[i] + Window < now + Lag
    OBVIOUS
  <2>1. i \in 1 .. n /\ r[i] = s[i]
    BY <1>0, <1>2, <1>8
  <2>2. CASE j = k + 1
    <3>1. i \in 1 .. n - k - Limit
      BY <1>0, <2>2
    <3> QED BY <1>3, <2>1, <3>1
  <2>3. CASE Over(hits[a], t) /\ j = 1
    <3>1. i \in 1 .. n - Limit
      BY <1>0, <2>3
    <3> QED BY <1>4, <2>1, <2>3, <3>1
  <2> QED BY <1>5, <2>2, <2>3
<1>11. \A i \in 1 .. n + 1 : i > (n + 1) - j => e <= r[i] + Window
  <2> SUFFICES ASSUME NEW i \in 1 .. n + 1, i > (n + 1) - j PROVE e <= r[i] + Window
    OBVIOUS
  <2>1. CASE i = n + 1
    <3>1. r[i] = now
      BY <1>2, <2>1
    <3> QED BY <1>0, <1>8, <1>14, <3>1
  <2>2. CASE i # n + 1
    <3>1. i \in 1 .. n /\ r[i] = s[i]
      BY <1>0, <1>2, <2>2
    <3>2. j = k + 1 /\ e = hits[a].reset
      BY <1>0, <1>5, <3>1
    <3>3. i > n - k
      BY <1>0, <3>2
    <3> QED BY <1>3, <3>1, <3>2, <3>3
  <2> QED BY <2>1, <2>2
<1>12. \A i \in 1 .. (n + 1) - 2 * Limit : r[i] + Window < r[i + 2 * Limit] + Lag
  <2> SUFFICES ASSUME NEW i \in 1 .. (n + 1) - 2 * Limit
               PROVE  r[i] + Window < r[i + 2 * Limit] + Lag
    OBVIOUS
  <2>1. i \in 1 .. n /\ r[i] = s[i]
    BY <1>0, <1>2
  <2>2. CASE i = (n + 1) - 2 * Limit
    <3>1. r[i + 2 * Limit] = now
      BY <1>0, <1>2, <2>2
    <3>2. i \in 1 .. (n + 1) - j - Limit
      BY <1>0, <1>8, <2>2
    <3> QED BY <1>10, <3>1, <3>2
  <2>3. CASE i # (n + 1) - 2 * Limit
    <3>1. i \in 1 .. n - 2 * Limit /\ i + 2 * Limit \in 1 .. n
      BY <1>0, <2>3
    <3> QED BY <1>2, <1>3, <2>1, <3>1
  <2> QED BY <2>2, <2>3
<1>13. \A i \in 1 .. n + 1 : r[i] <= now
  <2> TAKE i \in 1 .. n + 1
  <2>1. CASE i = n + 1
    BY <1>0, <1>2, <2>1
  <2>2. CASE i # n + 1
    <3>1. i \in 1 .. n
      BY <1>0, <2>2
    <3> QED BY <1>2, <1>3, <3>1
  <2> QED BY <2>1, <2>2
<1> QED BY <1>1, <1>2, <1>8, <1>9, <1>10, <1>11, <1>12, <1>13, <1>14
     DEF AddressInv, InWindow, Past, Before, LongBefore, Inside, Apart, r, j, e

\* Another address's request leaves the sequence, and at most drops a window that is over.
LEMMA OtherAddressStep ==
  ASSUME LimiterTypeOK, NEW a \in Addresses, NEW t \in Times, Allow(a, t),
         NEW b \in Addresses, b # a, AddressInv(b)
  PROVE  AddressInv(b)'
<1> DEFINE s == admitted[b]
           n == Len(s)
           k == hits[b].count
<1>0. /\ n \in Nat /\ k \in Nat /\ k <= Limit /\ hits[b].reset \in Int
      /\ now \in Nat /\ t \in Nat /\ Limit \in Nat \ {0} /\ Window \in Nat /\ Lag \in Nat
      /\ \A i \in 1 .. n : s[i] \in Nat
  <2>1. s \in Seq(Times) /\ Times \subseteq Nat
    BY LimiterAssumption DEF LimiterTypeOK, Times
  <2>2. \A i \in 1 .. n : s[i] \in Times
    BY <2>1, ElementOfSeq
  <2> QED BY <2>1, <2>2, LimiterAssumption DEF LimiterTypeOK, Times
<1>1. admitted'[b] = s /\ now' = now
  BY OthersWindow
<1>2. CASE hits'[b] = hits[b]
  BY <1>1, <1>2 DEF AddressInv, InWindow, Past, Before, LongBefore, Inside, Apart
<1>3. CASE t <= now /\ Over(hits[b], t) /\ hits'[b] = NoWindow
  <2>1. /\ k <= n
        /\ \A i \in 1 .. n : s[i] <= now
        /\ hits[b] # NoWindow => \A i \in 1 .. n - k : s[i] + Window <= hits[b].reset + Lag
        /\ \A i \in 1 .. n - k - Limit : s[i] + Window < now + Lag
    BY DEF AddressInv, InWindow, Past, Before, LongBefore
  <2>2. hits'[b].count = 0 /\ hits'[b].reset = -1 /\ hits[b].reset < now
    BY <1>0, <1>3 DEF NoWindow, Over
  <2> HIDE DEF s, n, k
  <2>3. ASSUME NEW i \in 1 .. n - 0 - Limit PROVE s[i] + Window < now + Lag
    <3>1. CASE hits[b] = NoWindow
      <4>1. k = 0
        BY <3>1 DEF NoWindow, k
      <4> QED BY <1>0, <2>1, <4>1
    <3>2. CASE hits[b] # NoWindow
      <4>1. i \in 1 .. n - k /\ i \in 1 .. n
        BY <1>0, <2>1
      <4>2. s[i] + Window <= hits[b].reset + Lag /\ s[i] \in Nat
        BY <1>0, <2>1, <3>2, <4>1
      <4> QED BY <1>0, <2>2, <4>2
    <3> QED BY <3>1, <3>2
  <2>4. InWindow(b)' /\ Past(b)' /\ Before(b)' /\ Inside(b)'
    BY <1>0, <1>1, <1>3, <2>1, <2>2 DEF InWindow, Past, Before, Inside, s, n
  <2>5. LongBefore(b)'
    BY <1>1, <2>2, <2>3 DEF LongBefore, s, n
  <2>6. Apart(b)'
    BY <1>1 DEF AddressInv, Apart, s
  <2> QED BY <2>4, <2>5, <2>6 DEF AddressInv
<1> QED BY <1>2, <1>3, OthersWindow

LEMMA TickStep ==
  ASSUME LimiterTypeOK, Tick, NEW a \in Addresses, AddressInv(a)
  PROVE  AddressInv(a)'
<1> DEFINE s == admitted[a]
<1>0. /\ now \in Nat /\ Window \in Nat /\ Lag \in Nat /\ hits[a].reset \in Int
      /\ hits[a].count \in Nat /\ Limit \in Nat /\ Len(s) \in Nat
      /\ \A i \in 1 .. Len(s) : s[i] \in Nat
  <2>1. s \in Seq(Times) /\ Times \subseteq Nat
    BY LimiterAssumption DEF LimiterTypeOK, Times
  <2>2. \A i \in 1 .. Len(s) : s[i] \in Times
    BY <2>1, ElementOfSeq
  <2> QED BY <2>1, <2>2, LimiterAssumption DEF LimiterTypeOK, Times
<1>1. now' = now + 1 /\ hits' = hits /\ admitted' = admitted
  BY DEF Tick
<1>2. Past(a)'
  BY <1>0, <1>1 DEF AddressInv, Past
<1>3. LongBefore(a)'
  <2> SUFFICES ASSUME NEW i \in 1 .. Len(s) - hits[a].count - Limit
               PROVE  s[i] + Window < now + 1 + Lag
    BY <1>1 DEF LongBefore
  <2>1. i \in 1 .. Len(s) /\ s[i] + Window < now + Lag
    BY <1>0 DEF AddressInv, LongBefore
  <2> QED BY <1>0, <2>1
<1> QED BY <1>1, <1>2, <1>3 DEF AddressInv, InWindow, Before, Inside, Apart

LEMMA RateStepInv ==
  ASSUME RateInv, [LimiterNext]_limiterVars
  PROVE  RateInv'
<1>1. LimiterTypeOK /\ LimiterTypeOK' /\ \A b \in Addresses : AddressInv(b)
  BY RateTypesStep DEF RateInv
<1>2. ASSUME NEW b \in Addresses PROVE AddressInv(b)'
  <2>1. CASE Tick
    BY <1>1, <2>1, TickStep
  <2>2. ASSUME NEW a \in Addresses, NEW t \in Times, Allow(a, t) PROVE AddressInv(b)'
    BY <1>1, <2>2, OwnAddressStep, OtherAddressStep
  <2>3. CASE UNCHANGED limiterVars
    BY <1>1, <2>3
    DEF limiterVars, AddressInv, InWindow, Past, Before, LongBefore, Inside, Apart
  <2> QED BY <2>1, <2>2, <2>3 DEF LimiterNext
<1> QED BY <1>1, <1>2 DEF RateInv

\* The inductive invariant of the limiter: types, and the requests of each address
\* counted back from the last.
THEOREM RateInvariance == LimiterSpec => []RateInv
BY RateInitInv, RateStepInv, PTL DEF LimiterSpec

\* No stretch as long as a window, less Lag, sees more than twice the limit, for any
\* limit, any addresses, any wait for the mutex and whenever the table is swept.
THEOREM TwiceAtMost == LimiterSpec => []AtMostTwice
<1>1. RateInv => AtMostTwice
  BY DEF RateInv, AddressInv, Apart, AtMostTwice
<1> QED BY <1>1, RateInvariance, PTL

\* The requests a window counts were let through since it was opened, up to the wait of
\* the first: an address is refused only after Limit requests of that window.
RefusedWhenSpent ==
  \A a \in Addresses :
    hits[a].count = Limit =>
      /\ Limit <= Len(admitted[a])
      /\ \A i \in 1 .. Len(admitted[a]) :
           i > Len(admitted[a]) - Limit => hits[a].reset <= admitted[a][i] + Window

\* No request is refused before its address has spent its limit in the open window.
THEOREM NobodyRefusedEarly == LimiterSpec => []RefusedWhenSpent
<1>1. RateInv => RefusedWhenSpent
  BY DEF RateInv, AddressInv, InWindow, Inside, RefusedWhenSpent
<1> QED BY <1>1, RateInvariance, PTL

\* A request counted in a live window neither adds a row nor moves its end.
LEMMA CountingKeepsTable ==
  ASSUME LimiterTypeOK, NEW a \in Addresses, NEW t \in Times, AllowCounts(a, t)
  PROVE  Tabled(hits)' = Tabled(hits) /\ \A b \in Addresses : hits'[b].reset = hits[b].reset
<1>1. hits \in [Addresses -> [count : 0..Limit, reset : Int]] /\ t \in Nat
  BY LimiterAssumption DEF LimiterTypeOK, Times
<1>2. t <= hits[a].reset
  BY <1>1 DEF AllowCounts, Over
<1>3. hits' = [hits EXCEPT ![a] = [hits[a] EXCEPT !.count = @ + 1]]
  BY DEF AllowCounts
<1>4. ASSUME NEW b \in Addresses
      PROVE  /\ hits'[b].reset = hits[b].reset
             /\ hits'[b] = NoWindow <=> hits[b] = NoWindow
  <2>1. CASE b # a
    BY <1>1, <1>3, <2>1
  <2>2. CASE b = a
    <3>1. hits'[a].reset = hits[a].reset
      BY <1>1, <1>3
    <3>2. NoWindow.reset = -1
      BY DEF NoWindow
    <3> QED BY <1>1, <1>2, <2>2, <3>1, <3>2
  <2> QED BY <2>1, <2>2
<1> QED BY <1>4 DEF Tabled

\* A sweep of a large table leaves live windows only.
LEMMA SweepLeavesLive ==
  ASSUME NEW table \in [Addresses -> [count : 0..Limit, reset : Int]], NEW t \in Nat,
         Cardinality(Tabled(Swept(table, t))) > SweepAbove,
         NEW a \in Tabled(Swept(table, t))
  PROVE  a \in Addresses /\ Swept(table, t)[a] = table[a] /\ t <= table[a].reset
<1>1. a \in Addresses /\ Swept(table, t)[a] # NoWindow
  BY DEF Tabled
<1>2. Swept(table, t)[a] = table[a]
  BY <1>1, SweptEither
<1>3. CASE Cardinality(Tabled(table)) > SweepAbove
  <2>1. ~Over(table[a], t)
    BY <1>1, <1>3 DEF Swept
  <2> QED BY <1>1, <1>2, <2>1 DEF Over
<1>4. CASE ~(Cardinality(Tabled(table)) > SweepAbove)
  <2>1. Swept(table, t) = table
    BY <1>4 DEF Swept
  <2> QED BY <1>4, <2>1
<1> QED BY <1>3, <1>4

LEMMA TableStep ==
  ASSUME RateInv, TableBounded, [LimiterNext]_limiterVars
  PROVE  TableBounded'
<1>1. LimiterTypeOK /\ \A b \in Addresses : hits[b].reset <= now + Window
  BY DEF RateInv, AddressInv, Past
<1>0. /\ hits \in [Addresses -> [count : 0..Limit, reset : Int]]
      /\ now \in Nat /\ Times \subseteq Nat /\ Window \in Nat /\ Lag \in Nat
      /\ Limit \in Nat \ {0}
  BY <1>1, LimiterAssumption DEF LimiterTypeOK, Times
<1>2. ASSUME Tabled(hits)' = Tabled(hits),
             \A b \in Addresses : hits'[b].reset = hits[b].reset
      PROVE  TableBounded'
  <2>1. \A b \in Tabled(hits) : hits'[b].reset = hits[b].reset
    BY <1>2 DEF Tabled
  <2> QED BY <1>2, <2>1 DEF TableBounded
<1>3. ASSUME NEW a \in Addresses, NEW t \in Times, Allow(a, t), AllowOpens(a, t)
      PROVE  TableBounded'
  <2> DEFINE table == [hits EXCEPT ![a] = [count |-> 1, reset |-> t + Window]]
  <2>1. t \in Nat /\ t <= now /\ now <= t + Lag
    BY <1>0, <1>3 DEF Allow
  <2>2. hits' = Swept(table, t)
    BY <1>3 DEF AllowOpens
  <2>3. table \in [Addresses -> [count : 0..Limit, reset : Int]]
    BY <1>0, <2>1
  <2>4. \A b \in Addresses : table[b].reset <= now + Window
    <3> TAKE b \in Addresses
    <3>1. CASE b = a
      <4>1. table[b].reset = t + Window
        BY <1>0, <3>1
      <4> QED BY <1>0, <2>1, <4>1
    <3>2. CASE b # a
      <4>1. table[b] = hits[b]
        BY <1>0, <3>2
      <4> QED BY <1>1, <4>1
    <3> QED BY <3>1, <3>2
  <2> HIDE DEF table
  <2>5. SUFFICES ASSUME Cardinality(Tabled(Swept(table, t))) > SweepAbove,
                        NEW b \in Tabled(Swept(table, t)), NEW c \in Tabled(Swept(table, t))
                 PROVE  Swept(table, t)[b].reset - Swept(table, t)[c].reset <= Window + Lag
    BY <2>2 DEF TableBounded
  <2>6. b \in Addresses /\ Swept(table, t)[b] = table[b]
    BY <2>1, <2>3, <2>5, SweepLeavesLive
  <2>7. c \in Addresses /\ Swept(table, t)[c] = table[c] /\ t <= table[c].reset
    BY <2>1, <2>3, <2>5, SweepLeavesLive
  <2>8. table[b].reset <= now + Window /\ table[b].reset \in Int /\ table[c].reset \in Int
    BY <2>3, <2>4, <2>6, <2>7
  <2> QED BY <1>0, <2>1, <2>6, <2>7, <2>8
<1>4. ASSUME NEW a \in Addresses, NEW t \in Times, Allow(a, t), AllowCounts(a, t)
      PROVE  TableBounded'
  BY <1>1, <1>2, <1>4, CountingKeepsTable
<1>5. CASE Tick
  BY <1>2, <1>5 DEF Tick, Tabled
<1>6. CASE UNCHANGED limiterVars
  BY <1>2, <1>6 DEF limiterVars, Tabled
<1> QED BY <1>3, <1>4, <1>5, <1>6 DEF LimiterNext, Allow

\* However large SweepAbove is and however many addresses come, the table is swept down
\* to windows that were live together.
THEOREM TheTableIsBounded == LimiterSpec => []TableBounded
<1>1. LimiterInit => TableBounded
  <2> SUFFICES ASSUME LimiterInit PROVE TableBounded
    OBVIOUS
  <2>1. Tabled(hits) = {}
    BY DEF LimiterInit, Tabled
  <2> QED BY <2>1 DEF TableBounded
<1> QED BY <1>1, TableStep, RateInvariance, PTL DEF LimiterSpec

-----------------------------------------------------------------------------
(***************************************************************************)
(* LineStream.  While the scanner scans, the stages in order are what was    *)
(* printed; when it has stopped, what it returned is a beginning of it.  The *)
(* events are what it returned without the blank lines.                      *)
(***************************************************************************)

Whole == scanner = "scans" => printed = scanned \o (held \o (offered \o piped))

Beginning == \E rest \in Seq(Lines) : printed = scanned \o rest

Stages ==
  /\ scanner = "done" => held = <<>>
  /\ copier # "writes" => offered = <<>>
  /\ kept => exited
  /\ copier = "done" => exited /\ ~kept /\ piped = <<>>
  /\ caller # "wait" => copier = "done"
  /\ shutPipe <=> caller # "wait"
  /\ caller = "returned" => scanner = "done"

Ended == scanner = "done" /\ AllFit => shutPipe /\ printed = scanned

StreamInv == StreamTypeOK /\ Whole /\ Beginning /\ Stages /\ Ended

Numbered == \A k \in 1 .. Len(printed) : printed[k].n = k

ShownOnly == \A i \in 1 .. Len(emitted) :
  \E k \in 1 .. Len(scanned) : emitted[i] = scanned[k] /\ scanned[k].kind # "blank"

ShownAll == \A k \in 1 .. Len(scanned) :
  scanned[k].kind # "blank" => \E i \in 1 .. Len(emitted) : emitted[i] = scanned[k]

ShownInOrder == \A i, m \in 1 .. Len(emitted) : i < m => emitted[i].n < emitted[m].n

Showing == Numbered /\ ShownOnly /\ ShownAll /\ ShownInOrder

\* Handing the first of the held lines on changes nothing for the two together.
LEMMA EmitKeeps ==
  ASSUME NEW e \in Seq(Lines), NEW h \in Seq(Lines), h # <<>>
  PROVE  Append(e, Head(h)) \o Tail(h) = e \o h
<1>1. Head(h) \in Lines /\ Tail(h) \in Seq(Lines) /\ <<Head(h)>> \in Seq(Lines)
  BY HeadTailProperties
<1>2. h = <<Head(h)>> \o Tail(h)
  <2>1. Len(h) \in Nat \ {0}
    OBVIOUS
  <2>2. Head(SubSeq(h, 1, Len(h))) = h[1] /\ Tail(SubSeq(h, 1, Len(h))) = SubSeq(h, 2, Len(h))
    BY <2>1, HeadTailOfSubSeq
  <2>3. SubSeq(h, 1, Len(h)) = <<h[1]>> \o SubSeq(h, 2, Len(h))
    BY <2>1, SubSeqRecursiveFirst
  <2> QED BY <2>2, <2>3, SubSeqFull
<1>3. Append(e, Head(h)) = e \o <<Head(h)>>
  BY <1>1, AppendIsConcat
<1>4. (e \o <<Head(h)>>) \o Tail(h) = e \o (<<Head(h)>> \o Tail(h))
  BY <1>1, ConcatAssociative, SMTT(30)
<1> QED BY <1>2, <1>3, <1>4

\* So does taking the first n of the offered lines.
LEMMA TakeKeeps ==
  ASSUME NEW o \in Seq(Lines), NEW n \in 0 .. Len(o)
  PROVE  /\ SubSeq(o, 1, n) \in Seq(Lines) /\ Len(SubSeq(o, 1, n)) = n
         /\ SubSeq(o, n + 1, Len(o)) \in Seq(Lines)
         /\ Len(SubSeq(o, n + 1, Len(o))) = Len(o) - n
         /\ SubSeq(o, 1, n) \o SubSeq(o, n + 1, Len(o)) = o
<1>1. SubSeq(o, 1, n) \in Seq(Lines) /\ Len(SubSeq(o, 1, n)) = n
  BY SubSeqProperties
<1>2. /\ SubSeq(o, n + 1, Len(o)) \in Seq(Lines)
      /\ Len(SubSeq(o, n + 1, Len(o))) = Len(o) - n
  BY SubSeqProperties
<1>3. SubSeq(o, 1, n) \o SubSeq(o, n + 1, Len(o)) = SubSeq(o, 1, Len(o))
  <2>1. 1 \in 1 .. Len(o) + 1 /\ n \in 1 - 1 .. Len(o) /\ Len(o) \in n .. Len(o)
    BY LenProperties
  <2> QED BY <2>1, ConcatAdjacentSubSeq
<1> QED BY <1>1, <1>2, <1>3, SubSeqFull

\* A line printed at the end of the last of four stages is one at the end of all.
LEMMA AppendLast ==
  ASSUME NEW s \in Seq(Lines), NEW t \in Seq(Lines), NEW x \in Lines
  PROVE  /\ s \o t \in Seq(Lines) /\ Append(t, x) \in Seq(Lines)
         /\ Append(s \o t, x) = s \o Append(t, x)
<1>1. s \o t \in Seq(Lines) /\ <<x>> \in Seq(Lines)
  BY ConcatProperties
<1>2. Append(t, x) = t \o <<x>> /\ Append(t, x) \in Seq(Lines)
  BY AppendIsConcat, AppendProperties
<1>3. Append(s \o t, x) = (s \o t) \o <<x>>
  BY <1>1, AppendIsConcat
<1>4. (s \o t) \o <<x>> = s \o (t \o <<x>>)
  BY <1>1, ConcatAssociative, SMTT(30)
<1> QED BY <1>1, <1>2, <1>3, <1>4

LEMMA PrintKeeps ==
  ASSUME StreamTypeOK, NEW line \in Lines
  PROVE  Append(scanned \o (held \o (offered \o piped)), line)
           = scanned \o (held \o (offered \o Append(piped, line)))
<1>1. offered \in Seq(Lines) /\ piped \in Seq(Lines)
  BY DEF StreamTypeOK
<1>2. scanned \in Seq(Lines)
  BY DEF StreamTypeOK
<1>3. held \in Seq(Lines)
  BY DEF StreamTypeOK
<1> DEFINE op == offered \o piped
           hop == held \o op
<1>4. op \in Seq(Lines) /\ Append(op, line) = offered \o Append(piped, line)
  BY <1>1, AppendLast
<1> HIDE DEF op
<1>5. hop \in Seq(Lines) /\ Append(hop, line) = held \o Append(op, line)
  BY <1>3, <1>4, AppendLast
<1> HIDE DEF hop
<1>6. Append(scanned \o hop, line) = scanned \o Append(hop, line)
  BY <1>2, <1>5, AppendLast
<1> QED BY <1>4, <1>5, <1>6 DEF hop, op

\* Each line of a concatenation of lines that fit fits.
LEMMA PartFits ==
  ASSUME NEW e \in Seq(Lines), NEW o \in Seq(Lines), NEW p \in Seq(Lines), o # <<>>,
         \A i \in 1 .. Len(e \o (o \o p)) : (e \o (o \o p))[i].kind # "long"
  PROVE  Head(o).kind # "long"
<1> DEFINE op == o \o p
           k == Len(e) + 1
<1>1. op \in Seq(Lines) /\ Len(op) = Len(o) + Len(p) /\ Len(o) \in Nat \ {0} /\ Len(p) \in Nat
  BY ConcatProperties
<1>2. op[1] = o[1]
  BY <1>1, ConcatProperties
<1> HIDE DEF op
<1>3. Len(e \o op) = Len(e) + Len(op) /\ Len(e) \in Nat
  <2>1. op \in Seq(Lines) /\ e \in Seq(Lines)
    BY <1>1
  <2>2. Len(e) \in Nat
    BY <2>1, LenProperties
  <2> QED BY <2>1, <2>2, ConcatProperties
<1>4. k \in 1 .. Len(e \o op)
  BY <1>1, <1>3
<1>5. (e \o op)[k] = op[1]
  BY <1>1, <1>3
<1>6. (e \o op)[k].kind # "long"
  BY <1>4 DEF op
<1> QED BY <1>2, <1>5, <1>6

LEMMA StreamInitInv == StreamInit => StreamInv
<1> SUFFICES ASSUME StreamInit PROVE StreamInv
  OBVIOUS
<1>1. StreamTypeOK
  BY EmptySeq DEF StreamInit, StreamTypeOK
<1>4. Stages /\ Ended
  BY DEF StreamInit, Stages, Ended
<1>2. printed = scanned \o (held \o (offered \o piped))
  BY DEF StreamInit
<1>3. Beginning
  <2>1. <<>> \in Seq(Lines) /\ printed = scanned \o <<>>
    BY DEF StreamInit
  <2> QED BY <2>1 DEF Beginning
<1> QED BY <1>1, <1>2, <1>3, <1>4 DEF StreamInv, Whole

LEMMA StreamTypesStep ==
  ASSUME StreamTypeOK, [StreamNext]_streamVars
  PROVE  StreamTypeOK'
<1> USE DEF StreamTypeOK
<1>1. ASSUME NEW kind \in Kinds, PrintLine(kind) PROVE StreamTypeOK'
  <2>1. [n |-> Len(printed) + 1, kind |-> kind] \in Lines
    BY LenProperties DEF Lines
  <2> QED BY <1>1, <2>1, AppendProperties DEF PrintLine, sinkVars
<1>2. CASE Exit \/ DescendantExits
  BY <1>2 DEF Exit, DescendantExits, sinkVars
<1>3. CASE Copying
  BY <1>3, EmptySeq DEF Copying, Copy, Copied, CopyEnds, sinkVars
<1>4. CASE TakeLines
  <2>1. PICK n \in 1 .. Len(offered) :
          held' = SubSeq(offered, 1, n) /\ offered' = SubSeq(offered, n + 1, Len(offered))
    BY <1>4 DEF TakeLines
  <2>2. held' \in Seq(Lines) /\ offered' \in Seq(Lines)
    BY <2>1, TakeKeeps
  <2> QED BY <1>4, <2>2 DEF TakeLines
<1>5. CASE EmitLine
  <2>1. Head(held) \in Lines /\ Tail(held) \in Seq(Lines)
    BY <1>5, HeadTailProperties DEF EmitLine
  <2>2. Append(scanned, Head(held)) \in Seq(Lines) /\ Append(emitted, Head(held)) \in Seq(Lines)
    BY <2>1, AppendProperties
  <2> QED BY <1>5, <2>1, <2>2 DEF EmitLine
<1>6. CASE TooLong
  <2>1. offered # <<>> => Tail(offered) \in Seq(Lines)
    BY HeadTailProperties
  <2> QED BY <1>6, <2>1 DEF TooLong
<1>7. CASE ScanEnds
  BY <1>7 DEF ScanEnds
<1>8. CASE Calling
  BY <1>8 DEF Calling, WaitReturns, Return, Closes, sinkVars
<1>9. CASE UNCHANGED streamVars
  BY <1>9 DEF streamVars, sinkVars
<1> QED BY <1>1, <1>2, <1>3, <1>4, <1>5, <1>6, <1>7, <1>8, <1>9 DEF StreamNext, Scanning

\* Where nothing is printed and nothing taken, what was handed on stays a beginning; where
\* the stages and the scanner stay too, they stay whole.
LEMMA StreamRests ==
  ASSUME StreamInv, printed' = printed, scanned' = scanned
  PROVE  /\ Beginning'
         /\ (held' = held /\ offered' = offered /\ piped' = piped /\ scanner' = scanner) => Whole'
BY DEF StreamInv, Beginning, Whole

LEMMA PrintStep ==
  ASSUME StreamInv, NEW kind \in Kinds, PrintLine(kind)
  PROVE  Whole' /\ Beginning' /\ Stages' /\ Ended'
<1> DEFINE line == [n |-> Len(printed) + 1, kind |-> kind]
<1>l. line \in Lines
  BY LenProperties DEF Lines, StreamInv, StreamTypeOK
<1>1. /\ (~exited \/ kept) /\ printed' = Append(printed, line) /\ piped' = Append(piped, line)
      /\ UNCHANGED <<exited, kept, copier, offered, scanner, held, scanned, shutPipe, caller>>
  BY DEF PrintLine, sinkVars
<1> HIDE DEF line
<1>0. printed \in Seq(Lines)
  BY DEF StreamInv, StreamTypeOK
<1>9. Append(scanned \o (held \o (offered \o piped)), line)
        = scanned \o (held \o (offered \o Append(piped, line)))
  BY <1>l, PrintKeeps DEF StreamInv
<1>2. scanned \in Seq(Lines)
  BY DEF StreamInv, StreamTypeOK
<1>3. Whole'
  <2> SUFFICES ASSUME scanner = "scans"
               PROVE  Append(printed, line)
                        = scanned \o (held \o (offered \o Append(piped, line)))
    BY <1>1 DEF Whole
  <2>1. printed = scanned \o (held \o (offered \o piped))
    BY DEF StreamInv, Whole
  <2> QED BY <1>9, <2>1
<1>4. Beginning'
  <2>1. PICK rest \in Seq(Lines) : printed = scanned \o rest
    BY DEF StreamInv, Beginning
  <2>2. /\ Append(rest, line) \in Seq(Lines)
        /\ Append(scanned \o rest, line) = scanned \o Append(rest, line)
    BY <1>l, <1>2, AppendLast
  <2> QED BY <1>1, <2>1, <2>2 DEF Beginning
<1>5. copier # "done" /\ caller = "wait" /\ ~shutPipe
  BY <1>1 DEF StreamInv, Stages
<1>6. Stages'
  BY <1>1, <1>5 DEF StreamInv, Stages
<1>7. AllFit' => AllFit
  <2>1. Len(printed') = Len(printed) + 1 /\ Len(printed) \in Nat
    BY <1>1, <1>l, <1>0, AppendProperties, LenProperties
  <2>2. \A i \in 1 .. Len(printed) : printed'[i] = printed[i] /\ i \in 1 .. Len(printed')
    BY <1>1, <1>l, <1>0, <2>1, AppendProperties
  <2> QED BY <2>2 DEF AllFit
<1>8. Ended'
  BY <1>1, <1>5, <1>7 DEF StreamInv, Ended
<1> QED BY <1>3, <1>4, <1>6, <1>8

LEMMA CopyStep ==
  ASSUME StreamInv, Copying
  PROVE  Whole' /\ Beginning' /\ Stages' /\ Ended'
<1>1. UNCHANGED <<printed, exited, kept, scanner, held, scanned, emitted, shutPipe, caller>>
  BY DEF Copying, Copy, Copied, CopyEnds, sinkVars
<1>2. offered' \o piped' = offered \o piped
  <2>1. CASE Copy
    <3>1. offered = <<>> /\ offered' = piped /\ piped' = <<>>
      BY <2>1 DEF Copy, StreamInv, Stages
    <3>2. piped \in Seq(Lines)
      BY DEF StreamInv, StreamTypeOK
    <3> QED BY <3>1, <3>2, ConcatEmptySeq
  <2>2. CASE Copied \/ CopyEnds
    BY <2>2 DEF Copied, CopyEnds
  <2> QED BY <2>1, <2>2 DEF Copying
<1>3. Whole'
  BY <1>1, <1>2 DEF StreamInv, Whole
<1>4. Stages'
  BY <1>1 DEF StreamInv, Stages, Copying, Copy, Copied, CopyEnds
<1>5. Ended'
  BY <1>1 DEF StreamInv, Ended, AllFit
<1> QED BY <1>1, <1>3, <1>4, <1>5, StreamRests

LEMMA TakeStep ==
  ASSUME StreamInv, TakeLines
  PROVE  Whole' /\ Beginning' /\ Stages' /\ Ended'
<1>1. /\ scanner = "scans" /\ held = <<>>
      /\ UNCHANGED <<printed, exited, kept, piped, copier, scanner, scanned, shutPipe, caller>>
  BY DEF TakeLines
<1>2. held' \in Seq(Lines) /\ offered' \in Seq(Lines) /\ piped \in Seq(Lines)
  BY StreamTypesStep DEF StreamInv, StreamTypeOK, StreamNext, Scanning
<1>3. (held' \o offered') \o piped = held' \o (offered' \o piped)
  BY <1>2, ConcatAssociative, SMTT(30)
<1>4. held' \o offered' = offered /\ offered # <<>>
  <2>1. PICK n \in 1 .. Len(offered) :
          held' = SubSeq(offered, 1, n) /\ offered' = SubSeq(offered, n + 1, Len(offered))
    BY DEF TakeLines
  <2>2. offered \in Seq(Lines)
    BY DEF StreamInv, StreamTypeOK
  <2> QED BY <2>1, <2>2, TakeKeeps
<1>5. held \o (offered \o piped) = offered \o piped
  <2>1. offered \in Seq(Lines)
    BY DEF StreamInv, StreamTypeOK
  <2>2. offered \o piped \in Seq(Lines)
    BY <1>2, <2>1, ConcatProperties
  <2> QED BY <1>1, <2>2, ConcatEmptySeq
<1>6. Whole'
  BY <1>1, <1>3, <1>4, <1>5 DEF StreamInv, Whole
<1>8. Stages'
  BY <1>1, <1>4 DEF StreamInv, Stages
<1>9. Ended'
  BY <1>1 DEF Ended
<1> QED BY <1>1, <1>6, <1>8, <1>9, StreamRests

LEMMA EmitStep ==
  ASSUME StreamInv, EmitLine
  PROVE  Whole' /\ Beginning' /\ Stages' /\ Ended'
<1> DEFINE op == offered \o piped
           e == Append(scanned, Head(held))
<1>1. /\ held # <<>> /\ scanned' = e /\ held' = Tail(held)
      /\ UNCHANGED <<printed, exited, kept, piped, copier, offered, scanner, shutPipe, caller>>
  BY DEF EmitLine
<1>2. scanner = "scans" /\ caller # "returned"
  BY <1>1 DEF StreamInv, Stages, StreamTypeOK
<1>3. /\ scanned \in Seq(Lines) /\ held \in Seq(Lines) /\ op \in Seq(Lines)
      /\ e \in Seq(Lines) /\ Tail(held) \in Seq(Lines)
  BY <1>1, ConcatProperties, AppendProperties, HeadTailProperties DEF StreamInv, StreamTypeOK
<1> HIDE DEF e, op
<1>4. e \o Tail(held) = scanned \o held
  BY <1>1, <1>3, EmitKeeps DEF e
<1>5. e \o (Tail(held) \o op) = (e \o Tail(held)) \o op
  BY <1>3, ConcatAssociative, SMTT(30)
<1>6. (scanned \o held) \o op = scanned \o (held \o op)
  BY <1>3, ConcatAssociative, SMTT(30)
<1>7. printed = e \o (Tail(held) \o op)
  BY <1>2, <1>4, <1>5, <1>6 DEF StreamInv, Whole, op
<1>8. Whole'
  BY <1>1, <1>7 DEF Whole, op
<1>9. Beginning'
  <2>1. Tail(held) \o op \in Seq(Lines)
    BY <1>3, ConcatProperties
  <2> QED BY <1>1, <1>7, <2>1 DEF Beginning
<1>10. Stages'
  BY <1>1, <1>2 DEF StreamInv, Stages
<1>11. Ended'
  BY <1>1, <1>2 DEF Ended
<1> QED BY <1>8, <1>9, <1>10, <1>11

LEMMA TooLongStep ==
  ASSUME StreamInv, TooLong
  PROVE  Whole' /\ Beginning' /\ Stages' /\ Ended'
<1>1. /\ scanner = "scans" /\ held = <<>> /\ offered # <<>> /\ Head(offered).kind = "long"
      /\ scanner' = "done"
      /\ UNCHANGED <<printed, exited, kept, piped, copier, held, scanned, shutPipe, caller>>
  BY DEF TooLong
<1>2. ~AllFit
  <2> SUFFICES ASSUME AllFit PROVE FALSE
    OBVIOUS
  <2>1. /\ scanned \in Seq(Lines) /\ offered \in Seq(Lines) /\ piped \in Seq(Lines)
        /\ offered \o piped \in Seq(Lines)
    BY ConcatProperties DEF StreamInv, StreamTypeOK
  <2>2. held \o (offered \o piped) = offered \o piped
    BY <1>1, <2>1, ConcatEmptySeq
  <2>3. printed = scanned \o (offered \o piped)
    BY <1>1, <2>2 DEF StreamInv, Whole
  <2>4. Head(offered).kind # "long"
    BY <1>1, <2>1, <2>3, PartFits DEF AllFit
  <2> QED BY <1>1, <2>4
<1>3. Whole' /\ Ended'
  BY <1>1, <1>2 DEF Whole, Ended, AllFit
<1>4. copier = "writes"
  BY <1>1 DEF StreamInv, Stages
<1>5. Stages'
  BY <1>1, <1>4 DEF StreamInv, Stages
<1> QED BY <1>1, <1>3, <1>5, StreamRests

LEMMA ScanEndsStep ==
  ASSUME StreamInv, ScanEnds
  PROVE  Whole' /\ Beginning' /\ Stages' /\ Ended'
<1>1. /\ scanner = "scans" /\ held = <<>> /\ offered = <<>> /\ shutPipe /\ scanner' = "done"
      /\ UNCHANGED <<printed, exited, kept, piped, copier, offered, held, scanned, shutPipe, caller>>
  BY DEF ScanEnds
<1>2. piped = <<>>
  BY <1>1 DEF StreamInv, Stages
<1>3. printed = scanned
  <2>1. scanned \in Seq(Lines) /\ <<>> \o (<<>> \o <<>>) = <<>>
    BY DEF StreamInv, StreamTypeOK
  <2> QED BY <1>1, <1>2, <2>1, ConcatEmptySeq DEF StreamInv, Whole
<1>4. Whole' /\ Ended'
  BY <1>1, <1>3 DEF Whole, Ended
<1>5. Stages'
  BY <1>1 DEF StreamInv, Stages
<1> QED BY <1>1, <1>4, <1>5, StreamRests

LEMMA StreamStepInv ==
  ASSUME StreamInv, [StreamNext]_streamVars
  PROVE  StreamInv'
<1>1. StreamTypeOK'
  BY StreamTypesStep DEF StreamInv
<1>2. ASSUME NEW kind \in Kinds, PrintLine(kind)
      PROVE  Whole' /\ Beginning' /\ Stages' /\ Ended'
  BY <1>2, PrintStep
<1>3. CASE Exit \/ DescendantExits
  <2>1. exited' /\ UNCHANGED <<printed, piped, copier, offered, scanner, held, scanned,
                               shutPipe, caller>>
    BY <1>3 DEF Exit, DescendantExits, sinkVars, StreamInv, Stages
  <2>2. copier = "done" => kept' = FALSE
    BY <1>3 DEF Exit, DescendantExits, StreamInv, Stages
  <2>3. Stages' /\ Ended'
    BY <2>1, <2>2 DEF StreamInv, Stages, Ended, AllFit
  <2>4. Whole' /\ Beginning'
    BY <2>1, StreamRests
  <2> QED BY <1>1, <2>3, <2>4 DEF StreamInv
<1>4. CASE Calling
  <2>1. UNCHANGED <<printed, exited, kept, piped, copier, offered, scanner, held, scanned>>
    BY <1>4 DEF Calling, WaitReturns, Return, sinkVars
  <2>2. Stages' /\ Ended'
    BY <1>4, <2>1
    DEF Calling, WaitReturns, Return, Closes, Drained, StreamInv, StreamTypeOK, Stages, Ended, AllFit
  <2>3. Whole' /\ Beginning'
    BY <2>1, StreamRests
  <2> QED BY <1>1, <2>2, <2>3 DEF StreamInv
<1>5. CASE UNCHANGED streamVars
  BY <1>5
  DEF streamVars, sinkVars, StreamInv, StreamTypeOK, Whole, Beginning, Stages, Ended, AllFit
<1> QED BY <1>1, <1>2, <1>3, <1>4, <1>5, CopyStep, TakeStep, EmitStep, TooLongStep, ScanEndsStep
        DEF StreamNext, Scanning, StreamInv

\* What Scan has returned is a beginning of what was printed, line by line.
LEMMA BeginningIsPrefix ==
  ASSUME NEW s \in Seq(Lines), NEW rest \in Seq(Lines), NEW all, all = s \o rest
  PROVE  /\ Len(s) \in Nat /\ Len(all) \in Nat /\ Len(s) <= Len(all)
         /\ \A k \in 1 .. Len(s) : all[k] = s[k]
<1>1. Len(s) \in Nat /\ Len(rest) \in Nat
  BY LenProperties
<1> QED BY <1>1, ConcatProperties

LEMMA ScannedPrinted ==
  ASSUME StreamInv
  PROVE  /\ Len(scanned) \in Nat /\ Len(printed) \in Nat /\ Len(scanned) <= Len(printed)
         /\ \A k \in 1 .. Len(scanned) : printed[k] = scanned[k]
<1>1. PICK rest \in Seq(Lines) : printed = scanned \o rest
  BY DEF StreamInv, Beginning
<1>2. scanned \in Seq(Lines)
  BY DEF StreamInv, StreamTypeOK
<1> QED BY <1>1, <1>2, BeginningIsPrefix

\* Emitting the next line, unless it is blank, keeps what is shown in line with what was
\* scanned: the line's number is above all that are shown.
LEMMA ShowNext ==
  ASSUME StreamInv, StreamInv', Showing, EmitLine
  PROVE  ShownOnly' /\ ShownAll' /\ ShownInOrder'
<1> DEFINE h == Head(held)
           top == Len(scanned) + 1
<1>1. /\ held # <<>> /\ scanned' = Append(scanned, h) /\ printed' = printed
      /\ emitted' = IF h.kind = "blank" THEN emitted ELSE Append(emitted, h)
  BY DEF EmitLine
<1>2. scanned \in Seq(Lines) /\ emitted \in Seq(Lines) /\ h \in Lines
  BY <1>1, HeadTailProperties DEF StreamInv, StreamTypeOK
<1> HIDE DEF h
<1>3. /\ Len(scanned) \in Nat /\ Len(emitted) \in Nat
      /\ Len(scanned') = top /\ scanned'[top] = h
      /\ \A k \in 1 .. Len(scanned) : scanned'[k] = scanned[k]
  BY <1>1, <1>2, AppendProperties, LenProperties
<1>4. /\ h.n = top
      /\ \A k \in 1 .. Len(scanned) : scanned[k].n = k
  <2>1. /\ \A k \in 1 .. Len(scanned) : printed[k] = scanned[k] /\ k \in 1 .. Len(printed)
        /\ printed[top] = h /\ top \in 1 .. Len(printed)
    <3>1. /\ Len(scanned)' <= Len(printed)' /\ Len(printed)' \in Nat
          /\ \A k \in 1 .. Len(scanned') : printed'[k] = scanned'[k]
      <4>1. PICK rest \in Seq(Lines) : printed' = scanned' \o rest
        BY DEF StreamInv, Beginning
      <4>2. scanned' \in Seq(Lines)
        BY DEF StreamInv, StreamTypeOK
      <4> QED BY <4>1, <4>2, BeginningIsPrefix
    <3> QED BY <1>1, <1>3, <3>1
  <2> QED BY <2>1 DEF Showing, Numbered
<1>5. \A i \in 1 .. Len(emitted) : emitted[i].n < top
  BY <1>3, <1>4 DEF Showing, ShownOnly
<1>6. CASE h.kind = "blank"
  BY <1>1, <1>3, <1>6 DEF Showing, ShownOnly, ShownAll, ShownInOrder
<1>7. CASE h.kind # "blank"
  <2>1. /\ Len(emitted') = Len(emitted) + 1 /\ emitted'[Len(emitted) + 1] = h
        /\ \A i \in 1 .. Len(emitted) : emitted'[i] = emitted[i]
    BY <1>1, <1>2, <1>7, AppendProperties
  <2>2. ShownOnly'
    <3> SUFFICES ASSUME NEW i \in 1 .. Len(emitted')
                 PROVE  \E k \in 1 .. Len(scanned') :
                          emitted'[i] = scanned'[k] /\ scanned'[k].kind # "blank"
      BY DEF ShownOnly
    <3>1. CASE i = Len(emitted) + 1
      <4>1. top \in 1 .. Len(scanned')
        BY <1>3
      <4> QED BY <1>3, <1>7, <2>1, <3>1, <4>1
    <3>2. CASE i # Len(emitted) + 1
      <4>1. i \in 1 .. Len(emitted)
        BY <1>3, <2>1, <3>2
      <4>2. PICK k \in 1 .. Len(scanned) : emitted[i] = scanned[k] /\ scanned[k].kind # "blank"
        BY <4>1 DEF Showing, ShownOnly
      <4>3. k \in 1 .. Len(scanned') /\ scanned'[k] = scanned[k] /\ emitted'[i] = emitted[i]
        BY <1>3, <2>1, <4>1, <4>2
      <4> QED BY <4>2, <4>3
    <3> QED BY <3>1, <3>2
  <2>3. ShownAll'
    <3> SUFFICES ASSUME NEW k \in 1 .. Len(scanned'), scanned'[k].kind # "blank"
                 PROVE  \E i \in 1 .. Len(emitted') : emitted'[i] = scanned'[k]
      BY DEF ShownAll
    <3>1. CASE k = top
      BY <1>3, <2>1, <3>1
    <3>2. CASE k # top
      <4>1. PICK i \in 1 .. Len(emitted) : emitted[i] = scanned[k]
        BY <1>3, <3>2 DEF Showing, ShownAll
      <4> QED BY <1>3, <2>1, <3>2, <4>1
    <3> QED BY <3>1, <3>2
  <2>4. ShownInOrder'
    <3> SUFFICES ASSUME NEW i \in 1 .. Len(emitted'), NEW m \in 1 .. Len(emitted'), i < m
                 PROVE  emitted'[i].n < emitted'[m].n
      BY DEF ShownInOrder
    <3>1. i \in 1 .. Len(emitted)
      BY <1>3, <2>1
    <3>2. CASE m = Len(emitted) + 1
      BY <1>4, <1>5, <2>1, <3>1, <3>2
    <3>3. CASE m # Len(emitted) + 1
      BY <1>3, <2>1, <3>1, <3>3 DEF Showing, ShownInOrder
    <3> QED BY <3>2, <3>3
  <2> QED BY <2>2, <2>3, <2>4
<1> QED BY <1>6, <1>7

LEMMA ShowStep ==
  ASSUME StreamInv, StreamInv', Showing, [StreamNext]_streamVars
  PROVE  Showing'
<1>1. ASSUME NEW kind \in Kinds, PrintLine(kind) PROVE Showing'
  <2> DEFINE line == [n |-> Len(printed) + 1, kind |-> kind]
  <2>1. line \in Lines /\ line.n = Len(printed) + 1
    BY LenProperties DEF Lines, StreamInv, StreamTypeOK
  <2>2. printed' = Append(printed, line) /\ scanned' = scanned /\ emitted' = emitted
    BY <1>1 DEF PrintLine, sinkVars
  <2> HIDE DEF line
  <2>3. printed \in Seq(Lines) /\ Len(printed) \in Nat
    BY LenProperties DEF StreamInv, StreamTypeOK
  <2>4. /\ Len(printed') = Len(printed) + 1 /\ printed'[Len(printed) + 1] = line
        /\ \A k \in 1 .. Len(printed) : printed'[k] = printed[k]
    BY <2>1, <2>2, <2>3, AppendProperties
  <2>5. Numbered'
    BY <2>1, <2>3, <2>4 DEF Showing, Numbered
  <2> QED BY <2>2, <2>5 DEF Showing, ShownOnly, ShownAll, ShownInOrder
<1>2. CASE EmitLine
  <2>1. Numbered'
    BY <1>2 DEF EmitLine, Showing, Numbered
  <2> QED BY <1>2, <2>1, ShowNext DEF Showing
<1>3. CASE UNCHANGED <<printed, scanned, emitted>>
  BY <1>3 DEF Showing, Numbered, ShownOnly, ShownAll, ShownInOrder
<1> QED BY <1>1, <1>2, <1>3 DEF StreamNext, Exit, DescendantExits, Copying, Copy, Copied,
  CopyEnds, Scanning, TakeLines, TooLong, ScanEnds, Calling, WaitReturns, Return, streamVars,
  sinkVars

\* The inductive invariant of the four parties: types, what is where, who is done, and
\* what the events show of the lines that Scan has returned.
THEOREM StreamInvariance == StreamSpec => [](StreamInv /\ Showing)
<1>1. StreamInit => StreamInv /\ Showing
  <2>1. StreamInit => Showing
    BY DEF StreamInit, Showing, Numbered, ShownOnly, ShownAll, ShownInOrder
  <2> QED BY <2>1, StreamInitInv
<1>2. StreamInv /\ Showing /\ [StreamNext]_streamVars => (StreamInv /\ Showing)'
  BY StreamStepInv, ShowStep
<1> QED BY <1>1, <1>2, PTL DEF StreamSpec

\* What the events show is what was printed without its blank lines, in order, none twice
\* and none left out on the way, and all of it when runStream returns without an over-long
\* line: for any output, whoever printed it, and any size of the pipes.
THEOREM OutputIsComplete == StreamSpec => []OutputComplete
<1>1. StreamInv /\ Showing => OutputComplete
  <2> SUFFICES ASSUME StreamInv, Showing PROVE OutputComplete
    OBVIOUS
  <2>1. /\ Len(scanned) \in Nat /\ Len(printed) \in Nat /\ Len(scanned) <= Len(printed)
        /\ \A k \in 1 .. Len(scanned) : printed[k] = scanned[k]
    BY ScannedPrinted
  <2>2. \A i \in 1 .. Len(emitted) :
          \E k \in 1 .. Len(printed) : emitted[i] = printed[k] /\ printed[k].kind # "blank"
    BY <2>1 DEF Showing, ShownOnly
  <2>3. ASSUME NEW k \in 1 .. Len(printed), printed[k].kind # "blank",
               (caller = "returned" /\ AllFit) \/ \E i \in 1 .. Len(emitted) : emitted[i].n > k
        PROVE  Shown(k)
    <3>1. k \in 1 .. Len(scanned)
      <4>1. CASE caller = "returned" /\ AllFit
        BY <4>1 DEF StreamInv, Stages, Ended
      <4>2. CASE \E i \in 1 .. Len(emitted) : emitted[i].n > k
        <5>1. PICK i \in 1 .. Len(emitted) : emitted[i].n > k
          BY <4>2
        <5>2. PICK j \in 1 .. Len(scanned) : emitted[i] = scanned[j]
          BY <5>1 DEF Showing, ShownOnly
        <5>3. emitted[i].n = j
          BY <2>1, <5>2 DEF Showing, Numbered
        <5> QED BY <2>1, <5>1, <5>3
      <4> QED BY <2>3, <4>1, <4>2
    <3> QED BY <2>1, <2>3, <3>1 DEF Showing, ShownAll, Shown
  <2> QED BY <2>2, <2>3 DEF OutputComplete, Showing, ShownInOrder
<1> QED BY <1>1, StreamInvariance, PTL

(***************************************************************************)
(* How runStream comes to its end.  StreamReturns needs fairness, which the  *)
(* prover cannot use; these two facts are the rest of its argument.          *)
(***************************************************************************)

\* The steps that are left, at most, once nobody holds the write end of the pipe.
StepsLeft ==
  4 * Len(piped) + 2 * Len(offered) + Len(held)
    + (IF copier = "writes" THEN 2 ELSE IF copier = "reads" THEN 1 ELSE 0)
    + (IF scanner = "scans" THEN 1 ELSE 0)
    + (IF caller = "wait" THEN 2 ELSE IF caller = "drain" THEN 1 ELSE 0)

EveryStepCounts ==
  [][exited /\ ~kept => StepsLeft' \in Nat /\ StepsLeft' < StepsLeft]_streamVars

\* Who can go on: the guards of Copying, Scanning and Calling.
CopierGoesOn ==
  \/ copier = "reads" /\ (piped # <<>> \/ (exited /\ ~kept))
  \/ copier = "writes" /\ offered = <<>>
ScannerGoesOn ==
  \/ held # <<>>
  \/ scanner = "scans" /\ (offered # <<>> \/ shutPipe)
CallerGoesOn ==
  \/ caller = "wait" /\ exited /\ copier = "done"
  \/ caller = "drain" /\ scanner = "done"

SomebodyGoesOn == CopierGoesOn \/ ScannerGoesOn \/ CallerGoesOn

\* The copier waits for a descendant to print or to let go; or it writes a line that was
\* too long for the scanner, which has gone.
DescendantAwaited == kept /\ copier = "reads"
NobodyReads       == ~AllFit /\ copier = "writes" /\ scanner = "done"

StuckOnOutputOnly ==
  exited /\ caller # "returned" /\ ~SomebodyGoesOn => DescendantAwaited \/ NobodyReads

LEMMA StageLengths ==
  ASSUME StreamTypeOK
  PROVE  /\ Len(piped) \in Nat /\ (piped # <<>> => Len(piped) > 0)
         /\ Len(offered) \in Nat /\ Len(held) \in Nat
BY LenProperties, EmptySeq DEF StreamTypeOK

LEMMA StepCounts ==
  ASSUME StreamTypeOK, StreamTypeOK', StreamNext, exited, ~kept
  PROVE  StepsLeft' \in Nat /\ StepsLeft' < StepsLeft
<1>1. /\ Len(piped) \in Nat /\ (piped # <<>> => Len(piped) > 0)
      /\ Len(offered) \in Nat /\ Len(held) \in Nat
      /\ Len(piped)' \in Nat /\ Len(offered)' \in Nat /\ Len(held)' \in Nat
  BY StageLengths, LenProperties DEF StreamTypeOK
<1>2. /\ copier \in {"reads", "writes", "done"} /\ scanner \in {"scans", "done"}
      /\ caller \in {"wait", "drain", "returned"}
      /\ copier' \in {"reads", "writes", "done"} /\ scanner' \in {"scans", "done"}
      /\ caller' \in {"wait", "drain", "returned"}
  BY DEF StreamTypeOK
<1> USE DEF StepsLeft
<1>3. CASE Copy
  <2>1. /\ Len(offered)' = Len(piped) /\ Len(piped)' = 0 /\ Len(piped) > 0
        /\ copier = "reads" /\ copier' = "writes"
        /\ held' = held /\ scanner' = scanner /\ caller' = caller
    BY <1>1, <1>3, EmptySeq DEF Copy, sinkVars
  <2> QED BY <1>1, <1>2, <2>1
<1>4. CASE Copied
  BY <1>1, <1>2, <1>4 DEF Copied, sinkVars
<1>5. CASE CopyEnds
  BY <1>1, <1>2, <1>5 DEF CopyEnds, sinkVars
<1>6. CASE TakeLines
  <2>1. PICK n \in 1 .. Len(offered) :
          held' = SubSeq(offered, 1, n) /\ offered' = SubSeq(offered, n + 1, Len(offered))
    BY <1>6 DEF TakeLines
  <2>2. n \in Nat /\ n >= 1 /\ Len(held)' = n /\ Len(offered)' = Len(offered) - n
    BY <1>1, <2>1, TakeKeeps DEF StreamTypeOK
  <2>3. Len(held) = 0 /\ UNCHANGED <<piped, copier, scanner, caller>>
    BY <1>6, EmptySeq DEF TakeLines
  <2> HIDE DEF TakeLines
  <2> QED BY <1>1, <1>2, <2>2, <2>3
<1>7. CASE EmitLine
  <2>1. /\ Len(held)' = Len(held) - 1 /\ UNCHANGED <<piped, offered, copier, scanner, caller>>
    BY <1>7, HeadTailProperties DEF EmitLine, StreamTypeOK
  <2> QED BY <1>1, <1>2, <2>1
<1>8. CASE TooLong
  <2>1. /\ Len(offered)' <= Len(offered)
        /\ scanner = "scans" /\ scanner' = "done" /\ UNCHANGED <<piped, held, copier, caller>>
    BY <1>1, <1>8, HeadTailProperties DEF TooLong, StreamTypeOK
  <2> QED BY <1>1, <1>2, <2>1
<1>9. CASE ScanEnds
  BY <1>1, <1>2, <1>9 DEF ScanEnds
<1>10. CASE WaitReturns
  BY <1>1, <1>2, <1>10 DEF WaitReturns, sinkVars
<1>11. CASE Return
  BY <1>1, <1>2, <1>11 DEF Return, sinkVars
<1> QED BY <1>3, <1>4, <1>5, <1>6, <1>7, <1>8, <1>9, <1>10, <1>11
        DEF StreamNext, Copying, Scanning, Calling, PrintLine, Exit, DescendantExits

\* Once the command has ended and no descendant of it holds its output, every step of the
\* copier, the scanner and the caller brings the end nearer: none of them goes round,
\* whatever was printed and however long it is.
THEOREM StepsRunOut == StreamSpec => EveryStepCounts
<1>1. StreamTypeOK /\ StreamTypeOK' /\ [StreamNext]_streamVars
        => [exited /\ ~kept => StepsLeft' \in Nat /\ StepsLeft' < StepsLeft]_streamVars
  BY StepCounts
<1>2. StreamInv => StreamTypeOK
  BY DEF StreamInv
<1> QED BY <1>1, <1>2, StreamInvariance, PTL DEF StreamSpec, EveryStepCounts

\* And until runStream has returned one of them can go on, but for the two waits that
\* nothing in the process ends: for a descendant that keeps the command's output, and for
\* a reader of the io.Pipe after a line too long.  cmd.Wait, pw.Close() and <-done do not
\* wait in a circle.
THEOREM StreamNeverStuck == StreamSpec => []StuckOnOutputOnly
<1>1. StreamInv => StuckOnOutputOnly
  <2> SUFFICES ASSUME StreamInv, exited, caller # "returned", ~SomebodyGoesOn
               PROVE  DescendantAwaited \/ NobodyReads
    BY DEF StuckOnOutputOnly
  <2> USE DEF SomebodyGoesOn, CopierGoesOn, ScannerGoesOn, CallerGoesOn
  <2>1. CASE copier = "reads"
    BY <2>1 DEF DescendantAwaited, StreamInv, StreamTypeOK
  <2>2. CASE copier = "writes"
    <3>1. scanner = "done" /\ caller = "wait" /\ ~shutPipe
      BY <2>2 DEF StreamInv, StreamTypeOK, Stages
    <3> QED BY <2>2, <3>1 DEF NobodyReads, StreamInv, Ended
  <2>3. CASE copier = "done"
    BY <2>3 DEF StreamInv, StreamTypeOK, Stages
  <2> QED BY <2>1, <2>2, <2>3 DEF StreamInv, StreamTypeOK
<1> QED BY <1>1, StreamInvariance, PTL
=============================================================================
