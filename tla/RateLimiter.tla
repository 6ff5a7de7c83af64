---------------------------- MODULE RateLimiter ----------------------------
(***************************************************************************)
(* The limiter of api/middleware_ratelimit.go: a window per client address,  *)
(* opened by its first request and replaced by the first one after its end,  *)
(* and a table that is swept only when it has grown.  allow reads the clock   *)
(* and then waits for the mutex, which it holds to its end: it is one step,   *)
(* at a time that may be later than the one it goes by.                      *)
(***************************************************************************)
EXTENDS Integers, FiniteSets, Sequences

CONSTANTS
  Addresses,   \* clientIP of the requests
  Limit,       \* cfg.RateLimitRPM; the limiter is not installed unless it is positive
  Window,      \* its window, in ticks of the clock
  Lag,         \* how long a request may wait for the mutex
  SweepAbove,  \* the size beyond which the table is swept, 4096 in the code
  MaxTime      \* bound: the time at which a behaviour ends

ASSUME LimiterAssumption ==
  /\ Limit \in Nat \ {0}
  /\ Window \in Nat \ {0}
  /\ Lag \in Nat
  /\ SweepAbove \in Nat
  /\ MaxTime \in Nat

VARIABLES
  now,
  hits,      \* rl.hits: the window of each address in the table
  admitted   \* when each request of each address that was let through was

limiterVars == <<now, hits, admitted>>

Times == 0..MaxTime
NoWindow == [count |-> 0, reset |-> -1]

LimiterTypeOK ==
  /\ now \in Times
  /\ hits \in [Addresses -> [count : 0..Limit, reset : Int]]
  /\ admitted \in [Addresses -> Seq(Times)]

LimiterInit ==
  /\ now = 0
  /\ hits = [a \in Addresses |-> NoWindow]
  /\ admitted = [a \in Addresses |-> <<>>]

Tabled(table) == {a \in Addresses : table[a] # NoWindow}

\* now.After(w.reset): the window's last instant belongs to it.
Over(w, t) == t > w.reset

\* The sweep drops windows that are over, and only when the table is large.
SweptAll(table, t) == [a \in Addresses |-> IF Cardinality(Tabled(table)) > SweepAbove
                                             THEN NoWindow ELSE table[a]]   \* fault: live ones too
SweptNever(table, t) == table                            \* fault: nothing
Swept(table, t) ==
  [a \in Addresses |-> IF Cardinality(Tabled(table)) > SweepAbove /\ Over(table[a], t)
                          THEN NoWindow ELSE table[a]]

AllowOpens(a, t) ==
  /\ Over(hits[a], t)
  /\ hits' = Swept([hits EXCEPT ![a] = [count |-> 1, reset |-> t + Window]], t)

AllowCounts(a, t) ==
  /\ ~Over(hits[a], t)
  /\ hits[a].count < Limit
  /\ hits' = [hits EXCEPT ![a].count = @ + 1]

\* The clock stood at t when the request read it.  A refused request changes nothing.
Allow(a, t) ==
  /\ t <= now /\ now <= t + Lag
  /\ AllowOpens(a, t) \/ AllowCounts(a, t)
  /\ admitted' = [admitted EXCEPT ![a] = Append(@, now)]
  /\ UNCHANGED now

Tick ==
  /\ now < MaxTime
  /\ now' = now + 1
  /\ UNCHANGED <<hits, admitted>>

LimiterNext == Tick \/ \E a \in Addresses, t \in Times : Allow(a, t)

LimiterSpec == LimiterInit /\ [][LimiterNext]_limiterVars

-----------------------------------------------------------------------------
(* Properties *)

\* "each key gets `limit` requests per 60s window" (line 11) holds of the limiter's own
\* windows.  Of any stretch of time as long as one, what holds is twice that: it may lie
\* across two windows, and no sweep makes it more.  A request that waits for the mutex
\* with an old time in its hands shortens the stretch by that wait, and by no more.
AtMostTwice ==
  \A a \in Addresses : \A i \in 1 .. Len(admitted[a]) - 2 * Limit :
    admitted[a][i] + Window < admitted[a][i + 2 * Limit] + Lag

\* The table stays bounded: beyond SweepAbove it holds only addresses whose windows were
\* opened at most one window, and one wait, apart.
TableBounded ==
  Cardinality(Tabled(hits)) > SweepAbove =>
    \A a, b \in Tabled(hits) : hits[a].reset - hits[b].reset <= Window + Lag
=============================================================================
