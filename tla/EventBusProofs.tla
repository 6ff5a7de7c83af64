--------------------------- MODULE EventBusProofs ---------------------------
(***************************************************************************)
(* Proofs about EventBus, for any number of clients, any capacity of their  *)
(* channels and any number of events.                                       *)
(***************************************************************************)
EXTENDS EventBus, SequenceTheorems, TLAPS

(***************************************************************************)
(* A client's stream as data: t is what it has taken, q what its channel    *)
(* holds, m what it was given to replay and h the bus's history.            *)
(***************************************************************************)
Within(t, q, m, h) ==
  /\ Len(q) + m <= h
  /\ \A i \in 1..Len(t) : t[i] <= h
  /\ \A k \in 1..Len(q) : m < q[k] /\ q[k] <= h
  /\ Len(t) <= m => \A i \in 1..Len(t) : t[i] = i

Ordered(t, q) ==
  /\ \A i, k \in 1..Len(t) : i < k => t[i] < t[k]
  /\ \A i, k \in 1..Len(q) : i < k => q[i] < q[k]
  /\ \A i \in 1..Len(t), k \in 1..Len(q) : t[i] < q[k]

Complete(t, q, m, h) ==
  \A e \in 1..h : e <= m + Capacity =>
    Listed(t, e) \/ Listed(q, e) \/ e \in Len(t)+1 .. m

\* What the arguments below need to know of sequences: without Seq, Append and
\* Tail the provers have only numbers to deal with.
Numbers(q) == Len(q) \in Nat /\ \A i \in 1..Len(q) : q[i] \in Nat

Grown(p, q, e) ==
  /\ Len(p) = Len(q) + 1
  /\ p[Len(q) + 1] = e
  /\ \A i \in 1..Len(q) : p[i] = q[i]
  /\ \A i \in 1..Len(p) : i \in 1..Len(q) \/ i = Len(q) + 1

Shifted(p, q) ==
  /\ Len(q) > 0
  /\ Len(p) = Len(q) - 1
  /\ \A i \in 1..Len(p) : i+1 \in 1..Len(q) /\ p[i] = q[i+1]

\* An event appended comes last and moves nothing.
LEMMA AppendFacts ==
  ASSUME NEW q \in Seq(Nat), NEW e \in Nat
  PROVE  Append(q, e) \in Seq(Nat) /\ Grown(Append(q, e), q, e)
<1>1. Len(q) \in Nat
  BY LenProperties
<1>2. /\ Append(q, e) \in Seq(Nat) /\ Len(Append(q, e)) = Len(q) + 1
      /\ \A i \in 1..Len(q) : Append(q, e)[i] = q[i]
      /\ Append(q, e)[Len(q) + 1] = e
  BY AppendProperties
<1> QED BY <1>1, <1>2 DEF Grown

\* A receive takes the first event and moves the others up.
LEMMA TailFacts ==
  ASSUME NEW q \in Seq(Nat), q # <<>>
  PROVE  /\ Head(q) = q[1] /\ q[1] \in Nat
         /\ Tail(q) \in Seq(Nat) /\ Shifted(Tail(q), q)
<1>1. Len(q) \in Nat \ {0}
  BY EmptySeq
<1>2. Tail(q) \in Seq(Nat) /\ Len(Tail(q)) = Len(q) - 1 /\ Head(q) = q[1]
  BY HeadTailProperties
<1>3. \A i \in 1..Len(Tail(q)) : Tail(q)[i] = q[i+1]
  BY HeadTailProperties
<1>4. q[1] \in Nat
  BY <1>1, ElementOfSeq
<1> QED BY <1>1, <1>2, <1>3, <1>4 DEF Shifted

\* The length and the elements of a sequence of events are numbers.
LEMMA SeqNumbers == \A q \in Seq(Nat) : Numbers(q)
BY LenProperties, ElementOfSeq DEF Numbers

\* The next event, taken by a channel with room.
LEMMA Extended ==
  ASSUME NEW t, NEW q, Numbers(t), Numbers(q), NEW m \in Nat, NEW h \in Nat,
         NEW p, Grown(p, q, h + 1), Within(t, q, m, h)
  PROVE  /\ Within(t, p, m, h + 1)
         /\ Ordered(t, q) => Ordered(t, p)
         /\ Complete(t, q, m, h) => Complete(t, p, m, h + 1)
<1>0. /\ Len(t) \in Nat /\ Len(q) \in Nat
      /\ \A i \in 1..Len(t) : t[i] \in Nat
      /\ \A i \in 1..Len(q) : q[i] \in Nat
  BY DEF Numbers
<1>1. Within(t, p, m, h + 1)
  <2>1. Len(p) + m <= h + 1 /\ h <= h + 1 /\ m < h + 1
    BY <1>0 DEF Within, Grown
  <2>2. \A i \in 1..Len(t) : t[i] <= h + 1
    BY <1>0 DEF Within
  <2>3. ASSUME NEW k \in 1..Len(p) PROVE m < p[k] /\ p[k] <= h + 1
    <3>1. CASE k \in 1..Len(q)
      BY <1>0, <2>1, <3>1 DEF Within, Grown
    <3>2. CASE k = Len(q) + 1
      BY <1>0, <2>1, <3>2 DEF Grown
    <3> QED BY <3>1, <3>2 DEF Grown
  <2> QED BY <2>1, <2>2, <2>3 DEF Within
<1>2. Ordered(t, q) => Ordered(t, p)
  <2> SUFFICES ASSUME Ordered(t, q) PROVE Ordered(t, p)
    OBVIOUS
  <2>1. ASSUME NEW i \in 1..Len(p), NEW k \in 1..Len(p), i < k PROVE p[i] < p[k]
    <3>1. i \in 1..Len(q)
      BY <1>0, <2>1 DEF Grown
    <3>2. CASE k \in 1..Len(q)
      BY <2>1, <3>1, <3>2 DEF Ordered, Grown
    <3>3. CASE k = Len(q) + 1
      BY <1>0, <3>1, <3>3 DEF Within, Grown
    <3> QED BY <3>2, <3>3 DEF Grown
  <2>2. \A i \in 1..Len(t), k \in 1..Len(p) : t[i] < p[k]
    BY <1>0 DEF Within, Ordered, Grown
  <2> QED BY <2>1, <2>2 DEF Ordered
<1>3. Complete(t, q, m, h) => Complete(t, p, m, h + 1)
  <2> SUFFICES ASSUME Complete(t, q, m, h), NEW e \in 1..h+1, e <= m + Capacity
               PROVE  Listed(t, e) \/ Listed(p, e) \/ e \in Len(t)+1 .. m
    BY DEF Complete
  <2>1. CASE e = h + 1
    BY <1>0, <2>1 DEF Listed, Grown
  <2>2. CASE e # h + 1
    <3>1. Listed(t, e) \/ Listed(q, e) \/ e \in Len(t)+1 .. m
      BY <2>2 DEF Complete
    <3>2. Listed(q, e) => Listed(p, e)
      BY <1>0 DEF Listed, Grown
    <3> QED BY <3>1, <3>2
  <2> QED BY <2>1, <2>2
<1> QED BY <1>1, <1>2, <1>3

\* The next event, lost by a channel that holds Capacity live ones already.
LEMMA Overrun ==
  ASSUME NEW t, NEW q, Numbers(t), Numbers(q), NEW m \in Nat, NEW h \in Nat,
         Within(t, q, m, h)
  PROVE  /\ Within(t, q, m, h + 1)
         /\ Len(q) = Capacity /\ Complete(t, q, m, h) => Complete(t, q, m, h + 1)
<1>0. /\ Len(t) \in Nat /\ Len(q) \in Nat
      /\ \A i \in 1..Len(t) : t[i] \in Nat
      /\ \A i \in 1..Len(q) : q[i] \in Nat
  BY DEF Numbers
<1>1. Within(t, q, m, h + 1)
  BY <1>0 DEF Within
<1>2. ASSUME Len(q) = Capacity, Complete(t, q, m, h), NEW e \in 1..h+1,
             e <= m + Capacity
      PROVE  e \in 1..h
  BY <1>0, <1>2 DEF Within
<1> QED BY <1>1, <1>2 DEF Complete

\* The first of the channel, taken after the replay.
LEMMA Received ==
  ASSUME NEW t, NEW q, Numbers(t), Numbers(q), NEW m \in Nat, NEW h \in Nat,
         NEW s, NEW p, Grown(s, t, q[1]), Shifted(p, q), Len(t) >= m,
         Within(t, q, m, h)
  PROVE  /\ Within(s, p, m, h)
         /\ Ordered(t, q) => Ordered(s, p)
         /\ Complete(t, q, m, h) => Complete(s, p, m, h)
<1>0. /\ Len(t) \in Nat /\ Len(q) \in Nat
      /\ \A i \in 1..Len(t) : t[i] \in Nat
      /\ \A i \in 1..Len(q) : q[i] \in Nat
  BY DEF Numbers
<1>1. Within(s, p, m, h)
  <2>1. Len(p) + m <= h /\ 1 \in 1..Len(q) /\ Len(s) > m
    BY <1>0 DEF Within, Grown, Shifted
  <2>2. \A i \in 1..Len(s) : s[i] <= h
    BY <1>0, <2>1 DEF Within, Grown
  <2>3. ASSUME NEW k \in 1..Len(p) PROVE m < p[k] /\ p[k] <= h
    BY <1>0 DEF Within, Shifted
  <2> QED BY <1>0, <2>1, <2>2, <2>3 DEF Within, Grown
<1>2. Ordered(t, q) => Ordered(s, p)
  <2> SUFFICES ASSUME Ordered(t, q) PROVE Ordered(s, p)
    OBVIOUS
  <2>1. \A i, k \in 1..Len(s) : i < k => s[i] < s[k]
    BY <1>0 DEF Ordered, Grown, Shifted
  <2>2. ASSUME NEW i \in 1..Len(p), NEW k \in 1..Len(p), i < k PROVE p[i] < p[k]
    <3>1. /\ i + 1 \in 1..Len(q) /\ p[i] = q[i+1]
          /\ k + 1 \in 1..Len(q) /\ p[k] = q[k+1]
      BY DEF Shifted
    <3>2. i + 1 < k + 1
      BY <1>0, <2>2 DEF Shifted
    <3> QED BY <3>1, <3>2 DEF Ordered
  <2>3. ASSUME NEW i \in 1..Len(s), NEW k \in 1..Len(p) PROVE s[i] < p[k]
    <3>1. k + 1 \in 1..Len(q) /\ p[k] = q[k+1] /\ 1 \in 1..Len(q) /\ 1 < k + 1
      BY <1>0 DEF Shifted
    <3>2. CASE i \in 1..Len(t)
      BY <3>1, <3>2 DEF Ordered, Grown
    <3>3. CASE i = Len(t) + 1
      BY <3>1, <3>3 DEF Ordered, Grown
    <3> QED BY <3>2, <3>3 DEF Grown
  <2> QED BY <2>1, <2>2, <2>3 DEF Ordered
<1>3. Complete(t, q, m, h) => Complete(s, p, m, h)
  <2> SUFFICES ASSUME Complete(t, q, m, h), NEW e \in 1..h, e <= m + Capacity
               PROVE  Listed(s, e) \/ Listed(p, e)
    BY DEF Complete
  <2>1. Listed(t, e) \/ Listed(q, e)
    BY <1>0 DEF Complete
  <2>2. Listed(t, e) => Listed(s, e)
    BY <1>0 DEF Listed, Grown
  <2>3. ASSUME NEW k \in 1..Len(q), q[k] = e PROVE Listed(s, e) \/ Listed(p, e)
    <3>1. CASE k = 1
      BY <1>0, <2>3, <3>1 DEF Listed, Grown
    <3>2. CASE k # 1
      <4>1. k - 1 \in 1..Len(p) /\ p[k-1] = e
        BY <1>0, <2>3, <3>2 DEF Shifted
      <4> QED BY <4>1 DEF Listed
    <3> QED BY <3>1, <3>2
  <2> QED BY <2>1, <2>2, <2>3 DEF Listed
<1> QED BY <1>1, <1>2, <1>3

\* The next of the history, taken before anything of the channel.
LEMMA Replayed ==
  ASSUME NEW t, NEW q, Numbers(t), Numbers(q), NEW m \in Nat, NEW h \in Nat,
         NEW s, Grown(s, t, Len(t) + 1), Len(t) < m, Within(t, q, m, h)
  PROVE  /\ Within(s, q, m, h)
         /\ Ordered(t, q) => Ordered(s, q)
         /\ Complete(t, q, m, h) => Complete(s, q, m, h)
<1>0. /\ Len(t) \in Nat /\ Len(q) \in Nat
      /\ \A i \in 1..Len(t) : t[i] \in Nat
      /\ \A i \in 1..Len(q) : q[i] \in Nat
  BY DEF Numbers
<1>1. \A i \in 1..Len(s) : s[i] = i
  BY <1>0, SMTT(30) DEF Within, Grown
<1>2. Within(s, q, m, h)
  BY <1>0, <1>1 DEF Within, Grown
<1>3. Ordered(t, q) => Ordered(s, q)
  BY <1>0, <1>1 DEF Within, Ordered, Grown
<1>4. Complete(t, q, m, h) => Complete(s, q, m, h)
  <2> SUFFICES ASSUME Complete(t, q, m, h), NEW e \in 1..h, e <= m + Capacity
               PROVE  Listed(s, e) \/ Listed(q, e) \/ e \in Len(s)+1 .. m
    BY DEF Complete
  <2>1. Listed(t, e) \/ Listed(q, e) \/ e \in Len(t)+1 .. m
    BY DEF Complete
  <2>2. Listed(t, e) => Listed(s, e)
    BY <1>0 DEF Listed, Grown
  <2>3. e = Len(t) + 1 => Listed(s, e)
    BY <1>0 DEF Listed, Grown
  <2> QED BY <1>0, <2>1, <2>2, <2>3 DEF Grown
<1> QED BY <1>2, <1>3, <1>4

-----------------------------------------------------------------------------
(***************************************************************************)
(* The inductive invariant.                                                 *)
(***************************************************************************)
Served(c) == stage[c] \in {"stream", "write", "ended"}

Client(c) ==
  /\ Within(taken[c], queue[c], mark[c], history)
  /\ Ordered(taken[c], queue[c])
  /\ Served(c) => Complete(taken[c], queue[c], mark[c], history)
  /\ Served(c) /\ ~closed => c \in subs
  /\ stage[c] = "idle" =>
       /\ queue[c] = <<>> /\ taken[c] = <<>>
       /\ c \notin subs \cup shut

IInv == TypeOK /\ RegisteredChannelsOpen /\ \A c \in Clients : Client(c)

\* Nobody has come and nothing has been published.
LEMMA InitInv == Init => IInv
<1> SUFFICES ASSUME Init PROVE IInv
  OBVIOUS
<1>1. <<>> \in Seq(Nat) /\ Len(<<>>) = 0
  BY EmptySeq
<1>2. \A c \in Clients : queue[c] = <<>> /\ taken[c] = <<>>
  BY DEF Init
<1>3. TypeOK
  <2>1. queue \in [Clients -> Seq(Nat)] /\ taken \in [Clients -> Seq(Nat)]
    BY <1>1 DEF Init
  <2>2. \A c \in Clients : Len(queue[c]) <= Capacity
    <3>1. 0 <= Capacity
      BY BusAssumption
    <3> QED BY <1>1, <1>2, <3>1
  <2> QED BY <2>1, <2>2 DEF Init, TypeOK
<1>4. RegisteredChannelsOpen
  BY DEF Init, RegisteredChannelsOpen
<1>5. ASSUME NEW c \in Clients PROVE Client(c)
  <2>1. Within(<<>>, <<>>, 0, 0) /\ Ordered(<<>>, <<>>)
    BY <1>1 DEF Within, Ordered
  <2> QED BY <1>2, <2>1 DEF Init, Client, Served
<1> QED BY <1>3, <1>4, <1>5 DEF IInv

\* A step that leaves a client's own state alone keeps its part of the invariant.
LEMMA Undisturbed ==
  ASSUME IInv, NEW c \in Clients,
         history' = history, queue'[c] = queue[c], stage'[c] = stage[c],
         mark'[c] = mark[c], taken'[c] = taken[c],
         closed' = closed, c \in subs' <=> c \in subs, c \in shut' <=> c \in shut
  PROVE  Client(c)'
BY DEF IInv, Client, Served

\* Publish: the event is later than all a client holds, and only a channel that
\* holds Capacity live ones loses it.
LEMMA PublishStep ==
  ASSUME IInv, Publish
  PROVE  IInv'
<1>1. ASSUME NEW c \in Clients
      PROVE  /\ queue[c] \in Seq(Nat) /\ taken[c] \in Seq(Nat) /\ mark[c] \in Nat
             /\ Numbers(queue[c]) /\ Numbers(taken[c])
             /\ Len(queue[c]) \in Nat /\ Len(queue[c]) <= Capacity /\ Client(c)
  BY SeqNumbers DEF IInv, TypeOK, Numbers
<1>2. history \in Nat /\ history' = history + 1 /\ Capacity \in Nat
  BY BusAssumption DEF IInv, TypeOK, Publish
<1>3. ASSUME NEW c \in Clients
      PROVE  \/ /\ queue'[c] = queue[c]
                /\ Len(queue[c]) = Capacity \/ c \notin subs
             \/ /\ queue'[c] = Append(queue[c], history + 1)
                /\ Len(queue[c]) < Capacity
  BY <1>1, <1>2 DEF Publish, Offer
<1>4. \A c \in Clients : queue'[c] = Append(queue[c], history + 1) =>
        queue'[c] \in Seq(Nat) /\ Grown(queue'[c], queue[c], history + 1)
  BY <1>1, <1>2, AppendFacts
<1>5. TypeOK'
  <2>1. \A c \in Clients : queue'[c] \in Seq(Nat) /\ Len(queue'[c]) <= Capacity
    BY <1>1, <1>2, <1>3, <1>4 DEF Grown
  <2>2. queue' \in [Clients -> Seq(Nat)]
    BY <2>1 DEF Publish
  <2> QED BY <1>2, <2>1, <2>2 DEF IInv, TypeOK, Publish, handlerVars
<1>6. RegisteredChannelsOpen'
  BY DEF IInv, RegisteredChannelsOpen, Publish, handlerVars
<1>7. ASSUME NEW c \in Clients PROVE Client(c)'
  <2>1. /\ taken'[c] = taken[c] /\ mark'[c] = mark[c] /\ stage'[c] = stage[c]
        /\ subs' = subs /\ shut' = shut /\ ~closed /\ ~closed'
    BY DEF Publish, handlerVars
  <2>2. stage[c] = "idle" => queue'[c] = queue[c]
    BY <1>1 DEF Publish, Client
  <2>3. CASE queue'[c] = Append(queue[c], history + 1)
    BY <1>1, <1>2, <1>4, <2>1, <2>2, <2>3, Extended DEF Client, Served
  <2>4. CASE queue'[c] = queue[c] /\ (Len(queue[c]) = Capacity \/ c \notin subs)
    BY <1>1, <1>2, <2>1, <2>4, Overrun DEF Client, Served
  <2> QED BY <1>3, <2>3, <2>4
<1> QED BY <1>5, <1>6, <1>7 DEF IInv

\* Receive: the first of the channel is the next after all that was taken.
LEMMA ReceiveStep ==
  ASSUME IInv, NEW c \in Clients, Receive(c)
  PROVE  IInv'
<1>1. /\ queue[c] \in Seq(Nat) /\ taken[c] \in Seq(Nat) /\ mark[c] \in Nat
      /\ history \in Nat /\ Len(queue[c]) <= Capacity /\ Client(c)
      /\ Len(queue[c]) \in Nat /\ Len(taken[c]) \in Nat /\ Capacity \in Nat
      /\ Numbers(queue[c]) /\ Numbers(taken[c])
  BY SeqNumbers, BusAssumption DEF IInv, TypeOK, Numbers
<1>2. /\ queue[c] # <<>> /\ stage[c] = "stream" /\ Len(taken[c]) >= mark[c]
      /\ queue'[c] = Tail(queue[c]) /\ taken'[c] = Append(taken[c], Head(queue[c]))
      /\ stage'[c] = "write" /\ mark' = mark /\ history' = history
      /\ closed' = closed /\ subs' = subs /\ shut' = shut
  BY DEF IInv, TypeOK, Receive, Selecting, busVars
<1>3. /\ queue'[c] \in Seq(Nat) /\ Shifted(queue'[c], queue[c])
      /\ taken'[c] \in Seq(Nat) /\ Grown(taken'[c], taken[c], queue[c][1])
  BY <1>1, <1>2, TailFacts, AppendFacts
<1>4. TypeOK'
  BY <1>1, <1>3 DEF IInv, TypeOK, Receive, Shifted, Grown, busVars
<1>5. RegisteredChannelsOpen'
  BY DEF IInv, TypeOK, RegisteredChannelsOpen, Receive, busVars
<1>6. Client(c)'
  BY <1>1, <1>2, <1>3, Received DEF Client, Served
<1>7. ASSUME NEW d \in Clients, d # c PROVE Client(d)'
  BY <1>2, <1>7, Undisturbed DEF IInv, TypeOK, Receive
<1> QED BY <1>4, <1>5, <1>6, <1>7 DEF IInv

\* Replay: the next of the history is the next after all that was replayed.
LEMMA ReplayStep ==
  ASSUME IInv, NEW c \in Clients, Replay(c)
  PROVE  IInv'
<1>1. /\ queue[c] \in Seq(Nat) /\ taken[c] \in Seq(Nat) /\ mark[c] \in Nat
      /\ history \in Nat /\ Len(taken[c]) \in Nat /\ Client(c)
      /\ Numbers(queue[c]) /\ Numbers(taken[c])
  BY SeqNumbers DEF IInv, TypeOK, Numbers
<1>2. /\ Len(taken[c]) < mark[c] /\ stage[c] = "stream"
      /\ taken'[c] = Append(taken[c], Len(taken[c]) + 1)
      /\ queue' = queue /\ stage' = stage /\ mark' = mark /\ history' = history
      /\ closed' = closed /\ subs' = subs /\ shut' = shut
  BY DEF IInv, TypeOK, Replay, busVars
<1>3. taken'[c] \in Seq(Nat) /\ Grown(taken'[c], taken[c], Len(taken[c]) + 1)
  BY <1>1, <1>2, AppendFacts
<1>4. TypeOK'
  BY <1>3 DEF IInv, TypeOK, Replay, Grown, busVars
<1>5. RegisteredChannelsOpen'
  BY <1>2 DEF IInv, RegisteredChannelsOpen
<1>6. Client(c)'
  BY <1>1, <1>2, <1>3, Replayed DEF Client, Served
<1>7. ASSUME NEW d \in Clients, d # c PROVE Client(d)'
  BY <1>2, <1>7, Undisturbed DEF IInv, TypeOK, Replay
<1> QED BY <1>4, <1>5, <1>6, <1>7 DEF IInv

\* Subscribe: the copied history is all there is to replay, the channel is empty.
LEMMA SubscribeStep ==
  ASSUME IInv, NEW c \in Clients, Subscribe(c)
  PROVE  IInv'
<1>1. /\ queue'[c] = <<>> /\ taken'[c] = <<>> /\ mark'[c] = history
      /\ stage[c] = "idle" /\ stage'[c] = "stream"
      /\ c \notin subs \cup shut /\ history \in Nat /\ history' = history
      /\ closed' = closed
      /\ ~closed => c \in subs'
  BY DEF IInv, TypeOK, Client, Subscribe, busVars
<1>2. TypeOK'
  BY DEF IInv, TypeOK, Subscribe, busVars
<1>3. RegisteredChannelsOpen'
  BY <1>1 DEF IInv, TypeOK, RegisteredChannelsOpen, Subscribe, busVars
<1>4. Client(c)'
  <2>1. Len(queue'[c]) = 0 /\ Len(taken'[c]) = 0
    BY <1>1, EmptySeq
  <2>2. /\ Within(taken'[c], queue'[c], history, history)
        /\ Ordered(taken'[c], queue'[c])
        /\ Complete(taken'[c], queue'[c], history, history)
    BY <1>1, <2>1 DEF Within, Ordered, Complete
  <2>3. stage'[c] # "idle"
    BY <1>1
  <2> QED BY <1>1, <2>2, <2>3 DEF Client, Served
<1>5. ASSUME NEW d \in Clients, d # c PROVE Client(d)'
  <2>1. /\ queue'[d] = queue[d] /\ taken'[d] = taken[d]
        /\ stage'[d] = stage[d] /\ mark'[d] = mark[d]
        /\ d \in subs' <=> d \in subs
        /\ d \in shut' <=> d \in shut
    BY <1>5 DEF IInv, TypeOK, Subscribe
  <2> QED BY <1>1, <2>1, Undisturbed
<1> QED BY <1>2, <1>3, <1>4, <1>5 DEF IInv

\* Every other step of a handler moves its stage, or its channel's registration
\* when it returns.
LEMMA HandlerMoves ==
  ASSUME IInv, NEW c \in Clients,
         Write(c) \/ EndOfStream(c) \/ Hangup(c) \/ Unsubscribe(c) \/ Disconnect(c)
  PROVE  IInv'
<1> USE DEF Write, EndOfStream, Hangup, Unsubscribe, Disconnect, Selecting, busVars
<1>1. /\ UNCHANGED <<history, closed, queue, mark, taken>>
      /\ Served(c)' => Served(c) /\ subs' = subs
      /\ stage[c] # "idle" /\ stage'[c] # "idle"
  BY DEF IInv, TypeOK, Served
<1>2. /\ subs' \in SUBSET subs /\ subs \ subs' \subseteq {c}
      /\ shut' \ shut \subseteq {c} /\ shut \subseteq shut'
  BY DEF IInv, TypeOK
<1>3. TypeOK'
  BY DEF IInv, TypeOK
<1>4. RegisteredChannelsOpen'
  BY DEF IInv, TypeOK, RegisteredChannelsOpen
<1>5. Client(c)'
  BY <1>1 DEF IInv, Client
<1>6. ASSUME NEW d \in Clients, d # c PROVE Client(d)'
  <2>1. stage'[d] = stage[d]
    BY <1>6 DEF IInv, TypeOK
  <2> QED BY <1>1, <1>2, <1>6, <2>1, Undisturbed
<1> QED BY <1>3, <1>4, <1>5, <1>6 DEF IInv

\* Close: the registered channels are closed and none stays registered.
LEMMA CloseStep ==
  ASSUME IInv, Close
  PROVE  IInv'
<1> USE DEF Close, Closing, Kept, handlerVars
<1>1. TypeOK' /\ RegisteredChannelsOpen'
  BY DEF IInv, TypeOK, RegisteredChannelsOpen
<1>2. ASSUME NEW c \in Clients PROVE Client(c)'
  BY DEF IInv, Client, Served
<1> QED BY <1>1, <1>2 DEF IInv

\* IInv holds in every reachable state of the bus and its clients.
THEOREM BusInvariance == Spec => []IInv
<1>1. IInv /\ [Next]_vars => IInv'
  <2> SUFFICES ASSUME IInv, [Next]_vars PROVE IInv'
    OBVIOUS
  <2>1. CASE Publish
    BY <2>1, PublishStep
  <2>2. CASE Close
    BY <2>2, CloseStep
  <2>3. CASE \E c \in Clients : Subscribe(c) \/ HandlerStep(c) \/ Disconnect(c)
    BY <2>3, SubscribeStep, ReplayStep, ReceiveStep, HandlerMoves DEF HandlerStep
  <2>4. CASE UNCHANGED vars
    <3>1. TypeOK' /\ RegisteredChannelsOpen'
      BY <2>4 DEF vars, busVars, handlerVars, IInv, TypeOK, RegisteredChannelsOpen
    <3>2. ASSUME NEW c \in Clients PROVE Client(c)'
      BY <2>4, Undisturbed DEF vars, busVars, handlerVars
    <3> QED BY <3>1, <3>2 DEF IInv
  <2> QED BY <2>1, <2>2, <2>3, <2>4 DEF Next
<1> QED BY <1>1, InitInv, PTL DEF Spec

\* Every variable keeps its type, and no channel overflows.
THEOREM BusTypesKept == Spec => []TypeOK
BY BusInvariance, PTL DEF IInv

\* No event is sent on a closed channel and no channel is closed twice.
THEOREM ChannelsStayOpen == Spec => []RegisteredChannelsOpen
BY BusInvariance, PTL DEF IInv

\* No client sees an event twice or out of order.
THEOREM StreamsAreOrdered == Spec => []SentInOrder
<1>1. IInv => SentInOrder
  BY DEF IInv, Client, Ordered, SentInOrder
<1> QED BY <1>1, BusInvariance, PTL

\* A burst of at most Capacity events loses nothing.
THEOREM BurstsAreKept == Spec => []BurstKept
<1>1. IInv => BurstKept
  BY DEF IInv, Client, Served, Complete, BurstKept
<1> QED BY <1>1, BusInvariance, PTL
=============================================================================
