------------------------------ MODULE EventBus ------------------------------
(***************************************************************************)
(* A job's event bus, internal/logs/stream.go, and the handler that serves  *)
(* it as Server-Sent Events, streamEvents in internal/api: one publisher,   *)
(* any number of clients.  Every method of the bus holds its mutex, so it   *)
(* is one step; a client's handler may be anywhere between two of them.     *)
(*                                                                         *)
(* The n-th event published is the number n: the code never looks into one. *)
(***************************************************************************)
EXTENDS Naturals, Sequences

CONSTANTS
  Clients,    \* GET .../events requests
  Capacity,   \* what a subscriber's channel holds (64 in the code)
  MaxEvents   \* how many events the job publishes

ASSUME BusAssumption ==
  /\ Capacity \in Nat \ {0}
  /\ MaxEvents \in Nat

VARIABLES
  history,   \* how many events Bus.history retains
  closed,    \* Bus.closed
  subs,      \* Bus.subs: the clients whose channel is registered
  shut,      \* the clients whose channel is closed
  queue,     \* what each client's channel holds
  stage,     \* where each client's handler is
  mark,      \* the length of the history it was given to replay
  taken,     \* the events it has taken to send, the last perhaps being written
  gone       \* the clients whose request context has ended

busVars     == <<history, closed>>
handlerVars == <<stage, mark, taken, gone>>
vars        == <<busVars, subs, shut, queue, handlerVars>>

TypeOK ==
  /\ history \in Nat
  /\ closed \in BOOLEAN
  /\ subs \subseteq Clients
  /\ shut \subseteq Clients
  /\ queue \in [Clients -> Seq(Nat)]
  /\ stage \in [Clients -> {"idle", "stream", "write", "ended", "left", "done"}]
  /\ mark \in [Clients -> Nat]
  /\ taken \in [Clients -> Seq(Nat)]
  /\ gone \subseteq Clients
  /\ \A c \in Clients : Len(queue[c]) <= Capacity

Init ==
  /\ history = 0
  /\ closed = FALSE
  /\ subs = {}
  /\ shut = {}
  /\ queue = [c \in Clients |-> <<>>]
  /\ stage = [c \in Clients |-> "idle"]
  /\ mark = [c \in Clients |-> 0]
  /\ taken = [c \in Clients |-> <<>>]
  /\ gone = {}

-----------------------------------------------------------------------------
(* The bus *)

\* A channel with room takes the event; a full one loses it.
OfferOne(q, e)      == IF q = <<>> THEN <<e>> ELSE q    \* fault: holds one event
OfferOffByOne(q, e) == IF Len(q) <= Capacity THEN Append(q, e) ELSE q   \* fault
Offer(q, e) == IF Len(q) < Capacity THEN Append(q, e) ELSE q

Publish ==
  /\ ~closed
  /\ history < MaxEvents
  /\ history' = history + 1
  /\ queue' = [c \in Clients |-> IF c \in subs THEN Offer(queue[c], history + 1)
                                 ELSE queue[c]]
  /\ UNCHANGED <<closed, subs, shut, handlerVars>>

\* What Close closes, and what it leaves registered.
ClosingNothing == {}                           \* fault: the clients wait on
Closing        == subs
KeptByClosing  == subs                         \* fault: cancel closes them again
Kept           == {}

\* What a closed channel holds can still be received.
Close ==
  /\ ~closed
  /\ closed' = TRUE
  /\ shut' = shut \cup Closing
  /\ subs' = Kept
  /\ UNCHANGED <<history, queue, handlerVars>>

-----------------------------------------------------------------------------
(* streamEvents *)

\* Bus.Subscribe copies the history and registers the channel under one lock; a
\* closed bus hands out a closed channel.
Subscribe(c) ==
  /\ stage[c] = "idle"
  /\ stage' = [stage EXCEPT ![c] = "stream"]
  /\ mark' = [mark EXCEPT ![c] = history]
  /\ IF closed THEN shut' = shut \cup {c} /\ UNCHANGED subs
               ELSE subs' = subs \cup {c} /\ UNCHANGED shut
  /\ UNCHANGED <<busVars, queue, taken, gone>>

\* The loop over the history, which ends before the first receive.
Replay(c) ==
  /\ stage[c] = "stream"
  /\ Len(taken[c]) < mark[c]
  /\ taken' = [taken EXCEPT ![c] = Append(@, Len(@) + 1)]
  /\ UNCHANGED <<busVars, subs, shut, queue, stage, mark, gone>>

SelectingEarly(c) == stage[c] = "stream"       \* fault: during the replay too
Selecting(c) == stage[c] = "stream" /\ Len(taken[c]) >= mark[c]

Receive(c) ==
  /\ Selecting(c)
  /\ queue[c] # <<>>
  /\ taken' = [taken EXCEPT ![c] = Append(@, Head(queue[c]))]
  /\ queue' = [queue EXCEPT ![c] = Tail(@)]
  /\ stage' = [stage EXCEPT ![c] = "write"]
  /\ UNCHANGED <<busVars, subs, shut, mark, gone>>

\* The write returns: the client has read it, or it fails, which is ignored.
Write(c) ==
  /\ stage[c] = "write"
  /\ stage' = [stage EXCEPT ![c] = "stream"]
  /\ UNCHANGED <<busVars, subs, shut, queue, mark, taken, gone>>

\* The channel is closed and empty.
EndOfStream(c) ==
  /\ Selecting(c)
  /\ queue[c] = <<>>
  /\ c \in shut
  /\ stage' = [stage EXCEPT ![c] = "ended"]
  /\ UNCHANGED <<busVars, subs, shut, queue, mark, taken, gone>>

\* <-r.Context().Done()
HungUpNever(c) == FALSE                        \* fault: the case is missing
HungUp(c)      == c \in gone

Hangup(c) ==
  /\ Selecting(c)
  /\ HungUp(c)
  /\ stage' = [stage EXCEPT ![c] = "left"]
  /\ UNCHANGED <<busVars, subs, shut, queue, mark, taken, gone>>

\* The deferred cancel: the channel is closed unless the bus has closed it.
Unsubscribe(c) ==
  /\ stage[c] \in {"ended", "left"}
  /\ stage' = [stage EXCEPT ![c] = "done"]
  /\ subs' = subs \ {c}
  /\ shut' = IF c \in subs THEN shut \cup {c} ELSE shut
  /\ UNCHANGED <<busVars, queue, mark, taken, gone>>

\* The client closes its connection.
Disconnect(c) ==
  /\ stage[c] \notin {"idle", "done"}
  /\ c \notin gone
  /\ gone' = gone \cup {c}
  /\ UNCHANGED <<busVars, subs, shut, queue, stage, mark, taken>>

HandlerStep(c) ==
  \/ Replay(c)       \/ Receive(c)  \/ Write(c)
  \/ EndOfStream(c)  \/ Hangup(c)   \/ Unsubscribe(c)

Next ==
  \/ Publish
  \/ Close
  \/ \E c \in Clients : Subscribe(c) \/ HandlerStep(c) \/ Disconnect(c)

Spec == Init /\ [][Next]_vars

(***************************************************************************)
(* Fairness: the scheduler runs a handler that can proceed, and every write *)
(* returns, because its client reads or because its connection is gone.     *)
(* Nothing makes a client come or go, or the job publish or end.            *)
(***************************************************************************)
BusFairness == \A c \in Clients : WF_vars(HandlerStep(c))

-----------------------------------------------------------------------------
(* Safety *)

Listed(q, e) == \E i \in 1..Len(q) : q[i] = e

\* A registered channel is open, whoever closes it, Bus.Close or the deferred
\* cancel: no event is sent on a closed channel and none is closed twice, which
\* in Go is a panic.  No handler that has returned leaves its channel behind.
RegisteredChannelsOpen ==
  /\ subs \cap shut = {}
  /\ closed => subs = {}
  /\ \A c \in subs : stage[c] \notin {"idle", "done"}

\* What a client is sent is in the order of publication, without repetition, also
\* where the replay meets the live events that came in meanwhile.
SentInOrder ==
  \A c \in Clients :
    /\ \A i, k \in 1..Len(taken[c]) : i < k => taken[c][i] < taken[c][k]
    /\ \A i, k \in 1..Len(queue[c]) : i < k => queue[c][i] < queue[c][k]
    /\ \A i \in 1..Len(taken[c]), k \in 1..Len(queue[c]) :
         taken[c][i] < queue[c][k]

\* A client gets all that was published before it came and the next Capacity
\* events, however slowly it reads: only a longer burst is cut.
BurstKept ==
  \A c \in Clients, e \in 1..history :
    stage[c] \in {"stream", "write", "ended"} /\ e <= mark[c] + Capacity
      => \/ Listed(taken[c], e)
         \/ Listed(queue[c], e)
         \/ e \in Len(taken[c])+1 .. mark[c]

\* docs/architecture.md:46-47: the manager "emits a final event and closes the
\* bus"; stream.go:13-15: a subscriber "still receives every event".  A stream
\* that ends because the bus closed has delivered the last event.
FinalEventDelivered ==
  \A c \in Clients : stage[c] = "ended" => history = 0 \/ Listed(taken[c], history)

-----------------------------------------------------------------------------
(* Liveness.  A bus closes once and a client comes and goes once: what holds for good in *)
(* the end comes of each of these.                                                        *)

\* When the bus closes every stream ends, whatever its channel still held.
StreamsEnd == <>[](closed => \A c \in Clients : stage[c] \in {"idle", "done"})

\* The channel of a client that hung up is unregistered although no event comes.
HangupReleases == <>[](gone \cap subs = {})
=============================================================================
