----------------------------- MODULE McpClient -----------------------------
(***************************************************************************)
(* The JSON-RPC client of one sandbox, internal/mcp: Client (call, notify,  *)
(* readLoop, dispatch, Close) over the pipes of its server process, the     *)
(* Session above it, and who uses them: the job that starts the server,     *)
(* shakes hands and closes it, and the tools/call requests of API clients.  *)
(*                                                                         *)
(* A response is known by the request it answers.  Mutexes are modelled by  *)
(* the steps they make atomic, except encMu, which is held across a write   *)
(* that may block.                                                         *)
(***************************************************************************)
EXTENDS Naturals

CONSTANTS
  Calls,        \* tools/call requests
  Initialize,   \* the request Session.Bootstrap sends first,
  Initialized,  \* the notification that follows it,
  ListTools,    \* and the request it sends last
  ServerIDs,    \* ids the server gives to requests of its own
  Foreign,      \* such a request, where a response is expected
  None

Handshake == {Initialize, ListTools}
Requests  == Calls \cup Handshake
Messages  == Requests \cup {Initialized}

ASSUME McpAssumption ==
  /\ Calls \cap {Initialize, Initialized, ListTools, Foreign, None} = {}
  /\ Initialize \notin {Initialized, ListTools, Foreign, None}
  /\ Initialized \notin {ListTools, Foreign, None}
  /\ ListTools \notin {Foreign, None}
  /\ Foreign # None

VARIABLES
  stage,     \* where the goroutine that sends a message is
  nextID,    \* Client.nextID
  id,        \* the id a request was given, 0 before
  pending,   \* Client.pending: the requests whose channel is listed under their id
  inbox,     \* what a request's channel holds
  shut,      \* the requests whose channel is closed
  expired,   \* the requests whose context has ended
  reader,    \* where readLoop is
  found,     \* the request whose channel dispatch has looked up,
  answer,    \* and what it is about to send there
  received,  \* the requests written to the server
  server,    \* the process: "orphaned" when only a descendant has its pipes
  owner,     \* where the job's goroutine is
  jobEnded   \* the job's context has ended

callVars   == <<stage, id, inbox>>
readerVars == <<reader, found, answer>>
peerVars   == <<received, server>>
ownerVars  == <<owner, jobEnded>>
vars == <<callVars, nextID, pending, shut, expired, readerVars, peerVars, ownerVars>>

Returned == {"ok", "failed"}

TypeOK ==
  /\ stage \in [Messages -> {"idle", "lock", "write", "wait", "forget"} \cup Returned]
  /\ nextID \in Nat
  /\ id \in [Messages -> Nat]
  /\ \A m, n \in Messages : id[m] = id[n] /\ id[m] # 0 => m = n
  /\ pending \subseteq Requests
  /\ inbox \in [Messages -> Requests \cup {Foreign, None}]
  /\ shut \subseteq Requests
  /\ expired \subseteq Requests
  /\ reader \in {"read", "send", "close", "done"}
  /\ found \in Requests \cup {None}
  /\ answer \in Requests \cup {Foreign, None}
  /\ received \subseteq Messages
  /\ server \in {"running", "orphaned", "gone"}
  /\ owner \in {"boot", "serve", "close", "kill", "wait", "closed"}
  /\ jobEnded \in BOOLEAN

Init ==
  /\ stage = [m \in Messages |-> "idle"]
  /\ nextID = 0
  /\ id = [m \in Messages |-> 0]
  /\ pending = {}
  /\ inbox = [m \in Messages |-> None]
  /\ shut = {}
  /\ expired = {}
  /\ reader = "read"
  /\ found = None
  /\ answer = None
  /\ received = {}
  /\ server = "running"
  /\ owner = "boot"
  /\ jobEnded = FALSE

-----------------------------------------------------------------------------
(* Who may send what *)

\* Session.ready is set when the handshake is complete and never reset.
Ready == owner # "boot" /\ stage[ListTools] = "ok"

MayStart(m) ==
  \/ m \in Calls /\ Ready
  \/ m = Initialize /\ owner = "boot"
  \/ m = Initialized /\ stage[Initialize] = "ok"
  \/ m = ListTools /\ stage[Initialized] \in Returned

Step(m, from, to) ==
  /\ stage[m] = from
  /\ stage' = [stage EXCEPT ![m] = to]

-----------------------------------------------------------------------------
(* Client.call and notify *)

FreshIDRestarted == IF pending = {} THEN 1 ELSE nextID + 1   \* fault: ids recur
FreshID          == nextID + 1

\* readErr is looked at and the channel listed under one lock.
ReaderGoneUnseen == FALSE                      \* fault: readErr is not looked at
ReaderGone       == reader = "done"

Refuse(m) ==
  /\ MayStart(m)
  /\ ReaderGone
  /\ Step(m, "idle", "failed")
  /\ UNCHANGED <<id, inbox, nextID, pending, shut, expired, readerVars,
                 peerVars, ownerVars>>

Register(m) ==
  /\ MayStart(m)
  /\ ~ReaderGone
  /\ Step(m, "idle", "lock")
  /\ nextID' = FreshID
  /\ id' = [id EXCEPT ![m] = FreshID]
  /\ pending' = pending \cup {m}
  /\ UNCHANGED <<inbox, shut, expired, readerVars, peerVars, ownerVars>>

\* notify goes to the write at once.
Notify ==
  /\ MayStart(Initialized)
  /\ Step(Initialized, "idle", "lock")
  /\ UNCHANGED <<id, inbox, nextID, pending, shut, expired, readerVars,
                 peerVars, ownerVars>>

\* encMu, which the message keeps until its write returns.
Lock(m) ==
  /\ \A n \in Messages : stage[n] # "write"
  /\ Step(m, "lock", "write")
  /\ UNCHANGED <<id, inbox, nextID, pending, shut, expired, readerVars,
                 peerVars, ownerVars>>

StdinOpen == owner \in {"boot", "serve", "close"}

\* The server, or a descendant that has its pipe, makes room for the message.
WriteDone(m) ==
  /\ StdinOpen
  /\ server # "gone"
  /\ Step(m, "write", IF m = Initialized THEN "ok" ELSE "wait")
  /\ received' = received \cup {m}
  /\ UNCHANGED <<id, inbox, nextID, pending, shut, expired, readerVars, server,
                 ownerVars>>

\* The pipe is closed at this end or broken at the other.
WriteFails(m) ==
  /\ ~StdinOpen \/ server = "gone"
  /\ Step(m, "write", IF m = Initialized THEN "failed" ELSE "forget")
  /\ UNCHANGED <<id, inbox, nextID, pending, shut, expired, readerVars,
                 peerVars, ownerVars>>

\* The three ways out of the select; what is ready first or together may win.
TimeOut(m) ==
  /\ m \in expired
  /\ Step(m, "wait", "forget")
  /\ UNCHANGED <<id, inbox, nextID, pending, shut, expired, readerVars,
                 peerVars, ownerVars>>

\* The response is a result or an error; a list of tools may not parse.
TakeAnswer(m) ==
  /\ inbox[m] # None
  /\ \E outcome \in Returned : Step(m, "wait", outcome)
  /\ UNCHANGED <<id, inbox, nextID, pending, shut, expired, readerVars,
                 peerVars, ownerVars>>

\* "server closed before responding"
FindClosed(m) ==
  /\ inbox[m] = None
  /\ m \in shut
  /\ Step(m, "wait", "failed")
  /\ UNCHANGED <<id, inbox, nextID, pending, shut, expired, readerVars,
                 peerVars, ownerVars>>

\* A call that gives up takes its channel off the list.
Forget(m) ==
  /\ Step(m, "forget", "failed")
  /\ pending' = pending \ {m}
  /\ UNCHANGED <<id, inbox, nextID, shut, expired, readerVars, peerVars,
                 ownerVars>>

-----------------------------------------------------------------------------
(* Client.readLoop and dispatch *)

DispatchedKept(m) == pending                   \* fault: the entry stays listed
Dispatched(m)     == pending \ {m}

\* A message that bears the id of a pending request; any other is ignored.  Of the
\* message itself dispatch looks at the id alone.
Dispatch(n, message) ==
  /\ reader = "read"
  /\ owner # "closed"
  /\ \E m \in pending :
       /\ id[m] = n
       /\ found' = m
       /\ pending' = Dispatched(m)
  /\ answer' = message
  /\ reader' = "send"
  /\ UNCHANGED <<callVars, nextID, shut, expired, peerVars, ownerVars>>

\* The server answers what it was sent, late, out of order or again; what it wrote
\* before it ended can still be read.
ReadResponse == \E m \in received \cap Requests : Dispatch(id[m], m)

\* A request of the server's own, which has an id as every JSON-RPC request has.
ReadRequest == \E n \in ServerIDs : Dispatch(n, Foreign)

RoomUnbuffered(m) == stage[m] = "wait" /\ inbox[m] = None   \* fault: no buffer
Room(m)           == inbox[m] = None

Send ==
  /\ reader = "send"
  /\ Room(found)
  /\ inbox' = [inbox EXCEPT ![found] = answer]
  /\ reader' = "close"
  /\ UNCHANGED <<stage, id, nextID, pending, shut, expired, found, answer,
                 peerVars, ownerVars>>

CloseChannel ==
  /\ reader = "close"
  /\ shut' = shut \cup {found}
  /\ reader' = "read"
  /\ found' = None
  /\ answer' = None
  /\ UNCHANGED <<callVars, nextID, pending, expired, peerVars, ownerVars>>

\* The output ends with the last process that has it, or is closed by cmd.Wait.
EndOfOutput ==
  /\ reader = "read"
  /\ server = "gone" \/ owner = "closed"
  /\ reader' = "done"
  /\ shut' = shut \cup pending
  /\ pending' = {}
  /\ UNCHANGED <<callVars, nextID, expired, found, answer, peerVars, ownerVars>>

-----------------------------------------------------------------------------
(* The job: Session.Bootstrap, the wait for the context, Client.Close *)

OwnerStep(from, to) ==
  /\ owner = from
  /\ owner' = to
  /\ UNCHANGED <<callVars, nextID, pending, shut, expired, readerVars, received,
                 jobEnded>>

Bootstrapped ==
  /\ stage[ListTools] = "ok"
  /\ OwnerStep("boot", "serve")
  /\ UNCHANGED server

BootFails ==
  /\ \E m \in Handshake : stage[m] = "failed"
  /\ OwnerStep("boot", "close")
  /\ UNCHANGED server

StopServing ==
  /\ jobEnded
  /\ OwnerStep("serve", "close")
  /\ UNCHANGED server

\* Close does not wait for encMu: it makes a write that is blocked fail.
WritersOut == \A m \in Messages : stage[m] # "write"   \* fault: it does wait
MayClose   == TRUE

CloseStdin ==
  /\ MayClose
  /\ OwnerStep("close", "kill")
  /\ UNCHANGED server

KillServer ==
  /\ OwnerStep("kill", "wait")
  /\ server' \in IF server = "running" THEN {"orphaned", "gone"} ELSE {server}

\* cmd.Wait, as in JobManager: a descendant that has one pipe has them all.
Reap ==
  /\ server = "gone"
  /\ OwnerStep("wait", "closed")
  /\ UNCHANGED server

-----------------------------------------------------------------------------
(* Time and the server's process *)

\* The RPC timeout of a call, or its client hangs up.
Expire(m) ==
  /\ m \in Calls \ expired
  /\ stage[m] \notin {"idle"} \cup Returned
  /\ expired' = expired \cup {m}
  /\ UNCHANGED <<callVars, nextID, pending, shut, readerVars, peerVars, ownerVars>>

\* The startup timeout, one for the whole handshake.
ExpireHandshake ==
  /\ owner = "boot"
  /\ ~ (Handshake \subseteq expired)
  /\ expired' = expired \cup Handshake
  /\ UNCHANGED <<callVars, nextID, pending, shut, readerVars, peerVars, ownerVars>>

\* The job's context, from which the handshake's is derived and no call's.
EndJob ==
  /\ ~jobEnded
  /\ jobEnded' = TRUE
  /\ expired' = expired \cup Handshake
  /\ UNCHANGED <<callVars, nextID, pending, shut, readerVars, peerVars, owner>>

\* By itself, or killed by exec.CommandContext.
ServerExit ==
  /\ server = "running"
  /\ server' \in {"orphaned", "gone"}
  /\ UNCHANGED <<callVars, nextID, pending, shut, expired, readerVars, received,
                 ownerVars>>

DescendantExit ==
  /\ server = "orphaned"
  /\ server' = "gone"
  /\ UNCHANGED <<callVars, nextID, pending, shut, expired, readerVars, received,
                 ownerVars>>

-----------------------------------------------------------------------------
Start(m) == Refuse(m) \/ Register(m)

Proceed(m) ==
  \/ Lock(m)       \/ WriteFails(m)  \/ TimeOut(m)
  \/ TakeAnswer(m) \/ FindClosed(m)  \/ Forget(m)

Reader == ReadResponse \/ ReadRequest \/ Send \/ CloseChannel \/ EndOfOutput

Owner ==
  Bootstrapped \/ BootFails \/ StopServing \/ CloseStdin \/ KillServer \/ Reap

Next ==
  \/ \E m \in Requests : Start(m)
  \/ Notify
  \/ \E m \in Messages : Proceed(m) \/ WriteDone(m) \/ Expire(m)
  \/ Reader
  \/ Owner
  \/ ExpireHandshake \/ EndJob \/ ServerExit \/ DescendantExit

Spec == Init /\ [][Next]_vars

(***************************************************************************)
(* Fairness: goroutines that can proceed are run, timers fire, and exec     *)
(* kills the server of a job that has ended.  The handshake's messages fit  *)
(* in the empty pipe, so their writes return; those of a call may be longer *)
(* than the pipe, and nothing makes the server read.  It need not answer, and*)
(* a descendant need not exit.                                              *)
(***************************************************************************)
Fairness ==
  /\ \A m \in Handshake : WF_vars(Start(m))
  /\ WF_vars(Notify)
  /\ \A m \in Messages : WF_vars(Proceed(m)) /\ WF_vars(Expire(m))
  /\ \A m \in Messages \ Calls : WF_vars(WriteDone(m))
  /\ WF_vars(Send \/ CloseChannel)
  /\ WF_vars(EndOfOutput)
  /\ WF_vars(Owner)
  /\ WF_vars(ExpireHandshake)
  /\ WF_vars(jobEnded /\ ServerExit)

\* LongSpec leaves the job's TTL open; under FairSpec it ends.
LongSpec == Spec /\ Fairness
FairSpec == LongSpec /\ WF_vars(EndJob)

-----------------------------------------------------------------------------
(* Safety *)

\* No call is handed the response to another one, however late or often the server
\* answers requests that have been given up: an id is never used again.
AnswersAreOwn == \A m \in Requests : inbox[m] \in {m, Foreign, None}

\* A channel gets one message and is closed once, by dispatch or by the end of the
\* read loop: a second message or close would panic, or block the loop for ever.
ChannelsUsedOnce ==
  /\ reader = "send" => inbox[found] = None /\ found \notin shut \cup pending
  /\ reader = "close" => found \notin shut \cup pending
  /\ pending \cap shut = {}

\* A call that waits will be told: it is listed, or dispatch has its channel, or the
\* channel has an answer or is closed.  What is listed belongs to a call in progress.
NoWaiterForgotten ==
  /\ \A m \in Requests : stage[m] = "wait" =>
       \/ m \in pending \/ inbox[m] # None \/ m \in shut
       \/ reader = "send" /\ found = m
  /\ \A m \in pending : stage[m] \in {"lock", "write", "wait", "forget"}
  /\ reader = "done" => pending = {}

\* stdio_client.go:68: a "notification or request" the server initiates is
\* "ignored": no call takes it for its response.
ServerRequestsIgnored == \A m \in Requests : inbox[m] # Foreign

-----------------------------------------------------------------------------
(* Liveness.  A message is sent, and a job ends, once: what holds for good in the end     *)
(* comes of each of these.                                                                *)

\* Every call returns, by the end of the job at the latest, also one that is blocked
\* in its write and those queued behind it: Close does not wait for them.
CallsReturn == <>[](\A m \in Messages : stage[m] # "idle" => stage[m] \in Returned)

\* The read loop ends once nobody has the server's output, whatever calls have
\* timed out with an answer under way: the sandbox leaks no goroutine.
ReaderEnds == <>[](jobEnded /\ server = "gone" => reader = "done")

\* config.go:136 has a "per-RPC timeout for MCP calls": a call returns once its
\* context has ended, without waiting for the job to end.
TimeoutsEndCalls == \A m \in Calls : m \in expired ~> stage[m] \in Returned
=============================================================================
