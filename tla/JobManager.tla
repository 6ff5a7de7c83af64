----------------------------- MODULE JobManager -----------------------------
(***************************************************************************)
(* The job manager, internal/jobs: Manager.Create, run, finish, Cancel and  *)
(* Shutdown, the registry (store.go), the retention janitor (janitor.go)    *)
(* and the two shapes a handler has: a task, which works and returns if no  *)
(* command it runs keeps it, and mcp.test, which keeps an MCP server        *)
(* process alive until its context ends (mcptest.go, mcp/runner.go,         *)
(* Client.Close).                                                           *)
(*                                                                         *)
(* Every job is a goroutine; pc is its control point, and a step ends where *)
(* another goroutine may observe or disturb what the next one reads.        *)
(***************************************************************************)
EXTENDS Naturals, FiniteSets

CONSTANTS
  Jobs,               \* job ids; newID never draws one twice
  McpJobs,            \* the jobs of type mcp.test
  SandboxJobs,        \* the mcp.test jobs made by CreateSandbox
  InstallJobs,        \* the jobs of type matrixshell.install, whose handler runs commands
  Callers,            \* DELETE requests, each made once
  MaxConcurrentJobs,  \* cfg.MaxConcurrentJobs, the capacity of Manager.sem
  MaxPolls,           \* how often Cancel looks for the outcome (50 in the code)
  NoJob

ASSUME JobsAssumption ==
  /\ IsFiniteSet(Jobs)
  /\ McpJobs \subseteq Jobs
  /\ SandboxJobs \subseteq McpJobs
  /\ InstallJobs \subseteq Jobs \ McpJobs
  /\ NoJob \notin Jobs

ASSUME LimitsAssumption ==
  /\ MaxConcurrentJobs \in Nat \ {0}
  /\ MaxPolls \in Nat \ {0}

VARIABLES
  pc,        \* where the job's run goroutine is
  creator,   \* where the request that creates the job is
  ctx,       \* the job's context: "live", or why it ended
  ran,       \* what the handler returned
  outcome,   \* what finish has decided and not yet recorded
  status,    \* Job.status
  explained, \* the jobs whose errMsg is set
  session,   \* Job.session
  proc,      \* the MCP server process of the job
  kids,      \* jobs whose server left a descendant holding its stderr open
  slots,     \* tokens in Manager.sem
  stored,    \* store.jobs
  linked,    \* store.sandboxes: the jobs a sandbox session id leads to
  scratch,   \* jobs with a directory under <data>/mcp
  last,      \* the last event on the job's bus
  closed,    \* the jobs whose bus is closed
  old,       \* the jobs created before the janitor's cutoff
  asked,     \* the job a DELETE request names
  polls,     \* the looks a DELETE request has left
  answer,    \* what the DELETE request was answered
  phase      \* "up", or "draining" once Shutdown has run

runVars    == <<pc, ran, outcome>>
jobVars    == <<status, explained, session>>
procVars   == <<proc, kids>>
storeVars  == <<stored, linked>>
busVars    == <<last, closed>>
callerVars == <<asked, polls, answer>>
others     == <<creator, storeVars, old, callerVars, phase>>
vars == <<runVars, ctx, jobVars, procVars, slots, scratch, busVars, others>>

Terminal == {"complete", "error", "expired", "cancelled"}
Statuses == {"none", "queued", "running", "lost"} \cup Terminal

HandlerPoints == {"task", "blocked", "prepare", "spawn", "attach", "boot", "serve"}
FinishPoints  == {"finish", "wait", "cleanup", "decide", "record", "explain",
                  "emit", "close", "leave"}
ControlPoints == {"unborn", "select", "start", "done", "lost"}
                   \cup HandlerPoints \cup FinishPoints

\* Control points from the slot's acquisition to its deferred release.
HoldingPoints == {"start"} \cup HandlerPoints \cup FinishPoints

TypeOK ==
  /\ pc \in [Jobs -> ControlPoints]
  /\ creator \in [Jobs -> {"idle", "put", "linking", "returned"}]
  /\ ctx \in [Jobs -> {"live", "deadline", "cancelled"}]
  /\ ran \in [Jobs -> {"none", "ok", "err", "unstarted"}]
  /\ outcome \in [Jobs -> {"none"} \cup Terminal]
  /\ status \in [Jobs -> Statuses]
  /\ explained \subseteq Jobs
  /\ session \in [Jobs -> {"none", "attached", "ready"}]
  /\ proc \in [Jobs -> {"none", "running", "exited", "reaped"}]
  /\ kids \subseteq Jobs
  /\ slots \in Nat
  /\ stored \subseteq Jobs
  /\ linked \subseteq Jobs
  /\ scratch \subseteq Jobs
  /\ last \in [Jobs -> {"none", "queued", "progress"} \cup Terminal]
  /\ closed \subseteq Jobs
  /\ old \subseteq Jobs
  /\ asked \in [Callers -> Jobs \cup {NoJob}]
  /\ polls \in [Callers -> 0..MaxPolls]
  /\ answer \in [Callers -> {"none"} \cup Terminal]
  /\ phase \in {"up", "draining"}

Init ==
  /\ pc = [j \in Jobs |-> "unborn"]
  /\ creator = [j \in Jobs |-> "idle"]
  /\ ctx = [j \in Jobs |-> "live"]
  /\ ran = [j \in Jobs |-> "none"]
  /\ outcome = [j \in Jobs |-> "none"]
  /\ status = [j \in Jobs |-> "none"]
  /\ explained = {}
  /\ session = [j \in Jobs |-> "none"]
  /\ proc = [j \in Jobs |-> "none"]
  /\ kids = {}
  /\ slots = 0
  /\ stored = {}
  /\ linked = {}
  /\ scratch = {}
  /\ last = [j \in Jobs |-> "none"]
  /\ closed = {}
  /\ old = {}
  /\ asked = [c \in Callers |-> NoJob]
  /\ polls = [c \in Callers |-> MaxPolls]
  /\ answer = [c \in Callers |-> "none"]
  /\ phase = "up"

-----------------------------------------------------------------------------
(* Contexts and buses *)

\* The reason a context ended is the first one; a later cancel changes nothing.
EndCtx(c, reason) == IF c = "live" THEN reason ELSE c

\* <-ctx.Done() is ready.
ContextCancelled(j) == ctx[j] = "cancelled"   \* fault: misses the deadline
ContextEnded(j)     == ctx[j] # "live"

\* Bus.Publish: ignored once the bus is closed.
Emit(j, event) ==
  last' = IF j \in closed THEN last ELSE [last EXCEPT ![j] = event]

Goto(j, from, to) ==
  /\ pc[j] = from
  /\ pc' = [pc EXCEPT ![j] = to]

-----------------------------------------------------------------------------
(* Manager.Create and CreateSandbox *)

\* store.put: the job is listed before its first event and its goroutine.  A
\* context derived from the manager's is born cancelled after Shutdown.
Put(j) ==
  /\ creator[j] = "idle"
  /\ status[j] = "none"
  /\ creator' = [creator EXCEPT ![j] = "put"]
  /\ ctx' = [ctx EXCEPT ![j] = IF phase = "draining" THEN "cancelled" ELSE "live"]
  /\ status' = [status EXCEPT ![j] = "queued"]
  /\ stored' = stored \cup {j}
  /\ UNCHANGED <<runVars, explained, session, procVars, slots, linked,
                 scratch, busVars, old, callerVars, phase>>

\* The queue event, then go m.run.  CreateSandbox has its link still to make.
Spawn(j) ==
  /\ creator[j] = "put"
  /\ Goto(j, "unborn", "select")
  /\ creator' = [creator EXCEPT
                   ![j] = IF j \in SandboxJobs THEN "linking" ELSE "returned"]
  /\ Emit(j, "queued")
  /\ UNCHANGED <<ran, outcome, ctx, jobVars, procVars, slots, storeVars,
                 scratch, closed, old, callerVars, phase>>

LinkSandbox(j) ==
  /\ creator[j] = "linking"
  /\ creator' = [creator EXCEPT ![j] = "returned"]
  /\ linked' = linked \cup {j}
  /\ UNCHANGED <<runVars, ctx, jobVars, procVars, slots, stored, scratch,
                 busVars, old, callerVars, phase>>

-----------------------------------------------------------------------------
(* Manager.run: the slot *)

SlotFreeOffByOne == slots <= MaxConcurrentJobs   \* fault: one job too many
SlotFree         == slots < MaxConcurrentJobs

\* select may take the slot even though the context has ended: when both cases
\* are ready it picks either.
AcquireSlot(j) ==
  /\ Goto(j, "select", "start")
  /\ SlotFree
  /\ slots' = slots + 1
  /\ UNCHANGED <<ran, outcome, ctx, jobVars, procVars, scratch, busVars,
                 others>>

\* "cancelled before start": finish without a slot.
GiveUpWaiting(j) ==
  /\ ContextEnded(j)
  /\ Goto(j, "select", "finish")
  /\ ran' = [ran EXCEPT ![j] = "unstarted"]
  /\ UNCHANGED <<outcome, ctx, jobVars, procVars, slots, scratch, busVars,
                 others>>

StartRunning(j) ==
  /\ Goto(j, "start", IF j \in McpJobs THEN "prepare" ELSE "task")
  /\ status' = [status EXCEPT ![j] = "running"]
  /\ UNCHANGED <<ran, outcome, ctx, explained, session, procVars, slots,
                 scratch, busVars, others>>

-----------------------------------------------------------------------------
(* Handlers *)

HandlerReturns(j, from, result) ==
  /\ Goto(j, from, "finish")
  /\ ran' = [ran EXCEPT ![j] = result]

\* A handler other than mcp.test: it publishes its steps and returns nil or an
\* error; several return nil as well when their context ends.  A command's output
\* is published while its handler is blocked, too.
TaskProgress(j) ==
  /\ pc[j] \in {"task", "blocked"}
  /\ Emit(j, "progress")
  /\ UNCHANGED <<runVars, ctx, jobVars, procVars, slots, scratch, closed,
                 others>>

TaskReturn(j) ==
  /\ \E result \in {"ok", "err"} : HandlerReturns(j, "task", result)
  /\ UNCHANGED <<outcome, ctx, jobVars, procVars, slots, scratch, busVars,
                 others>>

\* runStream (LineStream) or cmd.Run waits for a command's output although the
\* command, or its context, has ended: a line was too long for the scanner, or a
\* descendant of the command holds the pipe.
TaskBlocks(j) ==
  /\ j \in InstallJobs
  /\ Goto(j, "task", "blocked")
  /\ UNCHANGED <<ran, outcome, ctx, jobVars, procVars, slots, scratch, busVars,
                 others>>

\* The descendant lets go.
TaskUnblocks(j) ==
  /\ Goto(j, "blocked", "task")
  /\ UNCHANGED <<ran, outcome, ctx, jobVars, procVars, slots, scratch, busVars,
                 others>>

\* handleMCPTest up to its scratch directory: the payload, the transport, the
\* command or the environment is rejected, or the directory cannot be made once
\* they were accepted, or it is made.
Prepare(j) ==
  /\ \/ /\ HandlerReturns(j, "prepare", "err")
        /\ Emit(j, "progress") \/ UNCHANGED last
        /\ UNCHANGED scratch
     \/ /\ Goto(j, "prepare", "spawn")
        /\ scratch' = scratch \cup {j}
        /\ Emit(j, "progress")
        /\ UNCHANGED ran
  /\ UNCHANGED <<outcome, ctx, jobVars, procVars, slots, closed, others>>

\* mcp.Start: exec refuses a context that has ended.  What the server forks may
\* keep its stderr pipe.
StartServer(j) ==
  /\ \/ /\ HandlerReturns(j, "spawn", "err")
        /\ UNCHANGED procVars
     \/ /\ ctx[j] = "live"
        /\ Goto(j, "spawn", "attach")
        /\ proc' = [proc EXCEPT ![j] = "running"]
        /\ kids' \in {kids, kids \cup {j}}
        /\ UNCHANGED ran
  /\ UNCHANGED <<outcome, ctx, jobVars, slots, scratch, busVars, others>>

AttachSession(j) ==
  /\ Goto(j, "attach", "boot")
  /\ session' = [session EXCEPT ![j] = "attached"]
  /\ UNCHANGED <<ran, outcome, ctx, status, explained, procVars, slots,
                 scratch, busVars, others>>

\* Session.Bootstrap: initialize and tools/list succeed, or fail, time out or
\* find the server gone.
Bootstrap(j) ==
  /\ \/ /\ HandlerReturns(j, "boot", "err")
        /\ UNCHANGED <<session, last>>
     \/ /\ Goto(j, "boot", "serve")
        /\ session' = [session EXCEPT ![j] = "ready"]
        /\ Emit(j, "progress")
        /\ UNCHANGED ran
  /\ UNCHANGED <<outcome, ctx, status, explained, procVars, slots, scratch,
                 closed, others>>

\* <-ctx.Done() ; return nil
ServeUntilDone(j) ==
  /\ ContextEnded(j)
  /\ HandlerReturns(j, "serve", "ok")
  /\ UNCHANGED <<outcome, ctx, jobVars, procVars, slots, scratch, busVars,
                 others>>

-----------------------------------------------------------------------------
(* Manager.finish *)

HasReadySession(j) == session[j] = "ready"    \* fault: forgets a failed handshake
HasSession(j)      == session[j] # "none"

\* Client.Close: stdin is closed and the process killed; a job without a
\* session has nothing to close.
CloseSession(j) ==
  /\ \/ /\ HasSession(j)
        /\ Goto(j, "finish", "wait")
        /\ proc' = [proc EXCEPT ![j] = "exited"]
     \/ /\ ~HasSession(j)
        /\ Goto(j, "finish", "cleanup")
        /\ UNCHANGED proc
  /\ UNCHANGED <<ran, outcome, ctx, jobVars, kids, slots, scratch, busVars,
                 others>>

\* cmd.Wait copies stderr until the last process that holds the pipe is gone.
WaitServer(j) ==
  /\ j \notin kids
  /\ Goto(j, "wait", "cleanup")
  /\ proc' = [proc EXCEPT ![j] = "reaped"]
  /\ UNCHANGED <<ran, outcome, ctx, jobVars, kids, slots, scratch, busVars,
                 others>>

\* layout.RemoveJob: nobody looks at the error of os.RemoveAll.
RemoveScratch(j) ==
  /\ Goto(j, "cleanup", "decide")
  /\ scratch' \in {scratch, scratch \ {j}}
  /\ UNCHANGED <<ran, outcome, ctx, jobVars, procVars, slots, busVars,
                 others>>

\* Fault: the handler's error outranks the context's end.
VerdictErrorFirst(j) ==
  IF ran[j] = "ok"
  THEN IF ctx[j] = "live" THEN "complete"
       ELSE IF ctx[j] = "deadline" THEN "expired" ELSE "cancelled"
  ELSE "error"

\* The switch of finish: the context's end outranks what the handler returned.  It
\* looks at ctx.Err() twice, which decides as one look does: a deadline that strikes
\* in between comes too late, a cancellation just in time.
Verdict(j) ==
  IF ctx[j] = "live"
  THEN IF ran[j] = "ok" THEN "complete" ELSE "error"
  ELSE IF ctx[j] = "deadline" THEN "expired" ELSE "cancelled"

Decide(j) ==
  /\ Goto(j, "decide", "record")
  /\ outcome' = [outcome EXCEPT ![j] = Verdict(j)]
  /\ UNCHANGED <<ran, ctx, jobVars, procVars, slots, scratch, busVars,
                 others>>

\* Only an error has a message to set before it is announced.
AfterRecordNoMessage(j) == "emit"              \* fault: the message is dropped
AfterRecord(j) == IF outcome[j] = "error" THEN "explain" ELSE "emit"

RecordStatus(j) ==
  /\ Goto(j, "record", AfterRecord(j))
  /\ status' = [status EXCEPT ![j] = outcome[j]]
  /\ UNCHANGED <<ran, outcome, ctx, explained, session, procVars, slots,
                 scratch, busVars, others>>

\* setError: after setStatus, under a second acquisition of the lock.
RecordError(j) ==
  /\ Goto(j, "explain", "emit")
  /\ explained' = explained \cup {j}
  /\ UNCHANGED <<ran, outcome, ctx, status, session, procVars, slots,
                 scratch, busVars, others>>

EmitFinal(j) ==
  /\ Goto(j, "emit", "close")
  /\ Emit(j, outcome[j])
  /\ UNCHANGED <<ran, outcome, ctx, jobVars, procVars, slots, scratch,
                 closed, others>>

CloseBus(j) ==
  /\ Goto(j, "close", "leave")
  /\ closed' = closed \cup {j}
  /\ UNCHANGED <<ran, outcome, ctx, jobVars, procVars, slots, scratch, last,
                 others>>

\* A goroutine that took no token registered no release.
ReleaseAlways(j)    == slots - 1               \* fault: taken or not
ReleaseOnSuccess(j) == IF ran[j] = "ok" THEN slots - 1 ELSE slots   \* fault
Release(j)          == IF ran[j] = "unstarted" THEN slots ELSE slots - 1

\* The deferred calls of run: the slot's release, then j.cancel.
Leave(j) ==
  /\ Goto(j, "leave", "done")
  /\ slots' = Release(j)
  /\ ctx' = [ctx EXCEPT ![j] = EndCtx(@, "cancelled")]
  /\ UNCHANGED <<ran, outcome, jobVars, procVars, scratch, busVars, others>>

-----------------------------------------------------------------------------
(* Manager.Cancel, called by the DELETE handlers *)

\* Fault: Cancel records the outcome itself instead of leaving it to finish.
CancelRecords(c, j) ==
  /\ asked[c] = NoJob
  /\ j \in stored
  /\ asked' = [asked EXCEPT ![c] = j]
  /\ ctx' = [ctx EXCEPT ![j] = EndCtx(@, "cancelled")]
  /\ status' = [status EXCEPT ![j] = "cancelled"]
  /\ UNCHANGED <<runVars, creator, explained, session, procVars, slots,
                 storeVars, scratch, busVars, old, polls, answer, phase>>

CancelRequest(c, j) ==
  /\ asked[c] = NoJob
  /\ j \in stored
  /\ asked' = [asked EXCEPT ![c] = j]
  /\ ctx' = [ctx EXCEPT ![j] = EndCtx(@, "cancelled")]
  /\ UNCHANGED <<runVars, creator, jobVars, procVars, slots, storeVars,
                 scratch, busVars, old, polls, answer, phase>>

\* One look at the status: an outcome is the answer, anything else costs a poll.
CancelPoll(c) ==
  /\ asked[c] # NoJob
  /\ answer[c] = "none"
  /\ polls[c] > 0
  /\ IF status[asked[c]] \in Terminal
     THEN /\ answer' = [answer EXCEPT ![c] = status[asked[c]]]
          /\ UNCHANGED polls
     ELSE /\ polls' = [polls EXCEPT ![c] = @ - 1]
          /\ UNCHANGED answer
  /\ UNCHANGED <<runVars, creator, ctx, jobVars, procVars, slots, storeVars,
                 scratch, busVars, old, asked, phase>>

\* Out of looks: the answer is "cancelled", whatever the job is.
CancelGiveUp(c) ==
  /\ asked[c] # NoJob
  /\ answer[c] = "none"
  /\ polls[c] = 0
  /\ answer' = [answer EXCEPT ![c] = "cancelled"]
  /\ UNCHANGED <<runVars, creator, ctx, jobVars, procVars, slots, storeVars,
                 scratch, busVars, old, asked, polls, phase>>

-----------------------------------------------------------------------------
(* Time, processes and the janitor *)

\* The TTL of Create's context.WithTimeout.
Deadline(j) ==
  /\ status[j] \notin {"none", "lost"}
  /\ ctx[j] = "live"
  /\ ctx' = [ctx EXCEPT ![j] = "deadline"]
  /\ UNCHANGED <<runVars, jobVars, procVars, slots, scratch, busVars, others>>

\* A server ends by itself, or because its context ended (exec.CommandContext).
ServerExit(j) ==
  /\ proc[j] = "running"
  /\ proc' = [proc EXCEPT ![j] = "exited"]
  /\ UNCHANGED <<runVars, ctx, jobVars, kids, slots, scratch, busVars,
                 others>>

\* What the server left behind lets go of stderr.
DescendantExit(j) ==
  /\ j \in kids
  /\ kids' = kids \ {j}
  /\ UNCHANGED <<runVars, ctx, jobVars, proc, slots, scratch, busVars,
                 others>>

\* JobRetentionHours pass.  They may do so before the job's TTL, which its own
\* setting bounds, but not while the request that makes the job is in its handler.
Age(j) ==
  /\ j \notin old
  /\ status[j] = "lost" \/ creator[j] = "returned"
  /\ old' = old \cup {j}
  /\ UNCHANGED <<runVars, creator, ctx, jobVars, procVars, slots, storeVars,
                 scratch, busVars, callerVars, phase>>

\* Faults: age alone decides; only completed jobs are purged.
PurgeableAnyStatus == {j \in stored \cap old : session[j] = "none"}
PurgeableComplete ==
  {j \in stored \cap old : status[j] = "complete" /\ session[j] = "none"}

\* store.purgeTerminalBefore: Job.session is never reset, so a job that had a
\* server keeps its entry.
Purgeable ==
  {j \in stored \cap old : status[j] \in Terminal /\ session[j] = "none"}

\* Directories of purged jobs, and of any job old enough, known or not.
PrunedKnown == Purgeable                       \* fault: orphans are left alone
Pruned      == Purgeable \cup old

\* runCleanup.  Purging is atomic under store.mu.  A directory stays if removing it
\* fails, which nobody notices, or if something still writes to it and it looks recent.
Sweep ==
  /\ phase = "up"
  /\ stored' = stored \ Purgeable
  /\ linked' = linked \ Purgeable
  /\ \E staying \in SUBSET scratch : scratch' = scratch \ (Pruned \ staying)
  /\ UNCHANGED <<runVars, creator, ctx, jobVars, procVars, slots, busVars,
                 old, callerVars, phase>>

-----------------------------------------------------------------------------
(* Shutdown, and the end of the process *)

Shutdown ==
  /\ phase = "up"
  /\ phase' = "draining"
  /\ ctx' = [j \in Jobs |-> EndCtx(ctx[j], "cancelled")]
  /\ UNCHANGED <<runVars, creator, jobVars, procVars, slots, storeVars,
                 scratch, busVars, old, callerVars>>

Known == {j \in Jobs : status[j] # "none"}

\* The process ends, 200 ms after Shutdown or by a crash, and starts again: what
\* it held in memory is gone, its directories and children are not.
Restart ==
  /\ phase = "draining" \/ stored # {}
  /\ phase' = "up"
  /\ pc' = [j \in Jobs |-> IF j \in Known THEN "lost" ELSE pc[j]]
  /\ status' = [j \in Jobs |-> IF j \in Known THEN "lost" ELSE status[j]]
  /\ creator' = [j \in Jobs |-> "idle"]
  /\ ctx' = [j \in Jobs |-> "live"]
  /\ ran' = [j \in Jobs |-> "none"]
  /\ outcome' = [j \in Jobs |-> "none"]
  /\ session' = [j \in Jobs |-> "none"]
  /\ last' = [j \in Jobs |-> "none"]
  /\ explained' = {}
  /\ closed' = {}
  /\ stored' = {}
  /\ linked' = {}
  /\ slots' = 0
  \* Requests in flight die with the process.
  /\ asked' = [c \in Callers |-> NoJob]
  /\ polls' = [c \in Callers |-> MaxPolls]
  /\ answer' = [c \in Callers |-> "none"]
  /\ UNCHANGED <<procVars, scratch, old>>

-----------------------------------------------------------------------------
RunStep(j) ==
  \/ AcquireSlot(j)    \/ GiveUpWaiting(j)  \/ StartRunning(j)
  \/ TaskReturn(j)     \/ Prepare(j)        \/ StartServer(j)
  \/ AttachSession(j)  \/ Bootstrap(j)      \/ ServeUntilDone(j)
  \/ CloseSession(j)   \/ WaitServer(j)     \/ RemoveScratch(j)
  \/ Decide(j)         \/ RecordStatus(j)   \/ RecordError(j)
  \/ EmitFinal(j)      \/ CloseBus(j)       \/ Leave(j)

CreateStep(j) == Put(j) \/ Spawn(j) \/ LinkSandbox(j)

CancelStep(c) ==
  \/ \E j \in Jobs : CancelRequest(c, j)
  \/ CancelPoll(c)
  \/ CancelGiveUp(c)

Environment(j) ==
  \/ TaskProgress(j) \/ TaskBlocks(j) \/ TaskUnblocks(j)
  \/ Deadline(j) \/ ServerExit(j) \/ DescendantExit(j) \/ Age(j)

Next ==
  \/ \E j \in Jobs : CreateStep(j) \/ RunStep(j) \/ Environment(j)
  \/ \E c \in Callers : CancelStep(c)
  \/ Sweep
  \/ Shutdown
  \/ Restart

Spec == Init /\ [][Next]_vars

(***************************************************************************)
(* Fairness.  The Go scheduler runs every goroutine that can proceed, timers *)
(* fire, exec kills a server whose context has ended, and time passes.  Each *)
(* of these happens finitely often to one job, so that fairness of their     *)
(* union is fairness of each.  A handler returns if no command keeps it      *)
(* blocked: it waits for nothing else but bounded calls, and runs finitely   *)
(* many commands, hence the strong fairness.  The process does exit once     *)
(* Shutdown has slept, and each process sweeps when it starts and at every   *)
(* tick.  Nothing makes a client call, a server exit early, a crash happen,  *)
(* a blocked handler proceed, or a descendant let go of a pipe.              *)
(***************************************************************************)
Machinery(j) ==
  \/ Spawn(j)    \/ LinkSandbox(j)
  \/ RunStep(j)
  \/ Deadline(j) \/ (ContextEnded(j) /\ ServerExit(j))
  \/ Age(j)

Fairness ==
  /\ \A j \in Jobs : WF_vars(Machinery(j))
  /\ \A j \in InstallJobs : SF_vars(TaskReturn(j))
  /\ \A c \in Callers : WF_vars(CancelPoll(c) \/ CancelGiveUp(c))
  /\ WF_vars(phase = "draining" /\ Restart)
  /\ SF_storeVars(Sweep)

FairSpec == Spec /\ Fairness

\* A sweep that leaves no more than what is still written to.
ThoroughSweep ==
  Sweep /\ \A j \in scratch' \cap Pruned : proc[j] = "running" \/ j \in kids

\* FairSpec, where the descendants of a server exit once its stdin is closed and no
\* removal of a directory fails for ever.
TidySpec ==
  /\ FairSpec
  /\ \A j \in Jobs : WF_vars(DescendantExit(j))
  /\ SF_scratch(ThoroughSweep)

-----------------------------------------------------------------------------
(* Safety *)

\* Goroutines that have registered the slot's release and not yet run it.
Holders == {j \in Jobs : pc[j] \in HoldingPoints /\ ran[j] # "unstarted"}

\* The tokens in Manager.sem are those of the jobs between acquisition and
\* deferred release, never more than its capacity, and every job reported as
\* running is one of them: a cancelled wait takes and returns no token.
SlotsAccounted ==
  /\ slots = Cardinality(Holders)
  /\ slots <= MaxConcurrentJobs
  /\ \A j \in Jobs : status[j] = "running" => j \in Holders

\* Whoever reads the final event, or the end of the stream, and then the job
\* finds the same outcome there, with its message if it is an error: finish
\* records before it announces and announces before it closes.
AnnouncedOutcomeIsRecorded ==
  \A j \in Jobs :
    /\ last[j] \in Terminal =>
         /\ status[j] = last[j]
         /\ last[j] = "error" => j \in explained
    /\ j \in closed => last[j] \in Terminal

\* No server outlives its job: when the outcome is recorded the server has been reaped,
\* whichever way the handler ended, and the directory it works in has had its removal
\* tried with nothing of the job running there.
NoServerOutlivesItsJob ==
  \A j \in Jobs :
    pc[j] = "cleanup" \/ status[j] \in Terminal => proc[j] \in {"none", "reaped"}

\* The outcome says why the job ended: an expired or cancelled job's context
\* ended for that reason, a complete one's handler returned nil, and an mcp.test
\* job, which only its context can end well, is never complete.
OutcomeExplained ==
  \A j \in Jobs :
    /\ status[j] = "expired" => ctx[j] = "deadline"
    /\ status[j] = "cancelled" => ctx[j] = "cancelled"
    /\ status[j] = "complete" => ran[j] = "ok" /\ j \notin McpJobs
    /\ status[j] = "error" => ran[j] = "err"

\* The registry forgets ended jobs only, and no sandbox session id leads to a job
\* it has forgotten.
RegistryConsistent ==
  /\ \A j \in Jobs : status[j] \notin {"none", "lost"} /\ j \notin stored
       => status[j] \in Terminal
  /\ linked \subseteq stored

\* Once a job has an outcome it keeps it until the process ends, whatever
\* cancellations, deadlines and sweeps still come.
OutcomeIsFinal ==
  [][\A j \in Jobs : status[j] \in Terminal => status'[j] \in {status[j], "lost"}]_vars

\* docs/architecture.md:44-46: the terminal status is one of complete, error,
\* "`expired` (TTL), or `cancelled` (DELETE)".  The status a DELETE answers is the
\* one the job ends with.
AnswersAreOutcomes ==
  \A c \in Callers :
    answer[c] # "none" /\ status[asked[c]] \in Terminal
      => answer[c] = status[asked[c]]

\* The manager does what JobLifecycle promises its clients.  A client sees the same
\* registry; the slots, contexts, goroutines and servers below it are what it does not.
Lifecycle ==
  INSTANCE JobLifecycle WITH
    Jobs <- Jobs,
    MaxConcurrentJobs <- MaxConcurrentJobs,
    status <- status,
    stored <- stored,
    closed <- closed
ImplementsLifecycle == Lifecycle!Spec

-----------------------------------------------------------------------------
(* Liveness.  A job is made once and ends once, so that what in the end holds for good    *)
(* comes of every one.                                                                    *)

Ended(j) == status[j] = "lost" \/ (status[j] \in Terminal /\ j \in closed)

\* Every job that is accepted ends, by its TTL at the latest, and its stream with
\* it, however many jobs compete for the slots.
EveryJobEnds == \A j \in Jobs : status[j] = "queued" ~> Ended(j)

\* The same but for an install whose command keeps its handler blocked for good, which
\* no deadline changes: that job alone, and none of those that wait for its slot.  In
\* the end every job that was accepted has ended, or is such an install.
JobsEndUnlessBlocked ==
  <>[](\A j \in Jobs : status[j] = "none" \/ Ended(j) \/ pc[j] = "blocked")

Blocked == {j \in Jobs : pc[j] = "blocked"}

\* Every slot is given back, those excepted that blocked installs keep: in the end no
\* other job has one.
SlotsReturned == <>[](slots = Cardinality(Blocked))

\* A directory that is left over, by a crash or because its job could not remove it, is
\* pruned in the end, once nothing runs in it: its job may be one no process knows.
LeftoverScratchPruned ==
  <>[](\A j \in scratch : status[j] \in {"lost"} \cup Terminal => proc[j] = "running")

\* A job that ended without ever having had a server, be it a task, a rejected
\* command or a wait that was cancelled, is purged after the retention period.
SessionlessJobsForgotten ==
  <>[](\A j \in stored : status[j] \in Terminal => session[j] # "none")

\* janitor.go:12: on each tick the janitor "purges terminal jobs (and their
\* on-disk scratch) older than the configured job-retention window".
EndedJobsForgotten ==
  \A j \in Jobs : status[j] \in Terminal ~> j \notin stored
=============================================================================
