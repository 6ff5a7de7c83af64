# Matrix Runtime in TLA+

This directory specifies the part of Matrix Runtime that is hard to test: jobs that run
as goroutines under a slot limit, a context and a TTL; the MCP servers they own; the
event streams that report them; the janitor, shutdown and crashes that cut across all of
it; the rows that jobs and overlapping requests write statement by statement; the key,
the limits and the buffers they rely on. TLC checks the modules on small instances,
TLAPS proves the safety properties for every instance,
the ones no instance would show (bounds that depend on how many requests overlap) included.

    tlc -workers 2 -config MCJobManager_safety.cfg MCJobManager
    tlc -workers 2 -config MCMcpClient_calls.cfg MCMcpClient
    tlc -workers 2 -config MCStore_safety.cfg MCStore
    tlc -workers 2 -config MCRuntime.cfg MCRuntime
    tlapm JobManagerProofs.tla        # and each other *Proofs module

`PROJECT.json` is the index: components, runs, the lines each definition translates,
hazards, findings, theorems, and for every checked property a fault (an operator marked
`fault` in the modules) that must break it.

## The system

| Component | State it keeps | Operations | Hard behaviour | What makes it correct |
|---|---|---|---|---|
| Job manager (`internal/jobs/manager.go`, `types.go`, `store.go`) | per job: status, error, session, context, bus; the registry; a semaphore | `Create`, `CreateSandbox`, `run`, `finish`, `Cancel`, `Shutdown` | one goroutine per job; a context that may end at any step; `select` between a slot and the context; four separate writes to end a job | slots balance; an outcome is explained, recorded before it is announced, and final; every job ends, an installation excepted that its command keeps blocked |
| `mcp.test` (`mcptest.go`, `mcp/runner.go`) | scratch directory, server process, session | prepare, start, attach, handshake, wait | failure at each step, with more to undo each time | no server survives its job; a directory may (removal can fail), for the janitor |
| Other handlers (`model_*.go`, `matrixshell_install.go`) | none but the bus (and rows, for `model.attach`) | publish steps, return | cancelled half-way; an installation waits for its command's output, which no context ends | the manager ends them whatever they return, once they return |
| Janitor (`janitor.go`, `cache/artifacts.go`) | none | purge jobs, prune directories | runs between any two steps of a job; crashes leave directories no process knows; a removal may fail unnoticed | takes ended jobs only; in the end takes what is left over |
| Event bus (`logs/stream.go`) and SSE (`api/handlers_jobs.go`) | history, subscribers, closed flag; per client a channel of 64 | `Publish`, `Subscribe`, cancel, `Close`; replay, then live | the producer must not block; two closers of a channel; the seam between replay and live | no panic, no event twice or out of order, streams end (a slow client's without all events) |
| MCP client (`mcp/stdio_client.go`, `tools.go`, `sandbox.go`) | pending requests by id, read error, cached tools | `call`, `notify`, `readLoop`, `Close` | late and missing answers, a server that dies, a full pipe | an answer reaches its caller, nobody waits longer than the job |
| Model attachment (`api/handlers_models.go`, `jobs/model_attach.go`, `store/models.go`) | profile and installation rows; one serving file per profile, shared by all its attaches | write the row, submit the job, link it; advance the row per step | request and job write one row; a job that is cut short; statements whose errors nobody looks at; rows outlive jobs; the file is emptied and written while others may | a row never goes back and never says more than was done |
| Accounts (`store/store.go`, `accounts.go`, `api/handlers_auth.go`) | users, workspaces, sessions, reset links in SQLite | sign up, log in, log out, ask for a link, reset | several statements per request, concurrent requests, any of them may fail | a link that is marked used is refused; a reset ends sessions; one owner per address and slug |
| Cloud (`store/cloud.go`, `api/handlers_cloud.go`) | runtimes, join tokens | mint, redeem, register, heartbeat | check, then update, then insert | a token whose uses are counted out is refused, and every runtime is accounted for |
| Credentials (`auth/secret.go`, `store/cloud.go`) | `secret.key`, encrypted credentials | load or create the key, encrypt, decrypt | a failed or torn write, a failed read, restarts | what was encrypted under a key that was saved stays readable |
| Rate limiter (`api/middleware_ratelimit.go`) | window and count per address | `allow` | window edges, clean-up that depends on size | bounded rate, bounded table |
| Log ring (`logs/ring.go`) | the last bytes of a log | `Write`, `String` | writes that straddle the limit | it holds the end of what was written |
| Python environment, MatrixShell (`internal/pyenv`, `jobs/matrixshell_install.go`) | directories made by `uv` and `pip` | `runStream` under every installation step | the command, a copier, a scanner and the caller, chained by two pipes | no line that shows something is lost, and the caller returns, unless a line is too long or a descendant keeps the pipe |
| Model cache (`cache/locks.go`, `models.go`) | lock file, metadata file | acquire, release, write | – | no code calls the lock |
| Command splitter, TTL limits (`security/`) | none | pure | – | – |
| Server, start-up (`api/server.go`, `cmd/`) | listener | listen with fallback, shut down | port already taken | jobs are told before the process exits |
| E-mail, catalog, Hugging Face, inventory, configuration | none | formatting, network | – | – |
| Console, Python client, deployment, `legacy/` | – | not part of the runtime's process | – | – |

How they interact: an HTTP handler calls `Create`, which puts the job in the registry,
publishes the first event and starts `run`. `run` waits for a slot, calls the handler of
the job's type and always ends in `finish`, which closes the MCP session, removes the
scratch directory, decides the outcome, records it, publishes it and closes the bus. A
`DELETE` cancels the job's context and polls its status. SSE handlers read the bus, the
sandbox handlers call the session. The janitor and `Shutdown` act on all jobs at once.

## Modules

| Module | Role |
|---|---|
| `JobLifecycle` | what the manager promises a client: listed, at most N running, ended once, announced after it is recorded, forgotten only after it has ended |
| `JobManager` | the manager, the `mcp.test` handler, janitor, shutdown and restart, step by step; implements `JobLifecycle` |
| `JobManagerProofs` | its safety properties and that refinement, proved |
| `EventBus` | one job's bus and the SSE handlers of its clients |
| `EventBusProofs` | its safety properties, proved |
| `McpClient` | the JSON-RPC client of one sandbox, its read loop, its session and everyone who uses them |
| `McpClientProofs` | its safety properties, proved |
| `ModelAttach` | attach requests, their jobs and the rows both write; its jobs are those of `JobLifecycle` |
| `ModelAttachProofs` | its safety properties, that its jobs are those of `JobLifecycle`, and that its handlers come to their end, proved |
| `TokenUse`, `TokenUseProofs` | what a token of limited use promises when reading and counting are two statements, and how far the limit can be exceeded, proved |
| `Accounts` | sign-up, log-in, log-out and password reset, one action per statement; reset links implement `TokenUse` |
| `AccountsProofs` | its safety properties, that refinement and what follows from it, proved |
| `JoinTokens` | join tokens, registration of runtimes, heartbeats; join tokens implement `TokenUse` |
| `SecretKey` | the key of provider credentials over crashes and restarts |
| `CloudProofs` | the safety properties of `JoinTokens` and `SecretKey`, the refinement of `TokenUse` and what follows from it, proved |
| `RateLimiter` | the fixed window and its table |
| `LogRing` | the bounded log |
| `LineStream` | the four parties of `runStream` |
| `RuntimeProofs` | the safety properties of the last three, and that `runStream` comes to its end, proved |
| `MCJobManager`, `MCEventBus`, `MCMcpClient`, `MCStore`, `MCRuntime` | instances for TLC |

Refinements are written with `INSTANCE ... WITH`: `Lifecycle` in `JobManager` is
`JobLifecycle` with `stored` and `closed` read off the registry and the buses; `LinkRules`
in `Accounts` and `TokenRules` in `JoinTokens` are `TokenUse` with `admitted` and
`granted` read off where requests are; `Life` in `ModelAttach` takes the actions of
`JobLifecycle` for its own, which is how the two components compose: what
`ModelAttach` needs of a job is what `JobManager` has been shown to implement.

### JobManager and the code

`pc[j]` is where the goroutine of job `j` is. `select` is the wait in `run`
(`AcquireSlot`, `GiveUpWaiting`); `start` to `serve` are the handler; `finish` to
`leave` are `finish` and the deferred calls of `run`, one control point for each step
that another goroutine could see or disturb: `finish`/`wait` (`Client.Close`: kill,
then `cmd.Wait`), `cleanup` (`RemoveJob`, whose failure nobody looks at), `decide` (the switch), `record`
(`setStatus`), `explain` (`setError`), `emit`, `close`, `leave`. A step never contains
two acquisitions of a lock that another goroutine could get between, with one
exception: `finish` looks at `ctx.Err()` twice, and a comment at `Verdict` says why one
look gives the same outcomes.

`ctx[j]` is the context with the reason it ended; the first reason stays. `creator[j]`
is the request that creates the job, since its goroutine starts before `CreateSandbox`
makes the link. `asked`, `polls` and `answer` are a `DELETE`: the 50 polls of `Cancel`
are `MaxPolls`, and time passes between polls as the interleaving will have it.

`old` is the set of jobs past the janitor's cutoff. A job may be among them while it runs,
because the longest TTL is a setting of its own that nothing keeps below the retention
period; `Age` waits only for the request that creates the job, which is in its handler
for an instant. A `Sweep` may leave any directory where it is: its removal fails, or
something still writes there. `Restart` keeps directories, processes and what is old, and loses the rest: the
program stores no job. It stands for a crash at any moment and for the exit that follows
`Shutdown`.

Of the handlers other than `mcp.test` the manager sees events and a result, so they
are one task that publishes as often as it likes and then returns nil or an error. Those
that install something (`InstallJobs`) run commands and wait for their output, and there
the handler may be `blocked` (`TaskBlocks`) for as long as `LineStream` says that
`runStream` is: until a descendant of the command lets go of the pipe (`TaskUnblocks`), or,
after a line too long, for ever. The end of the job's context does not change that.

### EventBus and the code

Every method of `Bus` runs under its mutex and is one action. The handler of a client
`c` is somewhere in `stage[c]`: `Replay` sends the history it was given, `Receive`,
`EndOfStream` and `Hangup` are the three outcomes of its `select`, `Write` is the return
of a write to the client, `Unsubscribe` the deferred cancel. The n-th event is the
number n. `JobManager` keeps of a bus only `last` and `closed`, which is what the
properties of the manager need; here the job is reduced to `Publish` and `Close`.

### McpClient and the code

`stage[m]` is where the goroutine that sends message `m` is: `lock` waits for `encMu`,
`write` is inside `stdin.Write` and holds it, `wait` is the `select` of `call`, `forget`
is about to take its entry off the list. The first two steps of `call` (look at
`readErr`, list the channel) share one lock and are one action. `readLoop` and
`dispatch` are `reader`: between `read`, where dispatch takes an entry off the list under
the lock, and `close` it holds the channel alone (`found`), and callers run. A response
is represented by the request it answers, its id by `id`; the server may answer what it
has received at any time, in any order and again, and may send requests of its own under
the ids `ServerIDs`. The server's process is `running`, `gone`, or `orphaned` when a
descendant (of `npx`, say) has its pipes: a write to it may still succeed, its output is
still open, and `cmd.Wait` still blocks. `owner` is the job's goroutine from `Bootstrap`
through the wait for its context to the three steps of `Client.Close`. `JobManager`
shows `Bootstrap` and `Close` as single steps with the outcomes they have here.

### ModelAttach and the code

An attach `a` is one request, one row and one job. `asking[a]` is where
`handleAttachProfile` is: it inserts the row, sets the profile to `queued`, submits the
job and stores the job's id in the row, and the job may have run to its end before the
last of these. `point[a]` is where `handleModelAttach` is: every `sleepCtx` either finds
the context alive or ends the handler without an error (`WaitCutShort`), and the manager
decides by the context what the job's status is (`Outcome`). A `Statement` does what it
says or fails, and nobody looks at its error (`missed` remembers it for the properties).
A download is any increasing sequence of `Percents` that ends with 100. `Crash` loses
the jobs and keeps the rows and the file.

The serving profile is one file for all attaches of a profile (`safeName(p.Model)`), each
of which puts its own runtime into it. `served` is what it holds: an attach's content, or
`empty` after `os.WriteFile` has opened it, or `torn` by a write that failed or that
another attach wrote into. `reused` remembers which attaches have had it opened or written
by another one since they opened it themselves, and `AttachedMeansServed` says what they
can still count on: that there is a file. A row that says ready while its file is torn is
what the code allows as soon as a profile is attached twice.

### Accounts, JoinTokens and the code

A statement is an action, a request several of them; `step[c]` and `joining[r]` say which
is next, and `AbandonCall`, `AbandonJoin` stand for a failed statement, a lost answer and
a stopped process alike: what was written stays. Passwords, sessions, links and runtimes
are named by the request that made them, which is all the properties tell apart. The two
`INSERT`s of a sign-up are a transaction and one action, whose guard is the `UNIQUE`
columns, and not what `Signup` and `uniqueSlug` asked the database before. Logging in
includes comparing the password, against the hash that was read.

`TokenUse` is the common abstraction: a request is *admitted* when it has read a row that
is good, and *granted* when it knows that its use is on record. Nobody is admitted once
the limit is on record; those admitted before may still be granted. That is what the code
does (`MarkedLinksAreRefused`, `ExhaustedTokensAreRefused`), and less than the repository
says: two resets that overlap may both change the password, a reset whose marking
statement fails has changed it and leaves the link good for the next one, and a token may
be redeemed more often than `max_uses` by requests that overlap. What the repository says
is `LinksWorkOnce` and `UsesWithinLimit`, which `store_limits` refutes (findings 7 and 8).
Redemptions that do not overlap are held to the limit; resets are, if the marking succeeds.

### SecretKey and the code

A start of the process is `UseEnvironment`, `UseFile` or `CreateKey`. The last one also
stands for a write that fails (its error is ignored, and the process goes on with a key
no other process will have), for a crash in the middle of `os.WriteFile`, and for a read
of a good file that fails, which the code takes for a missing file (`misread`).
`CredentialsStayReadable` is about credentials under keys that reached the file whole, or
under the environment's; those under a key that was never saved are lost with their process.

### RateLimiter, LogRing, LineStream and the code

`RingWrite` is `Ring.Write`, which holds its mutex from end to end and is one action. So does `allow`, but it reads
the clock before it waits for the mutex: `Allow(a, t)` happens at `now` and goes by the
time `t`, which may be `Lag` ticks older, so that requests may open, count and sweep
windows out of the order in which they read the clock. `admitted[a]` is the times at
which requests of `a` were let through, in order; `hits` has no row for an address that
never came or was swept.
`LineStream` has the command, the copier of `os/exec`, the scanner's goroutine and the
caller; `piped` is the operating system's pipe, `offered` what the copier has in hand,
`held` what the scanner has, `scanned` what `Scan` has returned, `emitted` the events. A
line is `blank`, and then makes no event; or `long`, that is, longer than the 1 MiB the
scanner accepts; or `short`; and it has a number, so that a line lost, repeated or out of
turn shows. After a long line nobody reads on, and the copier, the caller and the job may
wait for ever. And the copier reads until the end of the file, which a descendant of the
command that has kept its output (`kept`) withholds, also after the command was killed.
These are the two cases that `StreamReturns` excludes, and what blocks an installation in
`JobManager`.

## What is checked

| Run | Instance | Shows |
|---|---|---|
| `job_safety` | an installation, a sandbox, one slot, one `DELETE`, one poll (1,145,338 states) | `TypeOK`, `SlotsAccounted`, `AnnouncedOutcomeIsRecorded`, `NoServerOutlivesItsJob`, `OutcomeExplained`, `RegistryConsistent`, `OutcomeIsFinal`, `ImplementsLifecycle` |
| `job_liveness` | an installation and an `mcp.test` job, one slot, no `DELETE` (91,841 states) | `JobsEndUnlessBlocked`, `SlotsReturned`, `LeftoverScratchPruned`, `SessionlessJobsForgotten` |
| `mcp_calls` | a handshake, two calls, a server that uses id 3 itself (72,939 states) | `TypeOK`, `AnswersAreOwn`, `ChannelsUsedOnce`, `NoWaiterForgotten`, `CallsReturn`, `ReaderEnds` |
| `store_requests` | two addresses and three requests; two tokens and three registrations; three keys, two providers; a limiter of two addresses; a ring of three (163,510 states) | `SignupsKeptApart`, `ResetEndsSessions`, `MarkedLinksAreRefused`, `RuntimesAccounted`, `ExhaustedTokensAreRefused`, `CredentialsStayReadable`, `AtMostTwice`, `TableBounded`, `KeepsLatest` |
| `runtime_parts` | two clients, channels of two, four events; two attaches and two slots; four lines, a pipe of two (335,329 states) | `TypeOK`, `RegisteredChannelsOpen`, `SentInOrder`, `BurstKept`, `StreamsEnd`, `HangupReleases`, `AttachedMeansServed`, `CompleteMeansReady`, `QueuedProfileExplained`, `RowsOnlyAdvance`, `AttachesEnd`, `OutputComplete`, `StreamReturns` |
| `job_retention` | one sandbox | finding 1 |
| `job_stderr` | one sandbox, descendants that need not exit | finding 2 |
| `job_answer` | one sandbox, one `DELETE`, two polls | finding 3 |
| `bus_burst` | two clients, channels of one, three events | finding 4 |
| `mcp_collision` | a handshake and a call, a server that uses id 3 itself | finding 5 |
| `mcp_blocked` | a handshake and two calls, a job that need not end | finding 6 |
| `store_limits` | as `store_requests` | findings 7 and 8 |

**Bounds.** Two jobs and one slot are the smallest instance in which a job waits, is
cancelled while it waits, and starts when another leaves; a third job would only wait
too. One is an installation and one an `mcp.test` job, so the paths through `run` meet:
a task that returns, one that is blocked, and a server. The
interleavings of a `DELETE` are those of its poll with the steps of `finish`; more polls
repeat the same one, so one look and one timeout are enough for safety. The liveness
run needs no `DELETE`, since nothing forces a client to send one and a deadline ends a
context as well; it leaves sandbox links out because they
only matter to the registry. For the bus, a channel of two fills while the client is
writing, overflows and drains again within four events, and the bounds of `BurstKept`
are met on both sides. The two clients differ in when they come and how fast they read;
they do not interact, so a third adds nothing. For the MCP client two calls are what it
takes for one to hold the write while the other queues, and for the answer to one that
timed out to arrive while the other waits; the handshake before them adds three more
messages with ids of their own.

`MCStore` and `MCRuntime` put components side by side that share no variable: a
behaviour picks one (`part`) and the others stay in their initial states, so the states
add up and nothing is missed, for an interleaving of components that neither read nor
write one another's state shows no more than each of them does. Three requests are what
it takes for one sign-up, reset or redemption to finish between two steps of another
while a third comes later; the tokens are good for one use and for two (`max_uses` 0
stands for 1). The database may start with an account that has a session and a link, so
that three calls suffice to reset, log in and reset again. Requests are interchangeable,
hence the symmetry; tokens and addresses are not permuted. Of three keys one can be
saved, one lost and one drawn after a misread. Two attaches and two slots let both
handlers write the file of the profile they belong to, at once and one after the other;
they are interchangeable, so `MCRuntime` asks for them in one order (`InTurn`). One missed
statement (`MaxMissed`) is the one that could separate a job from its row. The limiter's four ticks
hold two windows of one and waits of one for the mutex; its table is swept beyond one
row, also by a request whose time has passed; and five requests under a limit of two are
what it takes to exceed the bound of two windows. A ring of three gets up to six
bytes, in writes that fit, straddle the limit or exceed it; a pipe of two lines and four
lines printed fill every stage of the stream at once, with a blank or a long one anywhere.
The proofs remove these bounds for
the safety properties.

**Deadlock** is checked for `JobManager`: a restart is always possible once a job
exists. The bus of a job ends (its clients are served, it publishes nothing more), and so
does a sandbox (its calls have returned, its process is reaped), so `bus_burst`
and the runs of `McpClient` disable the check. In `store_requests`, `store_limits` and
`runtime_parts` requests, jobs, time, streams and commands come to an end as well.

**Form of the liveness properties.** A job is made and ends once, a call is made once, a
client comes and goes once, and so on; so what must follow of each is stated as what holds
for good in the end (`<>[]`), and the same thing would be said with `~>`. `EveryJobEnds`,
`EndedJobsForgotten` and `TimeoutsEndCalls`, which the repository's sentences suggest and
the code does not keep, have the latter form.

**Fairness.** `FairSpec` of `JobManager` has weak fairness for each job's machinery: the
scheduler runs a goroutine that can proceed, TTL timers fire, time passes, and
`exec.CommandContext` kills the server of an ended context. A handler returns if it is not
blocked, since all else it waits for is bounded (timeouts of HTTP requests and of the MCP
handshake, `sleepCtx`). An installation runs command after command and may be blocked and
freed by each, finitely often, so its return has strong fairness; nothing frees one that is
blocked for good, and `JobsEndUnlessBlocked` and `SlotsReturned` count such a job out by
where it is, it alone and not the jobs that wait behind it. `Sweep` has strong fairness:
the janitor sweeps at its start and at each tick, but `Shutdown` disables it again and
again if the process is restarted for ever. No fairness makes a client call, a process
crash or a server exit early, so that jobs end does not lean on them. Two things are not
the runtime's to decide: whether a *descendant* of a server lets go of the stderr pipe, and
whether a removal that failed works when it is tried again. `TidySpec` assumes that they do
(`DescendantExit`, `ThoroughSweep`), `FairSpec` does not; without the first a job need not
end (finding 2).

In `EventBus` (`BusFairness`) a handler that can proceed is run, and a write returns,
because its client reads or because the connection is gone; no client is made to come, to
read at any pace or to go. In `McpClient` goroutines that can proceed are run and timers
fire; the three messages of the handshake fit in the empty pipe, so their writes return,
while nothing makes the server read a call, answer it, or exit before its job has ended,
and nothing makes a descendant exit. `FairSpec` lets the job end (its TTL), `LongSpec`
leaves that open, which is how a timeout far shorter than the TTL is expressed without a
clock. `AttachFairness` runs each job's goroutine, be it waiting for a slot, in the handler
or in `finish`, where it can go on, and makes no context end and no request come:
`AttachesEnd` holds without help from the 180 s deadline, since each step of the handler
is bounded. `StreamFairness` runs the copier, the scanner and the caller; that the command
ends, and what it forked lets go of its output, is not theirs, and `StreamReturns` supposes
both.

## Findings

1. **Ended sandboxes are never purged** (`EndedJobsForgotten`). `purgeTerminalBefore`
   (`store.go:75`) skips a job that has a session, and no code sets `Job.session` back
   to nil, so each sandbox that ended stays in the registry with its history. The
   janitor's comment says it purges terminal jobs. `SessionlessJobsForgotten` is the
   part that holds.
2. **A job may never end** (`EveryJobEnds` under `FairSpec`). The server's stderr is a
   `Ring`, so `cmd.Wait` (`stdio_client.go:143`) waits for the end of a pipe that a
   descendant of the killed server may hold open; no `WaitDelay` is set. The job then
   keeps its slot and the status `running` past its TTL.
3. **A `DELETE` may answer what does not happen** (`AnswersAreOutcomes`). After 50
   polls `Cancel` answers `cancelled`, and `finish`, still closing the server, may
   record `expired`, `complete` or `error`: the deadline had come first, or the outcome was
   decided and not yet on record.
4. **A slow client can miss the final event** (`FinalEventDelivered`). `Publish` drops
   what does not fit, `Close` then ends the stream, and nothing tells the client that
   the stream was cut. `BurstKept` is the part that holds.
5. **A request of the server can pass for a response** (`ServerRequestsIgnored`).
   `dispatch` ignores messages without an id and takes all others for responses, though
   a JSON-RPC request has an id too and `response.Method` would tell: a server's `ping`
   with the id of a pending call answers that call with an empty result. `AnswersAreOwn`
   is the part that holds.
6. **The RPC timeout does not end a blocked write** (`TimeoutsEndCalls`). A call looks
   at its context only after `write`, which holds `encMu`; while the server does not
   read its stdin, that call and all behind it outlast their timeout until the job ends.
   `CallsReturn` is the part that holds.
7. **A reset link can work more than once** (`LimitsKept`, by `LinksWorkOnce`).
   `ResetPassword` reads the link, changes the password and marks the link in three
   statements; resets that overlap all change the password, and so does one after a
   reset whose marking failed. The repository calls the link single-use.
   `MarkedLinksAreRefused` is the part that holds.
8. **A join token can be used more than `max_uses` times** (`LimitsKept`, by
   `UsesWithinLimit`). `RedeemJoinToken` compares the counter it has read and then
   increments it unconditionally. TLC shows finding 7 for the conjunction, whose trace is
   shorter; checked alone, `UsesWithinLimit` is violated by two overlapping redemptions of
   a token for one use. `ExhaustedTokensAreRefused` is the part that holds.

Two more facts are stated by the properties rather than by findings, because no sentence of
the repository contradicts them: an installation can be blocked past every deadline
(`JobsEndUnlessBlocked`, `StreamReturns`), and a row can say ready over a serving profile
that another attach has torn (`AttachedMeansServed`).

## What is proved

`JobManagerProofs` proves for every finite set of jobs, every choice of which are
`mcp.test` jobs and sandboxes, any number of slots, callers and polls
(`JobsAssumption`, `LimitsAssumption`):

* `TypesKept`, `SlotsAreAccounted`, `AnnouncementsAreRecorded`, `NoServerIsLeftBehind`,
  `OutcomesAreExplained`, `RegistryStaysConsistent`: the six invariants of `job_safety`;
* `OutcomesAreFinal`: the action property;
* `Implementation`: `JobManager` implements `JobLifecycle`.

None of these invariants is inductive: each depends on where goroutines are. `IInv` ties
control points to data, in parts of increasing reach. `Flow` gives status, result and
outcome for each control point. `Cause` says that an outcome is what the context and the
result explain. `Story` ties the bus to the record: nothing final is published before it
is recorded, nothing is closed before it is published. `Estate` says at which points a
server and a session may exist. `Listing` ties registry and links to the
status. `Slot` counts tokens by the set of goroutines that owe one, with lemmas on how
one step changes its cardinality. Every part has a lemma for `Init` and one for a step,
with one proof step per action; `Invariance` puts them together, and each theorem
follows from the parts it needs. The refinement maps every action to the action of
`JobLifecycle` that changes status, registry or closed streams, and all others to a
stutter; the limit on running jobs follows from `Slot`.

`EventBusProofs` proves for any clients, any capacity and number of events
(`BusAssumption`): `BusTypesKept`, `ChannelsStayOpen`, `StreamsAreOrdered` and
`BurstsAreKept`. The invariant says per client that what it has been sent, what its
channel holds and what is still to be replayed are increasing and do not overlap, and
that they cover the history up to the first `Capacity` live events. The lemmas before it
are about sequences of numbers: what appending, taking the head and replaying preserve.

`McpClientProofs` proves for any calls and any ids of the server's own
(`McpAssumption`: the three handshake messages are distinct and are no calls):
`McpTypesKept`, `AnswersReachTheirCalls`, `ChannelsAreUsedOnce` and `NobodyIsForgotten`.
The invariant follows one request from its id to its channel (`Track`) and the channel
dispatch holds (`Hand`): what is listed is empty and open, what dispatch holds is not
listed, a call that has not given up is listed, held, answered or closed, and ids are
given once (`Numbered`).

`AccountsProofs` proves for any addresses and requests (`AccountsAssumption`: the marks
`Founder` and `None` are neither requests nor slugs): `SignupsAreApart`,
`ResetsEndSessions` and, with `TokenUse`, `ResetLinkImplementation`. The invariant adds
to them that a row exists only if the call that made it is past that point and so will
never change its user or make it again (`RowsInv`), and that what a reset remembers are
old sessions of its own user (`BeforeInv`): without these a session could come back
after it was ended.

`TokenUseProofs` is about the abstraction alone: if never more than `k` requests for a
token are between reading and counting, its limit is exceeded by at most `k - 1`
(`GrantsBounded`, for any `k` above 0). The invariant counts those
between the two statements with those already granted: together they are at most the
limit and `k - 1`, because the last one was admitted when fewer than the limit were on
record. Through the two refinements this becomes a theorem about the
code's counters: `UsesBounded` (a join token's `uses` stays within `max_uses + k - 1`) and, in
`AccountsProofs`, `LinkUsesBounded` (at most `k` resets get as far as marking one link).
For `k = 1` they say that the limits on what is recorded are kept when requests do not
overlap. A reset whose marking fails is not recorded, though it has changed the password.

`CloudProofs` proves for any tokens, any requested number of uses and any finite set
of requests (`JoinAssumption`) `RuntimesAreAccounted` and `JoinImplementation`. The
invariant is that the requests that know of their use are as many as the counter says
(`UsesInv`), by the cardinality of the set that each step moves one request into or out
of. For any keys and providers (`SecretAssumption`) it proves `CredentialsAreReadable`:
while no read has failed, the file holds the one key that was ever saved, and a process
started after that has it (`FileInv`).

`ModelAttachProofs` proves for any number of attaches, any slots, any download and any
number of failing statements (`AttachAssumption`: there is a slot, percentages are 2 to
100, with 100): `RowsAdvance`, `AttachedRowsAreServed`, `CompleteJobsAreReady` and
`QueuedProfilesAreExplained`. The invariant bounds for each point of the handler how far
its row can be (`RowInv`), so that every statement moves it on, and says what the shared
file holds from the opening on (`ServedInv`); a queued profile is
explained by the attach that queued it last (`QueuedInv`). `AttachImplementation` is the
other half of the composition: whatever requests, handlers and tables do, the jobs of
attaches follow `JobLifecycle`, and so no more of them run than there are slots
(`AttachesWithinLimit`).

`RuntimeProofs` proves three small components. `TheRingKeepsTheLatest`, for any limit and
any writes, follows from a lemma about ends of concatenations; its invariant is inductive
as it stands. For the limiter (`LimiterAssumption`: the limit and the window are
positive) `TwiceAtMost`, `TheTableIsBounded` and `NobodyRefusedEarly` hold for any wait
for the mutex. Its invariant looks back from the last request of an address: the last
`count` of them belong to the window in the table, those before
them are older than its opening, up to the wait, and those `Limit` places further back
are older than now by a window less the wait; no count over an interval of time is
needed, since `AtMostTwice` speaks of the requests by their places. For `runStream`
`OutputIsComplete` holds for any output and any pipe: what `Scan` has returned and what the
scanner, the copier and the pipe hold are, put together, what was printed (`Whole`), until
a long line ends the scan (`Beginning`); the events are the lines `Scan` has returned
without the blank ones (`Showing`), so the events have no gap before any line they show.

Liveness cannot be proved here: the prover handles neither fairness nor `ENABLED`. For
two components what a liveness argument rests on is proved instead. `StepsRunOut` gives
a number that every step of the copier, the scanner and the caller lowers once the command
has ended and no descendant holds its output, and `StreamNeverStuck` says that one of them
can go on until `runStream` has returned, but for exactly two waits: for such a descendant,
and for a scanner that a long line has stopped. `HandlersRunOut` gives one that every step of a
`model.attach` handler lowers and no other step raises, and `AttachesNeverStuck` says that
the handler can go on until it has returned and that a job waits for a slot only while
another runs. That those who can go on do go on is the scheduler's part, which
`StreamFairness` and `AttachFairness` state and TLC assumes.

TLC alone checks the liveness properties themselves: `JobsEndUnlessBlocked`, `SlotsReturned`,
`LeftoverScratchPruned`, `SessionlessJobsForgotten`, `CallsReturn`, `ReaderEnds`,
`StreamsEnd`, `HangupReleases`, `AttachesEnd` and `StreamReturns`.

## Plan

1. `JobLifecycle`, `JobManager`, `JobManagerProofs`: done.
2. `EventBus`, `EventBusProofs`: done.
3. `McpClient`, `McpClientProofs`: done.
4. `ModelAttach`, `ModelAttachProofs`: done; composed with the end of jobs as
   `JobLifecycle` gives it.
5. `TokenUse`, `Accounts`, `JoinTokens` and their proofs: done.
6. `SecretKey`, `LogRing`, `RateLimiter`, `LineStream` and their proofs: done.
7. `TokenUseProofs` and its two instances: done.
8. Left: a composition of jobs with a bus in which the manager's `last` and `closed` are
   those of `EventBus` (each is checked against the other's interface only); numbers that
   only decrease for the manager's goroutines, the MCP calls and the streams, as there are
   for `runStream` and `model.attach`; the model lock, once some code calls it.

## Not modelled

`src/legacy` is nine tenths of the repository's lines: code imported from another
project, mostly generated (protobuf messages and validators), with a `go.mod` of its
own, which this program does not build and no package of it imports. It has no part in
the runtime, so nothing here is about it, and the share of *all* lines that these
modules translate is small whatever they cover; of the runtime's own 6,900 lines of Go
the rest is listed here.

Events, payloads, commands and messages are opaque: which one is sent matters, not its
text. Log files, audit lines and metrics change nothing that is read back. The
`Content-Type`, flushing and wording of responses are left out. Job ids are taken to
be unique (`newID` draws 72 random bits). Validation in `Create` precedes any change of
state.

* Accounts: e-mail verification, which marks its own row and nothing else; the look-up
  of the session in each request, which changes nothing but drops the row of an expired
  session (that is `ExpireSession`). A log-in that compared the old password may create
  its session after a reset has revoked the others; `ResetEndsSessions` says what does
  hold.
* Cloud: listings and usage events, on which no other operation depends.
  `ListJoinTokens` is commented as listing "active (non-revoked)" tokens and lists all;
  no code sets `revoked`, so the two agree in effect. Setting a credential anew keeps
  the row and answers with an id that no row has; no statement looks a credential up by
  id.
* Models: resolving a source and importing a profile, one row each.
* Model cache: no code calls the lock or reads the metadata back.
* `pyenv.Ensure` for one directory by two jobs at once: what `uv`, `venv` and `pip` do
  then is outside this code.
* `listenWithFallback` tries one port after another and keeps no state. Command
  validation and TTL limits are pure functions on strings and durations.
* E-mail, Hugging Face, catalog, inventory and configuration are parsing, formatting and
  network I/O without state of their own; the control-plane tunnel is a stub; console,
  Python client and deployment files are not part of this process.
