-------------------------- MODULE JobManagerProofs --------------------------
(***************************************************************************)
(* Proofs about JobManager, for any finite set of jobs, any limits and any  *)
(* number of DELETE requests: the safety properties it states, the action   *)
(* property OutcomeIsFinal, and that it implements JobLifecycle.            *)
(***************************************************************************)
EXTENDS JobManager, FiniteSetTheorems, TLAPS

(***************************************************************************)
(* The inductive invariant, in parts.  Flow ties the goroutine's control    *)
(* point to what it has recorded; the others lean on it.                    *)
(***************************************************************************)
ReturnedPoints == FinishPoints \cup {"done"}
RecordedPoints == {"explain", "emit", "close", "leave", "done"}

Flow(j) ==
  /\ pc[j] = "unborn" => \/ status[j] = "none" /\ creator[j] = "idle"
                         \/ status[j] = "queued" /\ creator[j] = "put"
  /\ pc[j] = "lost" <=> status[j] = "lost"
  /\ pc[j] = "lost" => creator[j] = "idle"
  /\ pc[j] \notin {"unborn", "lost"} => creator[j] \in {"linking", "returned"}
  /\ pc[j] \in {"select", "start"} => status[j] = "queued"
  /\ pc[j] \in HandlerPoints => status[j] = "running"
  /\ pc[j] \in ReturnedPoints \ RecordedPoints =>
       status[j] = IF ran[j] = "unstarted" THEN "queued" ELSE "running"
  /\ pc[j] \in RecordedPoints => status[j] = outcome[j]
  /\ pc[j] \in RecordedPoints \cup {"record"} => outcome[j] \in Terminal
  /\ pc[j] \in ReturnedPoints <=> ran[j] # "none"
  /\ pc[j] \in {"task", "blocked"} => j \notin McpJobs

FlowInv == \A j \in Jobs : Flow(j)

\* No goroutine exists at first.
LEMMA FlowInit == Init => FlowInv
BY DEF Init, FlowInv, Flow, HandlerPoints, ReturnedPoints, RecordedPoints,
  FinishPoints, Terminal

\* Every step keeps each goroutine's record in line with its control point.
LEMMA FlowStep ==
  ASSUME TypeOK, FlowInv, [Next]_vars
  PROVE  FlowInv'
<1> SUFFICES ASSUME NEW j \in Jobs PROVE Flow(j)'
  BY DEF FlowInv
<1> USE DEF TypeOK, FlowInv, Flow, HandlerPoints, ReturnedPoints,
  RecordedPoints, FinishPoints, Terminal
<1>1. ASSUME NEW i \in Jobs, Put(i) PROVE Flow(j)'
  BY <1>1 DEF Put, runVars
<1>2. ASSUME NEW i \in Jobs, Spawn(i) PROVE Flow(j)'
  BY <1>2 DEF Spawn, Goto, Emit, jobVars
<1>3. ASSUME NEW i \in Jobs, LinkSandbox(i) PROVE Flow(j)'
  BY <1>3 DEF LinkSandbox, runVars, jobVars
<1>4. ASSUME NEW i \in Jobs, AcquireSlot(i) PROVE Flow(j)'
  BY <1>4 DEF AcquireSlot, Goto, SlotFree, jobVars, others
<1>5. ASSUME NEW i \in Jobs, GiveUpWaiting(i) PROVE Flow(j)'
  BY <1>5 DEF GiveUpWaiting, Goto, ContextEnded, jobVars, others
<1>6. ASSUME NEW i \in Jobs, StartRunning(i) PROVE Flow(j)'
  BY <1>6 DEF StartRunning, Goto, others
<1>7. ASSUME NEW i \in Jobs, TaskReturn(i) PROVE Flow(j)'
  BY <1>7 DEF TaskReturn, HandlerReturns, Goto, jobVars, others
<1>8. ASSUME NEW i \in Jobs, Prepare(i) PROVE Flow(j)'
  BY <1>8 DEF Prepare, Goto, HandlerReturns, Emit, jobVars, others
<1>9. ASSUME NEW i \in Jobs, StartServer(i) PROVE Flow(j)'
  BY <1>9 DEF StartServer, Goto, HandlerReturns, jobVars, others
<1>10. ASSUME NEW i \in Jobs, AttachSession(i) PROVE Flow(j)'
  BY <1>10 DEF AttachSession, Goto, others
<1>11. ASSUME NEW i \in Jobs, Bootstrap(i) PROVE Flow(j)'
  BY <1>11 DEF Bootstrap, Goto, HandlerReturns, Emit, others
<1>12. ASSUME NEW i \in Jobs, ServeUntilDone(i) PROVE Flow(j)'
  BY <1>12 DEF ServeUntilDone, HandlerReturns, ContextEnded, Goto, jobVars,
    others
<1>13. ASSUME NEW i \in Jobs, CloseSession(i) PROVE Flow(j)'
  BY <1>13 DEF CloseSession, Goto, HasSession, jobVars, others
<1>14. ASSUME NEW i \in Jobs, WaitServer(i) PROVE Flow(j)'
  BY <1>14 DEF WaitServer, Goto, jobVars, others
<1>15. ASSUME NEW i \in Jobs, RemoveScratch(i) PROVE Flow(j)'
  BY <1>15 DEF RemoveScratch, Goto, jobVars, others
<1>16. ASSUME NEW i \in Jobs, Decide(i) PROVE Flow(j)'
  BY <1>16 DEF Decide, Goto, Verdict, jobVars, others
<1>17. ASSUME NEW i \in Jobs, RecordStatus(i) PROVE Flow(j)'
  BY <1>17 DEF RecordStatus, Goto, AfterRecord, others
<1>18. ASSUME NEW i \in Jobs, RecordError(i) PROVE Flow(j)'
  BY <1>18 DEF RecordError, Goto, others
<1>19. ASSUME NEW i \in Jobs, EmitFinal(i) PROVE Flow(j)'
  BY <1>19 DEF EmitFinal, Goto, Emit, jobVars, others
<1>20. ASSUME NEW i \in Jobs, CloseBus(i) PROVE Flow(j)'
  BY <1>20 DEF CloseBus, Goto, jobVars, others
<1>21. ASSUME NEW i \in Jobs, Leave(i) PROVE Flow(j)'
  BY <1>21 DEF Leave, Goto, EndCtx, Release, jobVars, others
<1>22. CASE Restart
  BY <1>22 DEF Restart, Known, ControlPoints
<1>23. CASE UNCHANGED <<pc, creator, ran, outcome, status>>
  BY <1>23
<1>24. ASSUME NEW i \in Jobs, TaskBlocks(i) PROVE Flow(j)'
  BY <1>24 DEF TaskBlocks, Goto, jobVars, others
<1>25. ASSUME NEW i \in Jobs, TaskUnblocks(i) PROVE Flow(j)'
  BY <1>25 DEF TaskUnblocks, Goto, jobVars, others
<1> QED BY <1>1, <1>2, <1>3, <1>4, <1>5, <1>6, <1>7, <1>8, <1>9, <1>10, <1>11,
  <1>12, <1>13, <1>14, <1>15, <1>16, <1>17, <1>18, <1>19, <1>20, <1>21, <1>22,
  <1>23,
  <1>24, <1>25 DEF Next, CreateStep, RunStep, Environment, CancelStep, TaskProgress,
  Deadline, ServerExit, DescendantExit, Age, CancelRequest, CancelPoll,
  CancelGiveUp, Sweep, Shutdown, vars, runVars, jobVars, procVars, storeVars,
  busVars, callerVars, others

-----------------------------------------------------------------------------
\* What finish decides, the context and the handler bear out; and the two ways
\* of returning that only an ended context can cause.
Cause(j) ==
  /\ pc[j] \in RecordedPoints \cup {"record"} =>
       /\ outcome[j] = "expired" => ctx[j] = "deadline"
       /\ outcome[j] = "cancelled" => ctx[j] = "cancelled"
       /\ outcome[j] = "complete" => ran[j] = "ok" /\ j \notin McpJobs
       /\ outcome[j] = "error" => ran[j] = "err"
  /\ ran[j] = "unstarted" => ctx[j] # "live"
  /\ ran[j] = "ok" /\ j \in McpJobs => ctx[j] # "live"

CauseInv == \A j \in Jobs : Cause(j)

\* Init gives every job no outcome and no result.
LEMMA CauseInit == Init => CauseInv
BY DEF Init, CauseInv, Cause, RecordedPoints

\* No step parts an outcome from its cause: contexts end once, for one reason.
LEMMA CauseStep ==
  ASSUME TypeOK, FlowInv, CauseInv, [Next]_vars
  PROVE  CauseInv'
<1> SUFFICES ASSUME NEW j \in Jobs PROVE Cause(j)'
  BY DEF CauseInv
<1> USE DEF TypeOK, FlowInv, Flow, CauseInv, Cause, HandlerPoints,
  ReturnedPoints, RecordedPoints, FinishPoints, Terminal
<1>1. ASSUME NEW i \in Jobs, Put(i) PROVE Cause(j)'
  BY <1>1 DEF Put, runVars, ControlPoints
<1>2. ASSUME NEW i \in Jobs, Spawn(i) PROVE Cause(j)'
  BY <1>2 DEF Spawn, Goto, Emit
<1>3. ASSUME NEW i \in Jobs, AcquireSlot(i) PROVE Cause(j)'
  BY <1>3 DEF AcquireSlot, Goto, SlotFree
<1>4. ASSUME NEW i \in Jobs, GiveUpWaiting(i) PROVE Cause(j)'
  BY <1>4 DEF GiveUpWaiting, Goto, ContextEnded
<1>5. ASSUME NEW i \in Jobs, StartRunning(i) PROVE Cause(j)'
  BY <1>5 DEF StartRunning, Goto
<1>6. ASSUME NEW i \in Jobs, TaskReturn(i) PROVE Cause(j)'
  BY <1>6 DEF TaskReturn, HandlerReturns, Goto
<1>7. ASSUME NEW i \in Jobs, Prepare(i) PROVE Cause(j)'
  BY <1>7 DEF Prepare, Goto, HandlerReturns, Emit
<1>8. ASSUME NEW i \in Jobs, StartServer(i) PROVE Cause(j)'
  BY <1>8 DEF StartServer, Goto, HandlerReturns
<1>9. ASSUME NEW i \in Jobs, AttachSession(i) PROVE Cause(j)'
  BY <1>9 DEF AttachSession, Goto
<1>10. ASSUME NEW i \in Jobs, Bootstrap(i) PROVE Cause(j)'
  BY <1>10 DEF Bootstrap, Goto, HandlerReturns, Emit
<1>11. ASSUME NEW i \in Jobs, ServeUntilDone(i) PROVE Cause(j)'
  BY <1>11 DEF ServeUntilDone, HandlerReturns, ContextEnded, Goto
<1>12. ASSUME NEW i \in Jobs, CloseSession(i) PROVE Cause(j)'
  BY <1>12 DEF CloseSession, Goto, HasSession
<1>13. ASSUME NEW i \in Jobs, WaitServer(i) PROVE Cause(j)'
  BY <1>13 DEF WaitServer, Goto
<1>14. ASSUME NEW i \in Jobs, RemoveScratch(i) PROVE Cause(j)'
  BY <1>14 DEF RemoveScratch, Goto
<1>15. ASSUME NEW i \in Jobs, Decide(i) PROVE Cause(j)'
  BY <1>15 DEF Decide, Goto, Verdict
<1>16. ASSUME NEW i \in Jobs, RecordStatus(i) PROVE Cause(j)'
  BY <1>16 DEF RecordStatus, Goto, AfterRecord
<1>17. ASSUME NEW i \in Jobs, RecordError(i) PROVE Cause(j)'
  BY <1>17 DEF RecordError, Goto
<1>18. ASSUME NEW i \in Jobs, EmitFinal(i) PROVE Cause(j)'
  BY <1>18 DEF EmitFinal, Goto, Emit
<1>19. ASSUME NEW i \in Jobs, CloseBus(i) PROVE Cause(j)'
  BY <1>19 DEF CloseBus, Goto
<1>20. ASSUME NEW i \in Jobs, Leave(i) PROVE Cause(j)'
  BY <1>20 DEF Leave, Goto, EndCtx, Release
<1>21. ASSUME NEW i \in Jobs, Deadline(i) PROVE Cause(j)'
  BY <1>21 DEF Deadline, runVars
<1>22. ASSUME NEW c \in Callers, NEW i \in Jobs, CancelRequest(c, i) PROVE Cause(j)'
  BY <1>22 DEF CancelRequest, EndCtx, runVars
<1>23. CASE Shutdown
  BY <1>23 DEF Shutdown, EndCtx, runVars
<1>24. CASE Restart
  BY <1>24 DEF Restart, Known, ControlPoints
<1>25. CASE UNCHANGED <<pc, ctx, ran, outcome>>
  BY <1>25
<1>26. ASSUME NEW i \in Jobs, TaskBlocks(i) PROVE Cause(j)'
  BY <1>26 DEF TaskBlocks, Goto
<1>27. ASSUME NEW i \in Jobs, TaskUnblocks(i) PROVE Cause(j)'
  BY <1>27 DEF TaskUnblocks, Goto
<1> QED BY <1>1, <1>2, <1>3, <1>4, <1>5, <1>6, <1>7, <1>8, <1>9, <1>10, <1>11,
  <1>12, <1>13, <1>14, <1>15, <1>16, <1>17, <1>18, <1>19, <1>20, <1>21, <1>22,
  <1>23, <1>24, <1>25,
  <1>26, <1>27 DEF Next, CreateStep, RunStep, Environment, CancelStep,
  LinkSandbox, TaskProgress, ServerExit, DescendantExit, Age, CancelPoll,
  CancelGiveUp, Sweep, vars, runVars, jobVars, procVars, storeVars, busVars,
  callerVars, others

-----------------------------------------------------------------------------
\* The bus tells the outcome once it is recorded and closes after telling it.
Story(j) ==
  /\ pc[j] \in {"close", "leave", "done"} => last[j] = outcome[j]
  /\ last[j] \in Terminal => pc[j] \in {"close", "leave", "done"}
  /\ j \in closed => pc[j] \in {"leave", "done"}
  /\ pc[j] \in {"emit", "close", "leave", "done"} /\ outcome[j] = "error"
       => j \in explained

StoryInv == \A j \in Jobs : Story(j)

\* No bus has told anything at first.
LEMMA StoryInit == Init => StoryInv
BY DEF Init, StoryInv, Story, Terminal

\* Every step tells no more than what is recorded.
LEMMA StoryStep ==
  ASSUME TypeOK, FlowInv, StoryInv, [Next]_vars
  PROVE  StoryInv'
<1> SUFFICES ASSUME NEW j \in Jobs PROVE Story(j)'
  BY DEF StoryInv
<1> USE DEF TypeOK, FlowInv, Flow, StoryInv, Story, HandlerPoints,
  ReturnedPoints, RecordedPoints, FinishPoints, Terminal
<1>1. ASSUME NEW i \in Jobs, Spawn(i) PROVE Story(j)'
  BY <1>1 DEF Spawn, Goto, Emit, jobVars
<1>2. ASSUME NEW i \in Jobs, AcquireSlot(i) PROVE Story(j)'
  BY <1>2 DEF AcquireSlot, Goto, SlotFree, jobVars, busVars
<1>3. ASSUME NEW i \in Jobs, GiveUpWaiting(i) PROVE Story(j)'
  BY <1>3 DEF GiveUpWaiting, Goto, ContextEnded, jobVars, busVars
<1>4. ASSUME NEW i \in Jobs, StartRunning(i) PROVE Story(j)'
  BY <1>4 DEF StartRunning, Goto, busVars
<1>5. ASSUME NEW i \in Jobs, TaskReturn(i) PROVE Story(j)'
  BY <1>5 DEF TaskReturn, HandlerReturns, Goto, jobVars, busVars
<1>6. ASSUME NEW i \in Jobs, Prepare(i) PROVE Story(j)'
  BY <1>6 DEF Prepare, Goto, HandlerReturns, Emit, jobVars
<1>7. ASSUME NEW i \in Jobs, StartServer(i) PROVE Story(j)'
  BY <1>7 DEF StartServer, Goto, HandlerReturns, jobVars, busVars
<1>8. ASSUME NEW i \in Jobs, AttachSession(i) PROVE Story(j)'
  BY <1>8 DEF AttachSession, Goto, busVars
<1>9. ASSUME NEW i \in Jobs, Bootstrap(i) PROVE Story(j)'
  BY <1>9 DEF Bootstrap, Goto, HandlerReturns, Emit
<1>10. ASSUME NEW i \in Jobs, ServeUntilDone(i) PROVE Story(j)'
  BY <1>10 DEF ServeUntilDone, HandlerReturns, ContextEnded, Goto, jobVars,
    busVars
<1>11. ASSUME NEW i \in Jobs, CloseSession(i) PROVE Story(j)'
  BY <1>11 DEF CloseSession, Goto, HasSession, jobVars, busVars
<1>12. ASSUME NEW i \in Jobs, WaitServer(i) PROVE Story(j)'
  BY <1>12 DEF WaitServer, Goto, jobVars, busVars
<1>13. ASSUME NEW i \in Jobs, RemoveScratch(i) PROVE Story(j)'
  BY <1>13 DEF RemoveScratch, Goto, jobVars, busVars
<1>14. ASSUME NEW i \in Jobs, Decide(i) PROVE Story(j)'
  BY <1>14 DEF Decide, Goto, Verdict, jobVars, busVars
<1>15. ASSUME NEW i \in Jobs, RecordStatus(i) PROVE Story(j)'
  BY <1>15 DEF RecordStatus, Goto, AfterRecord, busVars
<1>16. ASSUME NEW i \in Jobs, RecordError(i) PROVE Story(j)'
  BY <1>16 DEF RecordError, Goto, busVars
<1>17. ASSUME NEW i \in Jobs, EmitFinal(i) PROVE Story(j)'
  BY <1>17 DEF EmitFinal, Goto, Emit, jobVars
<1>18. ASSUME NEW i \in Jobs, CloseBus(i) PROVE Story(j)'
  BY <1>18 DEF CloseBus, Goto, jobVars
<1>19. ASSUME NEW i \in Jobs, Leave(i) PROVE Story(j)'
  BY <1>19 DEF Leave, Goto, EndCtx, Release, jobVars, busVars
<1>20. ASSUME NEW i \in Jobs, TaskProgress(i) PROVE Story(j)'
  BY <1>20 DEF TaskProgress, Emit, runVars, jobVars
<1>21. CASE Restart
  BY <1>21 DEF Restart, Known, ControlPoints
<1>22. CASE UNCHANGED <<pc, outcome, explained, last, closed>>
  BY <1>22
<1>23. ASSUME NEW i \in Jobs, TaskBlocks(i) PROVE Story(j)'
  BY <1>23 DEF TaskBlocks, Goto, jobVars, busVars
<1>24. ASSUME NEW i \in Jobs, TaskUnblocks(i) PROVE Story(j)'
  BY <1>24 DEF TaskUnblocks, Goto, jobVars, busVars
<1> QED BY <1>1, <1>2, <1>3, <1>4, <1>5, <1>6, <1>7, <1>8, <1>9, <1>10, <1>11,
  <1>12, <1>13, <1>14, <1>15, <1>16, <1>17, <1>18, <1>19, <1>20, <1>21, <1>22,
  <1>23, <1>24 DEF Next, CreateStep, RunStep, Environment, CancelStep, Put, LinkSandbox,
  Deadline, ServerExit, DescendantExit, Age, CancelRequest, CancelPoll,
  CancelGiveUp, Sweep, Shutdown, vars, runVars, jobVars, procVars, storeVars,
  busVars, callerVars, others

-----------------------------------------------------------------------------
\* What a job owns at each control point: a server only between its start and
\* the end of Wait.
SweptPoints == {"decide", "record"} \cup RecordedPoints

Estate(j) ==
  /\ pc[j] \in {"unborn", "select", "start", "task", "blocked", "prepare", "spawn"} =>
       session[j] = "none" /\ proc[j] = "none"
  /\ pc[j] \in {"boot", "serve", "wait"} => session[j] # "none"
  /\ pc[j] = "finish" /\ session[j] = "none" => proc[j] = "none"
  /\ pc[j] \in SweptPoints \cup {"cleanup"} => proc[j] \in {"none", "reaped"}

EstateInv == \A j \in Jobs : Estate(j)

\* At first there is no server.
LEMMA EstateInit == Init => EstateInv
BY DEF Init, EstateInv, Estate, SweptPoints, RecordedPoints

\* No step leaves a server behind.
LEMMA EstateStep ==
  ASSUME TypeOK, FlowInv, EstateInv, [Next]_vars
  PROVE  EstateInv'
<1> SUFFICES ASSUME NEW j \in Jobs PROVE Estate(j)'
  BY DEF EstateInv
<1> USE DEF TypeOK, FlowInv, Flow, EstateInv, Estate, SweptPoints,
  HandlerPoints, ReturnedPoints, RecordedPoints, FinishPoints, Terminal
<1>1. ASSUME NEW i \in Jobs, Spawn(i) PROVE Estate(j)'
  BY <1>1 DEF Spawn, Goto, Emit, jobVars, procVars
<1>2. ASSUME NEW i \in Jobs, AcquireSlot(i) PROVE Estate(j)'
  BY <1>2 DEF AcquireSlot, Goto, SlotFree, jobVars, procVars
<1>3. ASSUME NEW i \in Jobs, GiveUpWaiting(i) PROVE Estate(j)'
  BY <1>3 DEF GiveUpWaiting, Goto, ContextEnded, jobVars, procVars
<1>4. ASSUME NEW i \in Jobs, StartRunning(i) PROVE Estate(j)'
  BY <1>4 DEF StartRunning, Goto, procVars
<1>5. ASSUME NEW i \in Jobs, TaskReturn(i) PROVE Estate(j)'
  BY <1>5 DEF TaskReturn, HandlerReturns, Goto, jobVars, procVars
<1>6. ASSUME NEW i \in Jobs, Prepare(i) PROVE Estate(j)'
  BY <1>6 DEF Prepare, Goto, HandlerReturns, Emit, jobVars, procVars
<1>7. ASSUME NEW i \in Jobs, StartServer(i) PROVE Estate(j)'
  BY <1>7 DEF StartServer, Goto, HandlerReturns, jobVars, procVars
<1>8. ASSUME NEW i \in Jobs, AttachSession(i) PROVE Estate(j)'
  BY <1>8 DEF AttachSession, Goto, procVars
<1>9. ASSUME NEW i \in Jobs, Bootstrap(i) PROVE Estate(j)'
  BY <1>9 DEF Bootstrap, Goto, HandlerReturns, Emit, procVars
<1>10. ASSUME NEW i \in Jobs, ServeUntilDone(i) PROVE Estate(j)'
  BY <1>10 DEF ServeUntilDone, HandlerReturns, ContextEnded, Goto, jobVars,
    procVars
<1>11. ASSUME NEW i \in Jobs, CloseSession(i) PROVE Estate(j)'
  BY <1>11 DEF CloseSession, Goto, HasSession, jobVars
<1>12. ASSUME NEW i \in Jobs, WaitServer(i) PROVE Estate(j)'
  BY <1>12 DEF WaitServer, Goto, jobVars
<1>13. ASSUME NEW i \in Jobs, RemoveScratch(i) PROVE Estate(j)'
  BY <1>13 DEF RemoveScratch, Goto, jobVars, procVars
<1>14. ASSUME NEW i \in Jobs, Decide(i) PROVE Estate(j)'
  BY <1>14 DEF Decide, Goto, Verdict, jobVars, procVars
<1>15. ASSUME NEW i \in Jobs, RecordStatus(i) PROVE Estate(j)'
  BY <1>15 DEF RecordStatus, Goto, AfterRecord, procVars
<1>16. ASSUME NEW i \in Jobs, RecordError(i) PROVE Estate(j)'
  BY <1>16 DEF RecordError, Goto, procVars
<1>17. ASSUME NEW i \in Jobs, EmitFinal(i) PROVE Estate(j)'
  BY <1>17 DEF EmitFinal, Goto, Emit, jobVars, procVars
<1>18. ASSUME NEW i \in Jobs, CloseBus(i) PROVE Estate(j)'
  BY <1>18 DEF CloseBus, Goto, jobVars, procVars
<1>19. ASSUME NEW i \in Jobs, Leave(i) PROVE Estate(j)'
  BY <1>19 DEF Leave, Goto, EndCtx, Release, jobVars, procVars
<1>20. ASSUME NEW i \in Jobs, ServerExit(i) PROVE Estate(j)'
  BY <1>20 DEF ServerExit, runVars, jobVars
<1>21. CASE Sweep
  BY <1>21 DEF Sweep, runVars, jobVars, procVars
<1>22. CASE Restart
  BY <1>22 DEF Restart, Known, procVars, ControlPoints
<1>23. CASE UNCHANGED <<pc, session, proc>>
  BY <1>23
<1>24. ASSUME NEW i \in Jobs, TaskBlocks(i) PROVE Estate(j)'
  BY <1>24 DEF TaskBlocks, Goto, jobVars, procVars
<1>25. ASSUME NEW i \in Jobs, TaskUnblocks(i) PROVE Estate(j)'
  BY <1>25 DEF TaskUnblocks, Goto, jobVars, procVars
<1> QED BY <1>1, <1>2, <1>3, <1>4, <1>5, <1>6, <1>7, <1>8, <1>9, <1>10, <1>11,
  <1>12, <1>13, <1>14, <1>15, <1>16, <1>17, <1>18, <1>19, <1>20, <1>21, <1>22,
  <1>23,
  <1>24, <1>25 DEF Next, CreateStep, RunStep, Environment, CancelStep, Put,
  LinkSandbox, TaskProgress, Deadline, DescendantExit, Age, CancelRequest,
  CancelPoll, CancelGiveUp, Shutdown, vars, runVars, jobVars, procVars,
  storeVars, busVars, callerVars, others

-----------------------------------------------------------------------------
\* What the registry lists, and why a link is always made in time.
Listing(j) ==
  /\ status[j] \notin {"none", "lost"} /\ j \notin stored => status[j] \in Terminal
  /\ j \in stored => status[j] \notin {"none", "lost"}
  /\ j \in linked => j \in stored
  /\ creator[j] \in {"put", "linking"} => j \in stored /\ j \notin old
  /\ j \in old => status[j] = "lost" \/ creator[j] = "returned"

ListingInv == \A j \in Jobs : Listing(j)

\* The registry is empty at first.
LEMMA ListingInit == Init => ListingInv
BY DEF Init, ListingInv, Listing

\* Every step keeps the registry's promises: only ended jobs leave it.
LEMMA ListingStep ==
  ASSUME TypeOK, FlowInv, ListingInv, [Next]_vars
  PROVE  ListingInv'
<1> SUFFICES ASSUME NEW j \in Jobs PROVE Listing(j)'
  BY DEF ListingInv
<1> USE DEF TypeOK, FlowInv, Flow, ListingInv, Listing, HandlerPoints,
  ReturnedPoints, RecordedPoints, FinishPoints, Terminal
<1>1. ASSUME NEW i \in Jobs, Put(i) PROVE Listing(j)'
  BY <1>1 DEF Put
<1>2. ASSUME NEW i \in Jobs, Spawn(i) PROVE Listing(j)'
  BY <1>2 DEF Spawn, Goto, Emit, jobVars, storeVars
<1>3. ASSUME NEW i \in Jobs, LinkSandbox(i) PROVE Listing(j)'
  BY <1>3 DEF LinkSandbox, jobVars
<1>4. ASSUME NEW i \in Jobs, StartRunning(i) PROVE Listing(j)'
  BY <1>4 DEF StartRunning, Goto, storeVars, others
<1>5. ASSUME NEW i \in Jobs, RecordStatus(i) PROVE Listing(j)'
  BY <1>5 DEF RecordStatus, Goto, AfterRecord, storeVars, others
<1>6. ASSUME NEW i \in Jobs, Age(i) PROVE Listing(j)'
  BY <1>6 DEF Age, jobVars, storeVars
<1>7. CASE Sweep
  BY <1>7 DEF Sweep, Purgeable, Pruned, jobVars
<1>8. CASE Restart
  BY <1>8 DEF Restart, Known, ControlPoints
<1>9. CASE UNCHANGED <<creator, status, stored, linked, old>>
  BY <1>9
<1> QED BY <1>1, <1>2, <1>3, <1>4, <1>5, <1>6, <1>7, <1>8, <1>9 DEF Next,
  CreateStep, RunStep, Environment, CancelStep, AcquireSlot, GiveUpWaiting,
  TaskReturn, TaskBlocks, TaskUnblocks, Prepare, StartServer, AttachSession, Bootstrap, ServeUntilDone,
  CloseSession, WaitServer, RemoveScratch, Decide, RecordError, EmitFinal,
  CloseBus, Leave, TaskProgress, Deadline, ServerExit, DescendantExit,
  CancelRequest, CancelPoll, CancelGiveUp, Shutdown, vars, runVars, jobVars,
  procVars, storeVars, busVars, callerVars, others

-----------------------------------------------------------------------------
\* Tokens and holders agree in number, within the capacity.
SlotInv ==
  /\ slots = Cardinality(Holders)
  /\ slots <= MaxConcurrentJobs

\* The holders are some of finitely many jobs.
LEMMA HoldersFinite == IsFiniteSet(Holders) /\ IsFiniteSet(Jobs)
BY FS_Subset, JobsAssumption DEF Holders

\* Nobody holds a slot at first.
LEMMA SlotInit == Init => SlotInv
<1> SUFFICES ASSUME Init PROVE SlotInv
  OBVIOUS
<1>1. Holders = {}
  BY DEF Init, Holders, HoldingPoints, HandlerPoints, FinishPoints
<1> QED BY <1>1, FS_EmptySet, LimitsAssumption DEF Init, SlotInv

\* A token is taken with a holder, given back with one, and otherwise both stay.
LEMMA SlotStep ==
  ASSUME TypeOK, FlowInv, SlotInv, [Next]_vars
  PROVE  SlotInv'
<1>1. ASSUME NEW i \in Jobs, AcquireSlot(i) PROVE SlotInv'
  <2>1. i \notin Holders /\ Holders' = Holders \cup {i}
    BY <1>1 DEF AcquireSlot, Goto, Holders, HoldingPoints, HandlerPoints,
      TypeOK, FlowInv, Flow, ReturnedPoints, FinishPoints
  <2>2. Cardinality(Holders') = Cardinality(Holders) + 1
    BY <2>1, HoldersFinite, FS_AddElement
  <2> QED BY <1>1, <2>2, LimitsAssumption DEF AcquireSlot, SlotFree, SlotInv, TypeOK
<1>2. ASSUME NEW i \in Jobs, Leave(i) PROVE SlotInv'
  <2>1. CASE ran[i] = "unstarted"
    <3>1. Holders' = Holders
      BY <1>2, <2>1 DEF Leave, Goto, Holders, HoldingPoints, HandlerPoints,
        TypeOK, FlowInv, Flow, ReturnedPoints, FinishPoints
    <3> QED BY <1>2, <2>1, <3>1 DEF Leave, Release, SlotInv
  <2>2. CASE ran[i] # "unstarted"
    <3>1. i \in Holders /\ Holders' = Holders \ {i}
      BY <1>2, <2>2 DEF Leave, Goto, Holders, HoldingPoints, HandlerPoints,
        TypeOK, FlowInv, Flow, ReturnedPoints, FinishPoints
    <3>2. Cardinality(Holders') = Cardinality(Holders) - 1
      BY <3>1, HoldersFinite, FS_RemoveElement
    <3> QED BY <1>2, <2>2, <3>2, LimitsAssumption DEF Leave, Release, SlotInv, TypeOK
  <2> QED BY <2>1, <2>2
<1>3. CASE Restart
  <2>1. Holders' = {}
    BY <1>3 DEF Restart, Known, Holders, HoldingPoints, TypeOK, FlowInv, Flow,
      ControlPoints, HandlerPoints, ReturnedPoints, RecordedPoints, FinishPoints,
      Terminal
  <2> QED BY <1>3, <2>1, FS_EmptySet, LimitsAssumption DEF Restart, SlotInv
<1>4. ASSUME NEW i \in Jobs, Spawn(i) PROVE SlotInv'
  <2>1. Holders' = Holders
    BY <1>4 DEF Spawn, Goto, Emit, Holders, HoldingPoints, HandlerPoints,
      TypeOK, FlowInv, Flow, ReturnedPoints, FinishPoints
  <2> QED BY <1>4, <2>1 DEF Spawn, SlotInv
<1>5. ASSUME NEW i \in Jobs, GiveUpWaiting(i) PROVE SlotInv'
  <2>1. Holders' = Holders
    BY <1>5 DEF GiveUpWaiting, Goto, ContextEnded, Holders, HoldingPoints,
      HandlerPoints, TypeOK, FlowInv, Flow, ReturnedPoints, FinishPoints
  <2> QED BY <1>5, <2>1 DEF GiveUpWaiting, SlotInv
<1>6. ASSUME NEW i \in Jobs, StartRunning(i) PROVE SlotInv'
  <2>1. Holders' = Holders
    BY <1>6 DEF StartRunning, Goto, Holders, HoldingPoints, HandlerPoints,
      TypeOK, FlowInv, Flow, ReturnedPoints, FinishPoints
  <2> QED BY <1>6, <2>1 DEF StartRunning, SlotInv
<1>7. ASSUME NEW i \in Jobs, TaskReturn(i) PROVE SlotInv'
  <2>1. Holders' = Holders
    BY <1>7 DEF TaskReturn, HandlerReturns, Goto, Holders, HoldingPoints,
      HandlerPoints, TypeOK, FlowInv, Flow, ReturnedPoints, FinishPoints
  <2> QED BY <1>7, <2>1 DEF TaskReturn, SlotInv
<1>8. ASSUME NEW i \in Jobs, Prepare(i) PROVE SlotInv'
  <2>1. Holders' = Holders
    BY <1>8 DEF Prepare, Goto, HandlerReturns, Emit, Holders, HoldingPoints,
      HandlerPoints, TypeOK, FlowInv, Flow, ReturnedPoints, FinishPoints
  <2> QED BY <1>8, <2>1 DEF Prepare, SlotInv
<1>9. ASSUME NEW i \in Jobs, StartServer(i) PROVE SlotInv'
  <2>1. Holders' = Holders
    BY <1>9 DEF StartServer, Goto, HandlerReturns, Holders, HoldingPoints,
      HandlerPoints, TypeOK, FlowInv, Flow, ReturnedPoints, FinishPoints
  <2> QED BY <1>9, <2>1 DEF StartServer, SlotInv
<1>10. ASSUME NEW i \in Jobs, AttachSession(i) PROVE SlotInv'
  <2>1. Holders' = Holders
    BY <1>10 DEF AttachSession, Goto, Holders, HoldingPoints, HandlerPoints,
      TypeOK, FlowInv, Flow, ReturnedPoints, FinishPoints
  <2> QED BY <1>10, <2>1 DEF AttachSession, SlotInv
<1>11. ASSUME NEW i \in Jobs, Bootstrap(i) PROVE SlotInv'
  <2>1. Holders' = Holders
    BY <1>11 DEF Bootstrap, Goto, HandlerReturns, Emit, Holders,
      HoldingPoints, HandlerPoints, TypeOK, FlowInv, Flow, ReturnedPoints,
      FinishPoints
  <2> QED BY <1>11, <2>1 DEF Bootstrap, SlotInv
<1>12. ASSUME NEW i \in Jobs, ServeUntilDone(i) PROVE SlotInv'
  <2>1. Holders' = Holders
    BY <1>12 DEF ServeUntilDone, HandlerReturns, ContextEnded, Goto, Holders,
      HoldingPoints, HandlerPoints, TypeOK, FlowInv, Flow, ReturnedPoints,
      FinishPoints
  <2> QED BY <1>12, <2>1 DEF ServeUntilDone, SlotInv
<1>13. ASSUME NEW i \in Jobs, CloseSession(i) PROVE SlotInv'
  <2>1. Holders' = Holders
    BY <1>13 DEF CloseSession, Goto, HasSession, Holders, HoldingPoints,
      HandlerPoints, TypeOK, FlowInv, Flow, ReturnedPoints, FinishPoints
  <2> QED BY <1>13, <2>1 DEF CloseSession, SlotInv
<1>14. ASSUME NEW i \in Jobs, WaitServer(i) PROVE SlotInv'
  <2>1. Holders' = Holders
    BY <1>14 DEF WaitServer, Goto, Holders, HoldingPoints, HandlerPoints,
      TypeOK, FlowInv, Flow, ReturnedPoints, FinishPoints
  <2> QED BY <1>14, <2>1 DEF WaitServer, SlotInv
<1>15. ASSUME NEW i \in Jobs, RemoveScratch(i) PROVE SlotInv'
  <2>1. Holders' = Holders
    BY <1>15 DEF RemoveScratch, Goto, Holders, HoldingPoints, HandlerPoints,
      TypeOK, FlowInv, Flow, ReturnedPoints, FinishPoints
  <2> QED BY <1>15, <2>1 DEF RemoveScratch, SlotInv
<1>16. ASSUME NEW i \in Jobs, Decide(i) PROVE SlotInv'
  <2>1. Holders' = Holders
    BY <1>16 DEF Decide, Goto, Verdict, Holders, HoldingPoints, HandlerPoints,
      TypeOK, FlowInv, Flow, ReturnedPoints, FinishPoints
  <2> QED BY <1>16, <2>1 DEF Decide, SlotInv
<1>17. ASSUME NEW i \in Jobs, RecordStatus(i) PROVE SlotInv'
  <2>1. Holders' = Holders
    BY <1>17 DEF RecordStatus, Goto, AfterRecord, Holders, HoldingPoints,
      HandlerPoints, TypeOK, FlowInv, Flow, ReturnedPoints, FinishPoints
  <2> QED BY <1>17, <2>1 DEF RecordStatus, SlotInv
<1>18. ASSUME NEW i \in Jobs, RecordError(i) PROVE SlotInv'
  <2>1. Holders' = Holders
    BY <1>18 DEF RecordError, Goto, Holders, HoldingPoints, HandlerPoints,
      TypeOK, FlowInv, Flow, ReturnedPoints, FinishPoints
  <2> QED BY <1>18, <2>1 DEF RecordError, SlotInv
<1>19. ASSUME NEW i \in Jobs, EmitFinal(i) PROVE SlotInv'
  <2>1. Holders' = Holders
    BY <1>19 DEF EmitFinal, Goto, Emit, Holders, HoldingPoints, HandlerPoints,
      TypeOK, FlowInv, Flow, ReturnedPoints, FinishPoints
  <2> QED BY <1>19, <2>1 DEF EmitFinal, SlotInv
<1>20. ASSUME NEW i \in Jobs, CloseBus(i) PROVE SlotInv'
  <2>1. Holders' = Holders
    BY <1>20 DEF CloseBus, Goto, Holders, HoldingPoints, HandlerPoints,
      TypeOK, FlowInv, Flow, ReturnedPoints, FinishPoints
  <2> QED BY <1>20, <2>1 DEF CloseBus, SlotInv
<1>21. CASE UNCHANGED <<pc, ran, slots>>
  BY <1>21 DEF SlotInv, Holders
<1>22. ASSUME NEW i \in Jobs, TaskBlocks(i) PROVE SlotInv'
  <2>1. Holders' = Holders
    BY <1>22 DEF TaskBlocks, Goto, Holders, HoldingPoints, HandlerPoints, TypeOK,
      FlowInv, Flow, ReturnedPoints, FinishPoints
  <2> QED BY <1>22, <2>1 DEF TaskBlocks, SlotInv
<1>23. ASSUME NEW i \in Jobs, TaskUnblocks(i) PROVE SlotInv'
  <2>1. Holders' = Holders
    BY <1>23 DEF TaskUnblocks, Goto, Holders, HoldingPoints, HandlerPoints, TypeOK,
      FlowInv, Flow, ReturnedPoints, FinishPoints
  <2> QED BY <1>23, <2>1 DEF TaskUnblocks, SlotInv
<1> QED BY <1>1, <1>2, <1>3, <1>4, <1>5, <1>6, <1>7, <1>8, <1>9, <1>10, <1>11,
  <1>12, <1>13, <1>14, <1>15, <1>16, <1>17, <1>18, <1>19, <1>20, <1>21,
  <1>22, <1>23 DEF
  Next, CreateStep, RunStep, Environment, CancelStep, Put, LinkSandbox,
  TaskProgress, Deadline, ServerExit, DescendantExit, Age, CancelRequest,
  CancelPoll, CancelGiveUp, Sweep, Shutdown, vars, runVars, jobVars, procVars,
  storeVars, busVars, callerVars, others

-----------------------------------------------------------------------------
\* Types are kept; that a released token exists is the slots' invariant.
LEMMA TypeStep ==
  ASSUME TypeOK, FlowInv, SlotInv, [Next]_vars
  PROVE  TypeOK'
<1> USE DEF TypeOK, Terminal, Statuses, ControlPoints, HandlerPoints,
  FinishPoints
<1>1. ASSUME NEW i \in Jobs, Put(i) PROVE TypeOK'
  BY <1>1 DEF Put, runVars, procVars, busVars, callerVars, runVars, procVars,
    busVars, callerVars
<1>2. ASSUME NEW i \in Jobs, Spawn(i) PROVE TypeOK'
  BY <1>2 DEF Spawn, Goto, Emit, jobVars, procVars, storeVars, callerVars
<1>3. ASSUME NEW i \in Jobs, LinkSandbox(i) PROVE TypeOK'
  BY <1>3 DEF LinkSandbox, runVars, jobVars, procVars, busVars, callerVars
<1>4. ASSUME NEW i \in Jobs, AcquireSlot(i) PROVE TypeOK'
  BY <1>4 DEF AcquireSlot, Goto, SlotFree, jobVars, procVars, storeVars,
    busVars, callerVars, others
<1>5. ASSUME NEW i \in Jobs, GiveUpWaiting(i) PROVE TypeOK'
  BY <1>5 DEF GiveUpWaiting, Goto, ContextEnded, jobVars, procVars, storeVars,
    busVars, callerVars, others
<1>6. ASSUME NEW i \in Jobs, StartRunning(i) PROVE TypeOK'
  BY <1>6 DEF StartRunning, Goto, procVars, storeVars, busVars, callerVars,
    others
<1>7. ASSUME NEW i \in Jobs, TaskReturn(i) PROVE TypeOK'
  BY <1>7 DEF TaskReturn, HandlerReturns, Goto, jobVars, procVars, storeVars,
    busVars, callerVars, others
<1>8. ASSUME NEW i \in Jobs, Prepare(i) PROVE TypeOK'
  BY <1>8 DEF Prepare, Goto, HandlerReturns, Emit, jobVars, procVars,
    storeVars, callerVars, others
<1>9. ASSUME NEW i \in Jobs, StartServer(i) PROVE TypeOK'
  BY <1>9 DEF StartServer, Goto, HandlerReturns, jobVars, procVars, storeVars,
    busVars, callerVars, others
<1>10. ASSUME NEW i \in Jobs, AttachSession(i) PROVE TypeOK'
  BY <1>10 DEF AttachSession, Goto, procVars, storeVars, busVars, callerVars,
    others
<1>11. ASSUME NEW i \in Jobs, Bootstrap(i) PROVE TypeOK'
  BY <1>11 DEF Bootstrap, Goto, HandlerReturns, Emit, procVars, storeVars,
    callerVars, others
<1>12. ASSUME NEW i \in Jobs, ServeUntilDone(i) PROVE TypeOK'
  BY <1>12 DEF ServeUntilDone, HandlerReturns, ContextEnded, Goto, jobVars,
    procVars, storeVars, busVars, callerVars, others
<1>13. ASSUME NEW i \in Jobs, CloseSession(i) PROVE TypeOK'
  BY <1>13 DEF CloseSession, Goto, HasSession, jobVars, storeVars, busVars,
    callerVars, others
<1>14. ASSUME NEW i \in Jobs, WaitServer(i) PROVE TypeOK'
  BY <1>14 DEF WaitServer, Goto, jobVars, storeVars, busVars, callerVars,
    others
<1>15. ASSUME NEW i \in Jobs, RemoveScratch(i) PROVE TypeOK'
  BY <1>15 DEF RemoveScratch, Goto, jobVars, procVars, storeVars, busVars,
    callerVars, others
<1>16. ASSUME NEW i \in Jobs, Decide(i) PROVE TypeOK'
  BY <1>16 DEF Decide, Goto, Verdict, jobVars, procVars, storeVars, busVars,
    callerVars, others
<1>17. ASSUME NEW i \in Jobs, RecordStatus(i) PROVE TypeOK'
  BY <1>17 DEF RecordStatus, Goto, AfterRecord, procVars, storeVars, busVars,
    callerVars, others, FlowInv, Flow, RecordedPoints
<1>18. ASSUME NEW i \in Jobs, RecordError(i) PROVE TypeOK'
  BY <1>18 DEF RecordError, Goto, procVars, storeVars, busVars, callerVars,
    others
<1>19. ASSUME NEW i \in Jobs, EmitFinal(i) PROVE TypeOK'
  BY <1>19 DEF EmitFinal, Goto, Emit, jobVars, procVars, storeVars,
    callerVars, others, FlowInv, Flow, RecordedPoints
<1>20. ASSUME NEW i \in Jobs, CloseBus(i) PROVE TypeOK'
  BY <1>20 DEF CloseBus, Goto, jobVars, procVars, storeVars, callerVars,
    others
<1>21. ASSUME NEW i \in Jobs, Leave(i) PROVE TypeOK'
  <2>1. slots' \in Nat
    <3>1. ran[i] # "unstarted" => i \in Holders
      BY <1>21 DEF Leave, Goto, Holders, HoldingPoints, FinishPoints
    <3>2. ran[i] # "unstarted" => Cardinality(Holders) > 0
      BY <3>1, HoldersFinite, FS_EmptySet, FS_CardinalityType
    <3> QED BY <1>21, <3>2 DEF Leave, Release, SlotInv
  <2> QED BY <1>21, <2>1 DEF Leave, Goto, EndCtx, jobVars, procVars, storeVars,
    busVars, callerVars, others
<1>22. ASSUME NEW i \in Jobs, TaskProgress(i) PROVE TypeOK'
  BY <1>22 DEF TaskProgress, Emit, runVars, jobVars, procVars, storeVars,
    callerVars, others
<1>23. ASSUME NEW i \in Jobs, Deadline(i) PROVE TypeOK'
  BY <1>23 DEF Deadline, runVars, jobVars, procVars, storeVars, busVars,
    callerVars, others
<1>24. ASSUME NEW i \in Jobs, ServerExit(i) PROVE TypeOK'
  BY <1>24 DEF ServerExit, runVars, jobVars, storeVars, busVars, callerVars,
    others
<1>25. ASSUME NEW i \in Jobs, DescendantExit(i) PROVE TypeOK'
  BY <1>25 DEF DescendantExit, runVars, jobVars, storeVars, busVars,
    callerVars, others
<1>26. ASSUME NEW i \in Jobs, Age(i) PROVE TypeOK'
  BY <1>26 DEF Age, runVars, jobVars, procVars, storeVars,
    busVars, callerVars
<1>27. ASSUME NEW c \in Callers, NEW i \in Jobs, CancelRequest(c, i) PROVE TypeOK'
  BY <1>27 DEF CancelRequest, EndCtx, runVars, jobVars, procVars, storeVars,
    busVars
<1>28. ASSUME NEW c \in Callers, CancelPoll(c) PROVE TypeOK'
  <2>1. polls' \in [Callers -> 0..MaxPolls]
    <3>1. polls[c] > 0 => polls[c] - 1 \in 0..MaxPolls
      BY LimitsAssumption
    <3> QED BY <1>28, <3>1 DEF CancelPoll
  <2>2. answer' \in [Callers -> {"none"} \cup Terminal]
    BY <1>28 DEF CancelPoll
  <2> QED BY <1>28, <2>1, <2>2 DEF CancelPoll, runVars, jobVars, procVars,
    storeVars, busVars
<1>29. ASSUME NEW c \in Callers, CancelGiveUp(c) PROVE TypeOK'
  BY <1>29 DEF CancelGiveUp, runVars, jobVars, procVars, storeVars, busVars
<1>30. CASE Sweep
  BY <1>30 DEF Sweep, Purgeable, Pruned, runVars, jobVars, procVars, busVars,
    callerVars
<1>31. CASE Shutdown
  BY <1>31 DEF Shutdown, EndCtx, runVars, jobVars, procVars, storeVars,
    busVars, callerVars
<1>32. CASE Restart
  BY <1>32, LimitsAssumption DEF Restart, Known, procVars
<1>33. CASE UNCHANGED <<pc, creator, ctx, ran, outcome, status, explained,
  session, proc, kids, slots, stored, linked, scratch, last, closed, old,
  asked, polls, answer, phase>>
  BY <1>33
<1>34. ASSUME NEW i \in Jobs, TaskBlocks(i) PROVE TypeOK'
  BY <1>34 DEF TaskBlocks, Goto, jobVars, procVars,
    storeVars, busVars, callerVars, others
<1>35. ASSUME NEW i \in Jobs, TaskUnblocks(i) PROVE TypeOK'
  BY <1>35 DEF TaskUnblocks, Goto, jobVars, procVars,
    storeVars, busVars, callerVars, others
<1> QED BY <1>1, <1>2, <1>3, <1>4, <1>5, <1>6, <1>7, <1>8, <1>9, <1>10, <1>11,
  <1>12, <1>13, <1>14, <1>15, <1>16, <1>17, <1>18, <1>19, <1>20, <1>21, <1>22,
  <1>23, <1>24, <1>25, <1>26, <1>27, <1>28, <1>29, <1>30, <1>31, <1>32, <1>33,
  <1>34, <1>35 DEF Next, CreateStep, RunStep, Environment, CancelStep, vars, runVars,
  jobVars, procVars, storeVars, busVars, callerVars, others

-----------------------------------------------------------------------------
\* The inductive invariant.
IInv == TypeOK /\ FlowInv /\ CauseInv /\ StoryInv /\ EstateInv /\ ListingInv /\ SlotInv

\* Types hold at first.
LEMMA TypeInit == Init => TypeOK
BY LimitsAssumption DEF Init, TypeOK, ControlPoints, Statuses

\* IInv holds in every reachable state of the manager.
THEOREM Invariance == Spec => []IInv
<1>1. Init => IInv
  BY TypeInit, FlowInit, CauseInit, StoryInit, EstateInit, ListingInit, SlotInit
  DEF IInv
<1>2. IInv /\ [Next]_vars => IInv'
  BY TypeStep, FlowStep, CauseStep, StoryStep, EstateStep, ListingStep, SlotStep
  DEF IInv
<1> QED BY <1>1, <1>2, PTL DEF Spec

\* Every variable keeps its type: in particular no token is ever given back that
\* was not taken.
THEOREM TypesKept == Spec => []TypeOK
BY Invariance, PTL DEF IInv

\* At most MaxConcurrentJobs jobs run, and the tokens in Manager.sem are exactly
\* those of the goroutines that owe one.
THEOREM SlotsAreAccounted == Spec => []SlotsAccounted
<1>1. IInv => SlotsAccounted
  <2> SUFFICES ASSUME IInv, NEW j \in Jobs, status[j] = "running"
               PROVE  j \in Holders
    BY DEF IInv, SlotInv, SlotsAccounted
  <2> QED
    BY DEF IInv, FlowInv, Flow, TypeOK, Holders, HoldingPoints, ControlPoints,
      HandlerPoints, ReturnedPoints, RecordedPoints, FinishPoints, Terminal
<1> QED BY <1>1, Invariance, PTL

\* The final event and the end of the stream tell what the job says.
THEOREM AnnouncementsAreRecorded == Spec => []AnnouncedOutcomeIsRecorded
<1>1. IInv => AnnouncedOutcomeIsRecorded
  BY DEF IInv, FlowInv, Flow, StoryInv, Story, AnnouncedOutcomeIsRecorded,
    RecordedPoints, Terminal
<1> QED BY <1>1, Invariance, PTL

\* A job with an outcome has no server, nor has one whose directory is being removed.
THEOREM NoServerIsLeftBehind == Spec => []NoServerOutlivesItsJob
<1>1. IInv => NoServerOutlivesItsJob
  <2> SUFFICES ASSUME IInv, NEW j \in Jobs,
                      pc[j] = "cleanup" \/ status[j] \in Terminal
               PROVE  proc[j] \in {"none", "reaped"}
    BY DEF NoServerOutlivesItsJob
  <2>1. status[j] \in Terminal => pc[j] \in RecordedPoints
    BY DEF IInv, FlowInv, Flow, TypeOK, ControlPoints, HandlerPoints,
      ReturnedPoints, RecordedPoints, FinishPoints, Terminal
  <2> QED BY <2>1 DEF IInv, EstateInv, Estate, SweptPoints, RecordedPoints
<1> QED BY <1>1, Invariance, PTL

\* The outcome of a job is the one its context and its handler explain.
THEOREM OutcomesAreExplained == Spec => []OutcomeExplained
<1>1. IInv => OutcomeExplained
  <2> SUFFICES ASSUME IInv, NEW j \in Jobs, status[j] \in Terminal
               PROVE  Cause(j) /\ pc[j] \in RecordedPoints /\ status[j] = outcome[j]
    BY DEF OutcomeExplained, Cause, Terminal
  <2> QED
    BY DEF IInv, FlowInv, Flow, CauseInv, TypeOK, ControlPoints, HandlerPoints,
      ReturnedPoints, RecordedPoints, FinishPoints, Terminal
<1> QED BY <1>1, Invariance, PTL

\* The registry drops ended jobs only, and its links lead somewhere.
THEOREM RegistryStaysConsistent == Spec => []RegistryConsistent
<1>1. IInv => RegistryConsistent
  BY DEF IInv, TypeOK, ListingInv, Listing, RegistryConsistent
<1> QED BY <1>1, Invariance, PTL

-----------------------------------------------------------------------------

\* A recorded outcome is changed by no step but the end of the process.
LEMMA OutcomeKept ==
  ASSUME TypeOK, FlowInv, [Next]_vars, NEW j \in Jobs, status[j] \in Terminal
  PROVE  status'[j] \in {status[j], "lost"}
<1>1. pc[j] \in RecordedPoints
  BY DEF TypeOK, FlowInv, Flow, ControlPoints, HandlerPoints, ReturnedPoints,
    RecordedPoints, FinishPoints, Terminal
<1> DEFINE Kept == status'[j] \in {status[j], "lost"}
<1>2. ASSUME NEW i \in Jobs, Put(i) PROVE Kept
  BY <1>1, <1>2 DEF Put, runVars, RecordedPoints, Terminal, TypeOK, FlowInv,
    Flow
<1>3. ASSUME NEW i \in Jobs, StartRunning(i) PROVE Kept
  BY <1>1, <1>3 DEF StartRunning, Goto, RecordedPoints, Terminal, TypeOK,
    FlowInv, Flow
<1>4. ASSUME NEW i \in Jobs, RecordStatus(i) PROVE Kept
  BY <1>1, <1>4 DEF RecordStatus, Goto, AfterRecord, RecordedPoints, Terminal,
    TypeOK, FlowInv, Flow
<1>5. CASE Restart
  BY <1>1, <1>5 DEF Restart, Known, Terminal
<1>6. CASE UNCHANGED status
  BY <1>6
<1> QED BY <1>2, <1>3, <1>4, <1>5, <1>6 DEF Next, CreateStep, RunStep,
  Environment, CancelStep, Spawn, LinkSandbox, AcquireSlot, GiveUpWaiting,
  TaskReturn, TaskBlocks, TaskUnblocks, Prepare, StartServer, AttachSession, Bootstrap, ServeUntilDone,
  CloseSession, WaitServer, RemoveScratch, Decide, RecordError, EmitFinal,
  CloseBus, Leave, TaskProgress, Deadline, ServerExit, DescendantExit, Age,
  CancelRequest, CancelPoll, CancelGiveUp, Sweep, Shutdown, vars, runVars,
  jobVars, procVars, storeVars, busVars, callerVars, others

\* Once a job has an outcome it keeps it until the process ends.
THEOREM OutcomesAreFinal == Spec => OutcomeIsFinal
<1>1. IInv /\ [Next]_vars =>
        [\A j \in Jobs : status[j] \in Terminal => status'[j] \in {status[j], "lost"}]_vars
  BY OutcomeKept DEF IInv
<1> QED BY <1>1, Invariance, PTL DEF Spec, OutcomeIsFinal

-----------------------------------------------------------------------------
(***************************************************************************)
(* Refinement.  Six kinds of step are visible to JobLifecycle; all others    *)
(* leave status, stored and closed alone.                                    *)
(***************************************************************************)

\* A manager's step is a step of the abstract life cycle, or none.
LEMMA LifecycleStep ==
  ASSUME IInv, [Next]_vars
  PROVE  [Lifecycle!Next]_(Lifecycle!lifecycleVars)
<1> USE DEF IInv
<1>1. ASSUME NEW i \in Jobs, Put(i) PROVE Lifecycle!Submit(i)
  BY <1>1 DEF Put, Lifecycle!Submit, busVars
<1>2. ASSUME NEW i \in Jobs, StartRunning(i) PROVE Lifecycle!Start(i)
  <2>1. i \in Holders /\ Lifecycle!Running \subseteq Holders \ {i}
    BY <1>2 DEF StartRunning, Goto, Holders, HoldingPoints, Lifecycle!Running,
      TypeOK, FlowInv, Flow, ControlPoints, HandlerPoints, ReturnedPoints,
      RecordedPoints, FinishPoints, Terminal
  <2>2. /\ IsFiniteSet(Holders \ {i})
        /\ Cardinality(Holders \ {i}) = Cardinality(Holders) - 1
    BY <2>1, HoldersFinite, FS_RemoveElement
  <2>3. Cardinality(Lifecycle!Running) <= Cardinality(Holders) - 1
    BY <2>1, <2>2, FS_Subset
  <2>4. Cardinality(Lifecycle!Running) \in Nat /\ Cardinality(Holders) \in Nat
    BY <2>1, <2>2, HoldersFinite, FS_Subset, FS_CardinalityType
  <2>5. Cardinality(Lifecycle!Running) < MaxConcurrentJobs
    BY <2>3, <2>4, LimitsAssumption DEF SlotInv
  <2>6. status[i] = "queued"
    BY <1>2 DEF StartRunning, Goto, FlowInv, Flow
  <2>7. Lifecycle!Cardinality(Lifecycle!Running) = Cardinality(Lifecycle!Running)
    BY DEF Lifecycle!Cardinality, Cardinality
  <2> QED BY <1>2, <2>5, <2>6, <2>7
    DEF StartRunning, Lifecycle!Start, storeVars, busVars, others
<1>3. ASSUME NEW i \in Jobs, RecordStatus(i) PROVE Lifecycle!End(i)
  <2>1. /\ outcome[i] \in Terminal
        /\ status[i] = IF ran[i] = "unstarted" THEN "queued" ELSE "running"
        /\ status' = [status EXCEPT ![i] = outcome[i]]
        /\ UNCHANGED <<stored, closed>>
    BY <1>3 DEF RecordStatus, Goto, FlowInv, Flow, ReturnedPoints, RecordedPoints,
      FinishPoints, storeVars, busVars, others
  <2>2. ran[i] = "unstarted" => outcome[i] \in {"expired", "cancelled"}
    BY <1>3, <2>1 DEF RecordStatus, Goto, CauseInv, Cause, Terminal
  <2> QED BY <2>1, <2>2 DEF Lifecycle!End, Lifecycle!Terminal, Terminal
<1>4. ASSUME NEW i \in Jobs, CloseBus(i) PROVE Lifecycle!CloseStream(i)
  <2>1. status[i] \in Lifecycle!Terminal
    BY <1>4 DEF CloseBus, Goto, FlowInv, Flow, RecordedPoints, Terminal,
      Lifecycle!Terminal
  <2> QED BY <1>4, <2>1 DEF CloseBus, Lifecycle!CloseStream, jobVars, storeVars,
      others
<1>5. CASE Sweep
  <2>1. Purgeable \in SUBSET Jobs /\ \A j \in Purgeable : status[j] \in Lifecycle!Terminal
    BY DEF Purgeable, TypeOK, Terminal, Lifecycle!Terminal
  <2>2. Lifecycle!Purge(Purgeable)
    BY <1>5, <2>1 DEF Sweep, Lifecycle!Purge, jobVars, busVars
  <2> QED BY <2>1, <2>2 DEF Lifecycle!Next
<1>6. CASE Restart
  <2>1. Lifecycle!Lose
    BY <1>6 DEF Restart, Known, Lifecycle!Lose
  <2> QED BY <2>1 DEF Lifecycle!Next
<1>7. CASE UNCHANGED <<status, stored, closed>>
  BY <1>7 DEF Lifecycle!lifecycleVars
<1> QED BY <1>1, <1>2, <1>3, <1>4, <1>5, <1>6, <1>7 DEF Lifecycle!Next, Next,
  CreateStep, RunStep, Environment, CancelStep, Spawn, LinkSandbox,
  AcquireSlot, GiveUpWaiting, TaskReturn, TaskBlocks, TaskUnblocks, Prepare, StartServer, AttachSession,
  Bootstrap, ServeUntilDone, CloseSession, WaitServer, RemoveScratch, Decide,
  RecordError, EmitFinal, Leave, TaskProgress, Deadline, ServerExit,
  DescendantExit, Age, CancelRequest, CancelPoll, CancelGiveUp, Shutdown,
  vars, runVars, jobVars, procVars, storeVars, busVars, callerVars, others

\* The manager, with its goroutines, slots, servers and crashes, does nothing
\* that the abstract life cycle does not allow.
THEOREM Implementation == Spec => ImplementsLifecycle
<1>1. Init => Lifecycle!Init
  BY DEF Init, Lifecycle!Init
<1>2. IInv /\ [Next]_vars => [Lifecycle!Next]_(Lifecycle!lifecycleVars)
  BY LifecycleStep
<1> QED BY <1>1, <1>2, Invariance, PTL DEF Spec, ImplementsLifecycle, Lifecycle!Spec

=============================================================================
