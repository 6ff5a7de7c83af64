---------------------------- MODULE ModelAttach ----------------------------
(***************************************************************************)
(* Attaching a model profile to runtimes: handleAttachProfile of             *)
(* api/handlers_models.go writes the installation's row and submits a        *)
(* model.attach job, handleModelAttach of internal/jobs moves the row along. *)
(* The job is one of JobLifecycle's; the rows belong to the database, so     *)
(* they outlive it.  Requests, handlers and the manager interleave; no        *)
(* statement's error is looked at once the row exists.                       *)
(***************************************************************************)
EXTENDS Naturals, FiniteSets

CONSTANTS
  Attaches,           \* POST .../attach requests for one profile: each has one row, one job
  MaxConcurrentJobs,
  Percents,           \* what the download may report, 100 included
  MaxMissed           \* bound: statements that fail

ASSUME AttachAssumption ==
  /\ MaxConcurrentJobs \in Nat \ {0}
  /\ Percents \subseteq 2..100
  /\ 100 \in Percents
  /\ Attaches \cap {"absent", "empty", "torn"} = {}

VARIABLES
  jobStatus, \* what JobLifecycle says of each job
  asking,    \* where each request's handler is
  over,      \* how each job's context has ended, "no" while it has not
  point,     \* where each job's handler is
  pct,       \* the handler's own count of the download
  failed,    \* the jobs whose handler returned an error
  row,       \* status and progress of each row of model_runtime_installations
  profile,   \* model_profiles.status
  served,    \* the profile's one file in the cache: the attach it is about, or what is wrong with it
  reused,    \* the attaches since whose opening of the file another one has touched it
  missed     \* the attaches of which a statement failed

attachJobVars == <<point, pct, failed>>
tableVars   == <<row, profile, missed>>
fileVars    == <<served, reused>>
attachVars  == <<jobStatus, asking, over, attachJobVars, tableVars, fileVars>>

\* No job is purged while its rows are written, and its stream is another module's.
Life == INSTANCE JobLifecycle WITH
          Jobs <- Attaches,
          status <- jobStatus,
          stored <- {a \in Attaches : jobStatus[a] \notin {"none", "lost"}},
          closed <- {}

Ended == Life!Terminal \cup {"lost"}

RowStatuses == {"none", "queued", "checking", "downloading", "attached", "ready"}
Row(status, progress) == [status |-> status, progress |-> progress]

AttachTypeOK ==
  /\ jobStatus \in [Attaches -> {"none", "queued", "running"} \cup Ended]
  /\ asking \in [Attaches -> {"idle", "queueing", "submitting", "linking", "answered"}]
  /\ over \in [Attaches -> {"no", "expired", "cancelled"}]
  /\ point \in [Attaches -> {"idle", "runtime", "disk", "begin", "loop", "profile",
                            "write", "attach", "ready", "publish", "returned"}]
  /\ pct \in [Attaches -> 0..100]
  /\ failed \subseteq Attaches
  /\ row \in [Attaches -> [status : RowStatuses, progress : 0..100]]
  /\ profile \in {"profile_only", "queued", "ready"}
  /\ served \in {"absent", "empty", "torn"} \cup Attaches
  /\ reused \subseteq Attaches
  /\ missed \subseteq Attaches

AttachInit ==
  /\ Life!Init
  /\ asking = [a \in Attaches |-> "idle"]
  /\ over = [a \in Attaches |-> "no"]
  /\ point = [a \in Attaches |-> "idle"]
  /\ pct = [a \in Attaches |-> 0]
  /\ failed = {}
  /\ row = [a \in Attaches |-> Row("none", 0)]
  /\ profile = "profile_only"
  /\ served = "absent"
  /\ reused = {}
  /\ missed = {}

\* A statement of attach a: it does what write says, or fails unnoticed.
Statement(a, write) ==
  \/ write /\ UNCHANGED missed
  \/ /\ Cardinality(missed) < MaxMissed
     /\ missed' = missed \cup {a}
     /\ UNCHANGED <<row, profile>>

Update(a, status, progress) ==
  Statement(a, row' = [row EXCEPT ![a] = Row(status, progress)] /\ UNCHANGED profile)

SetProfile(a, status) == Statement(a, profile' = status /\ UNCHANGED row)

-----------------------------------------------------------------------------
(* handleAttachProfile *)

\* The order of its statements.
OrderSwapped == [idle |-> "submitting", submitting |-> "queueing",
                 queueing |-> "linking", linking |-> "answered"]   \* fault: submits first
Order == [idle |-> "queueing", queueing |-> "submitting",
          submitting |-> "linking", linking |-> "answered"]

Goes(a, stage) == asking[a] = stage /\ asking' = [asking EXCEPT ![a] = Order[stage]]

\* A failure here is answered before anything exists.
InsertRow(a) ==
  /\ Goes(a, "idle")
  /\ row' = [row EXCEPT ![a] = Row("queued", 0)]
  /\ UNCHANGED <<jobStatus, over, attachJobVars, profile, missed, fileVars>>

QueueProfile(a) ==
  /\ Goes(a, "queueing")
  /\ SetProfile(a, "queued")
  /\ UNCHANGED <<jobStatus, over, attachJobVars, fileVars>>

SubmitJob(a) ==
  /\ Goes(a, "submitting")
  /\ Life!Submit(a)
  /\ UNCHANGED <<over, attachJobVars, tableVars, fileVars>>

\* Create fails (the configured limit is below the 180 s asked for) or the process stops.
AbandonRequest(a) ==
  /\ asking[a] \in {"queueing", "submitting"}
  /\ asking' = [asking EXCEPT ![a] = "answered"]
  /\ UNCHANGED <<jobStatus, over, attachJobVars, tableVars, fileVars>>

\* The job may be anywhere by now; the statement writes job_id, which the listing alone
\* reads, and no other column.
LinkRewrites(a) ==                            \* fault: stores the row it inserted again
  row' = [row EXCEPT ![a] = Row("queued", 0)]
LinkLeaves(a) == UNCHANGED row

LinkJob(a) ==
  /\ Goes(a, "linking")
  /\ Statement(a, LinkLeaves(a) /\ UNCHANGED profile)
  /\ UNCHANGED <<jobStatus, over, attachJobVars, fileVars>>

-----------------------------------------------------------------------------
(* handleModelAttach *)

\* A step taken after a wait found the context alive.  It may have ended since, which
\* the step does not see: that is the same as if it ended after the step.
At(a, here, next) ==
  /\ point[a] = here
  /\ point' = [point EXCEPT ![a] = next]
  /\ UNCHANGED <<jobStatus, asking, over>>

Waited(a, here, next) == over[a] = "no" /\ At(a, here, next)

CheckRuntime(a) ==
  /\ At(a, "runtime", "disk")
  /\ Update(a, "checking", 1)
  /\ UNCHANGED <<pct, failed, fileVars>>

\* sleepCtx returns false, and the handler without an error.
WaitCutShort(a) ==
  /\ over[a] # "no"
  /\ \E here \in {"disk", "begin", "loop", "profile", "attach"} : At(a, here, "returned")
  /\ UNCHANGED <<pct, failed, tableVars, fileVars>>

AfterFailureGoesOn == "attach"                \* fault: logged, and on it goes
AfterFailure       == "returned"

\* A failure of the file system, in a step that leads on from here.
Fails(a, step) == step /\ failed' = failed \cup {a} /\ UNCHANGED <<pct, tableVars>>

\* The data directory is not writable.
DiskCheckFails(a) == Fails(a, Waited(a, "disk", AfterFailure)) /\ UNCHANGED fileVars

\* The checks that follow, and the metadata, change nothing whatever they find.
CheckDisk(a) ==
  /\ Waited(a, "disk", "begin")
  /\ UNCHANGED <<pct, failed, tableVars, fileVars>>

BeginDownload(a) ==
  /\ Waited(a, "begin", "loop")
  /\ pct' = [pct EXCEPT ![a] = 6]
  /\ Update(a, "downloading", 0)
  /\ UNCHANGED <<failed, fileVars>>

FurtherShort(n) == {m \in Percents : m > n /\ m < 100}   \* fault: never gets to 100
Further(n)      == {m \in Percents : m > n}

Download(a) ==
  \E n \in Further(pct[a]) :
    /\ Waited(a, "loop", IF n = 100 THEN "profile" ELSE "loop")
    /\ pct' = [pct EXCEPT ![a] = n]
    /\ Update(a, "downloading", n)
    /\ UNCHANGED <<failed, fileVars>>

\* The directory of the serving profiles, or the file, does not open.
OpenFails(a) == Fails(a, Waited(a, "profile", AfterFailure)) /\ UNCHANGED fileVars

\* os.WriteFile empties the file, which all attaches of the profile write, and then writes
\* it; no other process or attach is kept out.
OpenServingProfile(a) ==
  /\ Waited(a, "profile", "write")
  /\ served' = "empty"
  /\ reused' = Attaches \ {a}
  /\ UNCHANGED <<pct, failed, tableVars>>

Touch(a) == reused' = reused \cup (Attaches \ {a})

\* What another attach has written meanwhile may be longer, and its end is left.
WriteServingProfile(a) ==
  /\ At(a, "write", "attach")
  /\ served' \in IF served = "empty" THEN {a} ELSE {a, "torn"}
  /\ Touch(a)
  /\ UNCHANGED <<pct, failed, tableVars>>

\* Say, no space is left: some of it is written, or nothing.
WriteFails(a) ==
  /\ Fails(a, At(a, "write", AfterFailure))
  /\ served' \in {served, "torn"}
  /\ Touch(a)

MarkAttached(a) ==
  /\ Waited(a, "attach", "ready")
  /\ Update(a, "attached", 100)
  /\ UNCHANGED <<pct, failed, fileVars>>

\* From here on nothing waits.
MarkReady(a) ==
  /\ At(a, "ready", "publish")
  /\ Update(a, "ready", 100)
  /\ UNCHANGED <<pct, failed, fileVars>>

PublishProfile(a) ==
  /\ At(a, "publish", "returned")
  /\ SetProfile(a, "ready")
  /\ UNCHANGED <<pct, failed, fileVars>>

-----------------------------------------------------------------------------
(* The manager, the process *)

StartJob(a) ==
  /\ Life!Start(a)
  /\ point' = [point EXCEPT ![a] = "runtime"]
  /\ UNCHANGED <<asking, over, pct, failed, tableVars, fileVars>>

\* The deadline of 180 s, a cancel request or a shutdown.
EndContext(a) ==
  /\ jobStatus[a] \in {"queued", "running"} /\ over[a] = "no"
  /\ \E how \in {"expired", "cancelled"} : over' = [over EXCEPT ![a] = how]
  /\ UNCHANGED <<jobStatus, asking, attachJobVars, tableVars, fileVars>>

OutcomeOfError(a) == IF a \in failed THEN "error" ELSE "complete"   \* fault: not the context
Outcome(a) == CASE over[a] # "no" -> over[a]
                [] over[a] = "no" /\ a \in failed -> "error"
                [] OTHER -> "complete"

FinishJob(a) ==
  /\ point[a] = "returned" \/ (jobStatus[a] = "queued" /\ over[a] # "no")
  /\ Life!End(a)
  /\ jobStatus'[a] = Outcome(a)
  /\ UNCHANGED <<asking, over, attachJobVars, tableVars, fileVars>>

\* The process stops and another starts: the rows are what they were, and nobody's.
Crash ==
  /\ Life!Lose
  /\ asking' = [a \in Attaches |-> IF asking[a] = "idle" THEN "idle" ELSE "answered"]
  /\ over' = [a \in Attaches |-> "no"]
  /\ point' = [a \in Attaches |-> "idle"]
  /\ pct' = [a \in Attaches |-> 0]
  /\ failed' = {}
  /\ UNCHANGED <<tableVars, fileVars>>

RequestStep(a) ==
  InsertRow(a) \/ QueueProfile(a) \/ SubmitJob(a) \/ AbandonRequest(a) \/ LinkJob(a)

AttachStep(a) ==
  \/ CheckRuntime(a)   \/ WaitCutShort(a)         \/ DiskCheckFails(a)       \/ CheckDisk(a)
  \/ BeginDownload(a)  \/ Download(a)
  \/ OpenFails(a)      \/ OpenServingProfile(a)   \/ WriteServingProfile(a)  \/ WriteFails(a)
  \/ MarkAttached(a)   \/ MarkReady(a)            \/ PublishProfile(a)

ManagerStep(a) == StartJob(a) \/ FinishJob(a)

AttachNext ==
  \/ \E a \in Attaches : RequestStep(a) \/ AttachStep(a) \/ ManagerStep(a) \/ EndContext(a)
  \/ Crash

AttachSpec == AttachInit /\ [][AttachNext]_attachVars

\* A job is one goroutine: it waits for a slot, runs the handler and finishes, and goes on
\* where it can.  Nothing makes a request come or a context end.
AttachFairness == \A a \in Attaches : WF_attachVars(AttachStep(a) \/ ManagerStep(a))

-----------------------------------------------------------------------------
(* Properties *)

Position(r) ==
  CASE r.status = "none"        -> 0
    [] r.status = "queued"      -> 1
    [] r.status = "checking"    -> 2
    [] r.status = "downloading" -> 3 + r.progress
    [] r.status = "attached"    -> 104
    [] r.status = "ready"       -> 105

\* A row never goes back, although the request writes it (SetInstallationJob) while the
\* job does (UpdateInstallation), and whichever of the statements fail.
RowsOnlyAdvance == [][\A a \in Attaches : Position(row'[a]) >= Position(row[a])]_row

\* When a row says attached or ready its serving profile is written, and the file tells of
\* this attach as long as no other attach of the profile opens or writes it.  After that it
\* may be anything but gone: of the other attach, empty, or torn.
AttachedMeansServed ==
  \A a \in Attaches : row[a].status \in {"attached", "ready"} =>
    served = a \/ (a \in reused /\ served # "absent")

\* A handler that was cut short returns nil as one that came to its end does; the manager
\* tells them apart: a job is complete only if its row is ready, or a statement failed.
CompleteMeansReady ==
  \A a \in Attaches : jobStatus[a] = "complete" => row[a].status = "ready" \/ a \in missed

Quiet ==
  \A a \in Attaches : /\ asking[a] \in {"idle", "answered"}
                      /\ jobStatus[a] \in {"none"} \cup Ended

\* The profile is queued by the request and made ready by the job, of each of several
\* attaches: it stays queued only if one of them was refused, lost, failed or cut short.
QueuedProfileExplained ==
  Quiet /\ profile = "queued" =>
    \E a \in Attaches : asking[a] = "answered" /\ (jobStatus[a] # "complete" \/ a \in missed)

\* Every attach that is submitted ends, without help from a deadline: in the end none is
\* queued or runs.
AttachesEnd == <>[](\A a \in Attaches : jobStatus[a] \in {"none"} \cup Ended)
=============================================================================
