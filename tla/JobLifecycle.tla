---------------------------- MODULE JobLifecycle ----------------------------
(***************************************************************************)
(* What the job manager (internal/jobs) promises to an API client, without  *)
(* goroutines, slots, contexts or servers: a job is listed, runs among at   *)
(* most MaxConcurrentJobs others, ends once, is announced once, and may     *)
(* disappear from the registry only after it has ended.  JobManager is the  *)
(* detailed specification that implements this one.                         *)
(***************************************************************************)
EXTENDS Naturals, FiniteSets

CONSTANTS
  Jobs,               \* the job ids newID may draw; an id is never drawn twice
  MaxConcurrentJobs   \* cfg.MaxConcurrentJobs

VARIABLES
  status,   \* what GET /v1/jobs/{id} reports; "none" before the job exists,
            \* "lost" once the process that knew it is gone
  stored,   \* the jobs the registry lists
  closed    \* the jobs whose event stream has ended

lifecycleVars == <<status, stored, closed>>

Terminal == {"complete", "error", "expired", "cancelled"}
Running  == {j \in Jobs : status[j] = "running"}

Init ==
  /\ status = [j \in Jobs |-> "none"]
  /\ stored = {}
  /\ closed = {}

Submit(j) ==
  /\ status[j] = "none"
  /\ status' = [status EXCEPT ![j] = "queued"]
  /\ stored' = stored \cup {j}
  /\ UNCHANGED closed

\* A job starts only while fewer than the configured number are running.
Start(j) ==
  /\ status[j] = "queued"
  /\ Cardinality(Running) < MaxConcurrentJobs
  /\ status' = [status EXCEPT ![j] = "running"]
  /\ UNCHANGED <<stored, closed>>

\* A job that never started can only have run out of time or been cancelled.
End(j) ==
  /\ \/ /\ status[j] = "queued"
        /\ \E s \in {"expired", "cancelled"} : status' = [status EXCEPT ![j] = s]
     \/ /\ status[j] = "running"
        /\ \E s \in Terminal : status' = [status EXCEPT ![j] = s]
  /\ UNCHANGED <<stored, closed>>

\* The stream ends after the outcome is on record, never before.
CloseStream(j) ==
  /\ status[j] \in Terminal
  /\ closed' = closed \cup {j}
  /\ UNCHANGED <<status, stored>>

\* Retention drops ended jobs only.
Purge(S) ==
  /\ \A j \in S : status[j] \in Terminal
  /\ stored' = stored \ S
  /\ UNCHANGED <<status, closed>>

\* The registry is in memory: it is gone with its process.
Lose ==
  /\ status' = [j \in Jobs |-> IF status[j] = "none" THEN "none" ELSE "lost"]
  /\ stored' = {}
  /\ closed' = {}

Next ==
  \/ \E j \in Jobs : Submit(j) \/ Start(j) \/ End(j) \/ CloseStream(j)
  \/ \E S \in SUBSET Jobs : Purge(S)
  \/ Lose

Spec == Init /\ [][Next]_lifecycleVars
=============================================================================
