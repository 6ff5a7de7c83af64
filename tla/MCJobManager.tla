---------------------------- MODULE MCJobManager ----------------------------
(***************************************************************************)
(* Instances of JobManager for TLC: a task and a sandbox compete for one    *)
(* slot while one DELETE request arrives.                                   *)
(***************************************************************************)
EXTENDS JobManager, TLC

CONSTANTS task, sandbox

MCJobs    == {task, sandbox}
MCMcpJobs == {sandbox}
MCInstalls == {task}
NoInstalls == {}
=============================================================================
