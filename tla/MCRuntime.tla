----------------------------- MODULE MCRuntime -----------------------------
(***************************************************************************)
(* Instances for TLC of three components of the runtime that share nothing   *)
(* with one another: a job's event bus with two clients, which differ in     *)
(* when they come and how fast they read; model attachment; the lines of an  *)
(* installation.  In a behaviour only one of them moves (part), so TLC adds  *)
(* their states instead of multiplying them.                                 *)
(***************************************************************************)
EXTENDS EventBus, ModelAttach, LineStream

CONSTANTS a1, a2

MCAttaches == {a1, a2}

VARIABLE part

runtimeVars == <<part, vars, attachVars, streamVars>>

RuntimeInit ==
  /\ part \in {"bus", "attach", "stream"}
  /\ Init /\ AttachInit /\ StreamInit

\* Attaches are interchangeable, so it is enough to look at those that are asked for in
\* this order.
InTurn == asking[a2] # "idle" => asking[a1] # "idle"

RuntimeNext ==
  \/ part = "bus" /\ Next /\ UNCHANGED <<part, attachVars, streamVars>>
  \/ part = "attach" /\ AttachNext /\ InTurn' /\ UNCHANGED <<part, vars, streamVars>>
  \/ part = "stream" /\ StreamNext /\ UNCHANGED <<part, vars, attachVars>>

\* Where another part moves, nothing that a part is fair to is ever enabled.
RuntimeSpec ==
  /\ RuntimeInit /\ [][RuntimeNext]_runtimeVars
  /\ BusFairness /\ AttachFairness /\ StreamFairness
=============================================================================
