-------------------------- MODULE MCActionExecutor --------------------------
(***************************************************************************)
(* Two executors over one intent; and, in behaviours of their own, the     *)
(* admissions of a worker with one recurring job of each kind: P0,         *)
(* essential P1, ordinary P1 and P2.  The two share no state, and the part *)
(* that a behaviour is not about stays where it starts, where nothing of   *)
(* it is enabled that fairness could ask for.                              *)
(***************************************************************************)
EXTENDS ActionExecutor, AdmissionFairness, TLC

MCJobs      == 1 .. 4
MCPriority  == 1 :> "P0" @@ 2 :> "P1" @@ 3 :> "P1" @@ 4 :> "P2"
MCEssential == {2}
MCDeadline  == 1 :> 9 @@ 2 :> 5 @@ 3 :> 9 @@ 4 :> 9

VARIABLE part             \* what a behaviour is about

mcvars == <<vars, admissionVars, part>>

MCInit == Init /\ AdmissionInit /\ part \in {"executor", "admission"}

MCNext == /\ \/ part = "executor" /\ Next /\ UNCHANGED admissionVars
             \/ part = "admission" /\ AdmissionNext /\ UNCHANGED vars
          /\ UNCHANGED part

MCSpec == MCInit /\ [][MCNext]_mcvars /\ Fairness /\ AdmissionProgress
=============================================================================
