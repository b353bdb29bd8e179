------------------------------ MODULE JobLeases ------------------------------
(***************************************************************************)
(* What the scheduler promises those who enqueue and run jobs, without     *)
(* clocks, revisions or compare-and-swaps: a job is granted to a worker,   *)
(* may be granted again, and only its latest grant can release it.         *)
(* LeaseScheduler is the program that implements it; ActionJobs uses it.   *)
(***************************************************************************)
EXTENDS Integers

CONSTANTS Jobs, Workers

VARIABLES
  stage,         \* the state of each job, "absent" before it is enqueued
  grants,        \* how many times each job was granted
  claims         \* what each worker holds: {} or one job with its grant number

vars == <<stage, grants, claims>>

Waiting  == {"pending", "waiting_for_retry"}
Terminal == {"completed", "failed", "canceled"}
Stages   == {"absent", "running", "waiting_for_approval"} \cup Waiting \cup Terminal
Releases == {"completed", "waiting_for_approval", "waiting_for_retry", "failed", "canceled"}

Unended(j) == stage[j] \notin Terminal \cup {"absent"}

\* A worker's grant is active while its job runs and was not granted again.
Active(w) == \E c \in claims[w] : stage[c.job] = "running" /\ grants[c.job] = c.grant

TypeOK == /\ stage \in [Jobs -> Stages]
          /\ grants \in [Jobs -> Nat]
          /\ \A w \in Workers : \A c \in claims[w] : c.job \in Jobs /\ c.grant \in Nat

Init == /\ stage = [j \in Jobs |-> "absent"]
        /\ grants = [j \in Jobs |-> 0]
        /\ claims = [w \in Workers |-> {}]

Enqueue(j) == /\ stage[j] = "absent"
              /\ stage' = [stage EXCEPT ![j] = "pending"]
              /\ UNCHANGED <<grants, claims>>

\* Cancellation, or the deadline: neither waits for the worker.
End(j, final) == /\ Unended(j)
                 /\ stage' = [stage EXCEPT ![j] = final]
                 /\ UNCHANGED <<grants, claims>>

\* A job that runs may be granted again: its lease has expired.
Claim(w, j) ==
  /\ claims[w] = {}
  /\ stage[j] \in Waiting \cup {"running"}
  /\ stage' = [stage EXCEPT ![j] = "running"]
  /\ grants' = [grants EXCEPT ![j] = @ + 1]
  /\ claims' = [claims EXCEPT ![w] = {[job |-> j, grant |-> grants[j] + 1]}]

\* A worker that did not learn of its own release keeps its claim.
Release(w, next, keeps) ==
  /\ Active(w)
  /\ \E c \in claims[w] : stage' = [stage EXCEPT ![c.job] = next]
  /\ claims' = IF keeps THEN claims ELSE [claims EXCEPT ![w] = {}]
  /\ UNCHANGED grants

\* A worker was fenced, failed or died.
Drop(w) == /\ claims' = [claims EXCEPT ![w] = {}]
           /\ UNCHANGED <<stage, grants>>

Next ==
  \/ \E j \in Jobs : Enqueue(j) \/ \E final \in {"failed", "canceled"} : End(j, final)
  \/ \E w \in Workers :
       \/ \E j \in Jobs : Claim(w, j)
       \/ \E next \in Releases, keeps \in BOOLEAN : Release(w, next, keeps)
       \/ Drop(w)

Spec == Init /\ [][Next]_vars
=============================================================================
