-------------------------- MODULE AdmissionFairness --------------------------
(***************************************************************************)
(* One worker's admissions under an endless stream of work: jobs of each   *)
(* class arrive again as soon as they were served, and the worker admits   *)
(* one at a time with selectNextJob.  Leases, retries and other workers    *)
(* are in LeaseScheduler; here the question is who is kept waiting.        *)
(*                                                                         *)
(* Jobs of a class have different deadlines, so eligibility matters to the *)
(* aging of P2 jobs only.  Time is relative: `waited` is how long a P2 job *)
(* has been eligible, counted up to the aging threshold.                   *)
(***************************************************************************)
EXTENDS JobAdmission

ASSUME DistinctDeadlines ==
  \A i, j \in Jobs : i # j /\ Priority[i] = Priority[j] => Deadline[i] # Deadline[j]

\* An aged P2 job cannot be due again before an essential P1 job's turn has come.
ASSUME LimitsOrdered == MaxConsecutiveP0 < MaxConsecutiveNonP2

VARIABLES
  waiting,     \* jobs that are pending and eligible
  waited,      \* how long each P2 job has been eligible, capped at P2Aging
  fairness,    \* the worker's counters
  passedOver   \* admissions of other jobs while a reserved job waits

admissionVars == <<waiting, waited, fairness, passedOver>>

\* Essential P1 jobs that no other P1 job precedes.
Reserved ==
  {j \in OfClass(Jobs, "P1") \cap Essential :
     \A k \in OfClass(Jobs, "P1") \ {j} : Deadline[j] < Deadline[k]}

WaitBound == 2 * MaxConsecutiveP0 + 1
CountCap  == WaitBound + 1      \* the model counts no further

AdmissionTypeOK ==
  /\ waiting \subseteq Jobs
  /\ waited \in [Jobs -> 0 .. P2Aging]
  /\ fairness \in Counters
  /\ passedOver \in [Reserved -> 0 .. CountCap]

AdmissionInit ==
  /\ waiting = {}
  /\ waited = [j \in Jobs |-> 0]
  /\ fairness = InitialFairness
  /\ passedOver = [j \in Reserved |-> 0]

\* A job arrives, or arrives again after it was served.
Arrive(j) ==
  /\ j \notin waiting
  /\ waiting' = waiting \cup {j}
  /\ UNCHANGED <<waited, fairness, passedOver>>

Age(j) ==
  /\ j \in OfClass(waiting, "P2")
  /\ waited[j] < P2Aging
  /\ waited' = [waited EXCEPT ![j] = @ + 1]
  /\ UNCHANGED <<waiting, fairness, passedOver>>

Admit(j) ==
  /\ Selects(j, waiting, [k \in Jobs |-> -waited[k]], 0, fairness)
  /\ waiting' = waiting \ {j}
  /\ waited' = [waited EXCEPT ![j] = 0]
  /\ fairness' = NextFairness(Priority[j], fairness)
  /\ passedOver' = [k \in Reserved |-> IF k \in waiting \ {j}
                                       THEN Smaller(passedOver[k] + 1, CountCap)
                                       ELSE 0]

AdmissionNext == \E j \in Jobs : Arrive(j) \/ Age(j) \/ Admit(j)

AdmissionSpec == AdmissionInit /\ [][AdmissionNext]_admissionVars

(***************************************************************************)
(* The worker's loop never stops while jobs wait, and time passes.         *)
(* Arrivals are not fair: nothing obliges new work to come.                *)
(***************************************************************************)
AdmissionProgress == /\ WF_admissionVars(\E j \in Jobs : Admit(j))
                     /\ \A j \in Jobs : WF_admissionVars(Age(j))

FairAdmissionSpec == AdmissionSpec /\ AdmissionProgress

-----------------------------------------------------------------------------
(***************************************************************************)
(* The periodic capacity reserved for essential P1 work (docs 05, Fairness *)
(* and backpressure): however many P0 jobs keep coming, an essential P1    *)
(* job that heads its class is passed over at most 2 * MaxConsecutiveP0    *)
(* times for P0 jobs and once for an aged P2 job, which resets the         *)
(* counters.                                                               *)
(***************************************************************************)
ReservedCapacity == \A j \in Reserved : passedOver[j] <= WaitBound

Served(j) == j \in waiting ~> j \notin waiting

(***************************************************************************)
(* P2 work ages into service once P0 demand stops, though P1 jobs keep     *)
(* arriving: the nonP2 counter brings the turn of an aged P2 job.          *)
(***************************************************************************)
AgedWorkIsServed ==
  <>[](OfClass(waiting, "P0") = {}) => \A j \in OfClass(Jobs, "P2") : Served(j)
=============================================================================
