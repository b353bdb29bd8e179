---------------------------- MODULE JobAdmission ----------------------------
(***************************************************************************)
(* selectNextJob (packages/scheduler/src/scheduler.ts): which job a worker *)
(* admits next from the jobs it may claim, and how the worker's fairness   *)
(* counters move.  A job is a natural number, so that comparing numbers    *)
(* stands for comparing job IDs.                                           *)
(***************************************************************************)
EXTENDS Integers

CONSTANTS
  Jobs,
  Priority,              \* the class of each job
  Essential,             \* the jobs whose type is in essentialP1Types
  Deadline,              \* the deadline of each job; later than any clock for none
  MaxConsecutiveP0,      \* P0 selections before an essential P1 job goes first
  MaxConsecutiveNonP2,   \* P0 and P1 selections before an aged P2 job goes first
  P2Aging                \* how long a P2 job waits before it counts as aged

Classes == {"P0", "P1", "P2"}

ASSUME AdmissionAssumption ==
  /\ Jobs \subseteq Nat
  /\ Priority \in [Jobs -> Classes]
  /\ Essential \subseteq Jobs
  /\ Deadline \in [Jobs -> Nat]
  /\ MaxConsecutiveP0 \in Nat \ {0} /\ MaxConsecutiveNonP2 \in Nat \ {0}
  /\ P2Aging \in Nat

OfClass(jobs, class) == {j \in jobs : Priority[j] = class}

\* compareJobs: by deadline, then by eligibility, then by job ID.
Before(i, j, eligibleAt) ==
  \/ Deadline[i] < Deadline[j]
  \/ Deadline[i] = Deadline[j] /\ \/ eligibleAt[i] < eligibleAt[j]
                                  \/ eligibleAt[i] = eligibleAt[j] /\ i < j

\* j is at the head of jobs sorted with compareJobs.
Heads(j, jobs, eligibleAt) ==
  j \in jobs /\ \A k \in jobs \ {j} : Before(j, k, eligibleAt)

-----------------------------------------------------------------------------
(* The fairness counters of a worker.                                      *)

Smaller(a, b) == IF a <= b THEN a ELSE b

Counters == [consecutiveP0 : 0 .. MaxConsecutiveP0, consecutiveNonP2 : 0 .. MaxConsecutiveNonP2]

InitialFairness == [consecutiveP0 |-> 0, consecutiveNonP2 |-> 0]

\* Mutant: serving a P2 job does not reset the count of jobs that are not P2.
NextFairnessNonP2Kept(class, fairness) ==
  [consecutiveP0    |-> IF class = "P0"
                        THEN Smaller(fairness.consecutiveP0 + 1, MaxConsecutiveP0) ELSE 0,
   consecutiveNonP2 |-> Smaller(fairness.consecutiveNonP2 + 1, MaxConsecutiveNonP2)]

\* The counters are only compared with their limits, so the model counts no further.
NextFairness(class, fairness) ==
  [consecutiveP0    |-> IF class = "P0"
                        THEN Smaller(fairness.consecutiveP0 + 1, MaxConsecutiveP0) ELSE 0,
   consecutiveNonP2 |-> IF class = "P2" THEN 0
                        ELSE Smaller(fairness.consecutiveNonP2 + 1, MaxConsecutiveNonP2)]

\* The turn of an essential P1 job, and of an aged P2 job.
EssentialTurn(fairness) == fairness.consecutiveP0 >= MaxConsecutiveP0
AgedTurn(fairness)      == fairness.consecutiveNonP2 >= MaxConsecutiveNonP2

\* Mutant: the turn of an aged P2 job never comes while P1 jobs wait.
FavouredUnaged(candidates, eligibleAt, now, fairness) ==
  LET p0        == OfClass(candidates, "P0")
      p1        == OfClass(candidates, "P1")
      essential == p1 \cap Essential
  IN  IF p0 # {}
      THEN IF EssentialTurn(fairness) /\ essential # {} THEN essential ELSE p0
      ELSE IF p1 # {} THEN p1 ELSE OfClass(candidates, "P2")

(***************************************************************************)
(* The candidates among which the head is selected.  A waiting P0 job      *)
(* yields to an essential P1 job only; aged P2 jobs go before P1 only when *)
(* no P0 job waits.                                                        *)
(***************************************************************************)
Favoured(candidates, eligibleAt, now, fairness) ==
  LET p0        == OfClass(candidates, "P0")
      p1        == OfClass(candidates, "P1")
      p2        == OfClass(candidates, "P2")
      essential == p1 \cap Essential
      aged      == {j \in p2 : now - eligibleAt[j] >= P2Aging}
  IN  IF p0 # {}
      THEN IF EssentialTurn(fairness) /\ essential # {} THEN essential ELSE p0
      ELSE IF AgedTurn(fairness) /\ aged # {} THEN aged
      ELSE IF p1 # {} THEN p1 ELSE p2

Selects(j, candidates, eligibleAt, now, fairness) ==
  Heads(j, Favoured(candidates, eligibleAt, now, fairness), eligibleAt)
=============================================================================
