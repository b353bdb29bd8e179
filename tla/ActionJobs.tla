----------------------------- MODULE ActionJobs -----------------------------
(***************************************************************************)
(* How actionable intents become jobs and how those jobs deliver them:     *)
(* enqueueActionableIntents and createActionJobHandler                     *)
(* (apps/api/src/execution/job-handler.ts) in the loop of an executor      *)
(* process (worker.ts).                                                    *)
(*                                                                         *)
(* The module composes ActionExecutor, the delivery of one intent, with    *)
(* JobLeases, what LeaseScheduler promises about jobs.  A process scans    *)
(* the oldest actionable intents, enqueues a job for each that no job      *)
(* covers, claims a job, attempts its intent and releases the job by the   *)
(* outcome.  Leases that run out, deadlines, crashes and failed calls are  *)
(* faults, and bounded.                                                    *)
(***************************************************************************)
EXTENDS Integers, FiniteSets

CONSTANTS
  Intents, Executors, MaxFaults,   \* as in ActionExecutor; an executor is a process
  CreatedAt,      \* the order in which intents were created
  ScanLimit,      \* batchSize: how many actionable intents a scan reads
  MaxAttempts,    \* grants after which an attempt that throws fails its job
  MaxRevision, MaxOrdinal     \* bounds on the jobs that can be named

ASSUME JobsAssumption ==
  /\ CreatedAt \in [Intents -> Nat]
  /\ ScanLimit \in Nat \ {0} /\ MaxAttempts \in Nat \ {0}
  /\ MaxRevision \in Nat /\ MaxOrdinal \in Nat /\ MaxFaults \in Nat

VARIABLES
  intent, operation, receipt, at, target, seen, answer, outcome, faults, \* ActionExecutor
  stage, grants, claims,                                                 \* JobLeases
  phase,          \* where each process is in its loop
  found,          \* the intents it scanned, at the revisions it read
  plan            \* the jobs it will enqueue

\* The identity of a job: its intent, the revision read, and how many preceded it.
Jobs == [intent : Intents, revision : 1 .. MaxRevision, ordinal : 0 .. MaxOrdinal]

Delivery == INSTANCE ActionExecutor
Lease    == INSTANCE JobLeases WITH Workers <- Executors

delivery == <<intent, operation, receipt, at, target, seen, answer, outcome>>
jobs     == <<stage, grants, claims>>
loop     == <<phase, found, plan>>
vars     == <<delivery, faults, jobs, loop>>

Init ==
  /\ Delivery!Init /\ Lease!Init
  /\ phase = [w \in Executors |-> "scan"]
  /\ found = [w \in Executors |-> {}]
  /\ plan = [w \in Executors |-> {}]

Goto(w, next) == phase' = [phase EXCEPT ![w] = next]
Fault         == faults < MaxFaults /\ faults' = faults + 1

\* The process forgets its pass; whatever lease it had runs out.
Abandon(w) ==
  /\ Goto(w, "scan")
  /\ found' = [found EXCEPT ![w] = {}]
  /\ plan' = [plan EXCEPT ![w] = {}]
  /\ Lease!Drop(w)

-----------------------------------------------------------------------------
(* enqueueActionableIntents.                                               *)

\* The oldest actionable intents, as many as a scan reads.
Actionable == {i \in Intents : intent[i].state \in Delivery!ActiveStates}
Scanned ==
  {i \in Actionable : Cardinality({k \in Actionable : CreatedAt[k] < CreatedAt[i]}) < ScanLimit}

JobsOf(i) == {j \in Jobs : j.intent = i /\ stage[j] # "absent"}


\* Mutant: only the job that is running counts.
CoveredByRunning(i) == \E j \in JobsOf(i) : stage[j] = "running"

Covered(i) == \E j \in JobsOf(i) : stage[j] \notin {"failed", "canceled"}

\* One read of the intents ...
Scan(w) ==
  /\ phase[w] = "scan"
  /\ found' = [found EXCEPT ![w] =
                 {[intent |-> i, revision |-> intent[i].revision] : i \in Scanned}]
  /\ Goto(w, IF Scanned = {} THEN "poll" ELSE "list")
  /\ UNCHANGED <<delivery, faults, jobs, plan>>

\* ... then one of all jobs.
List(w) ==
  /\ phase[w] = "list"
  /\ plan' = [plan EXCEPT ![w] =
                {j \in Jobs : /\ ~Covered(j.intent)
                              /\ j.ordinal = Cardinality(JobsOf(j.intent))
                              /\ \E f \in found[w] : f.intent = j.intent
                                                     /\ f.revision = j.revision}]
  /\ found' = [found EXCEPT ![w] = {}]
  /\ Goto(w, "insert")
  /\ UNCHANGED <<delivery, faults, jobs>>

\* A job that exists is deduplicated, or conflicts and is skipped: it stays as it is.
Insert(w, j) ==
  /\ phase[w] = "insert" /\ j \in plan[w]
  /\ \A k \in plan[w] : CreatedAt[j.intent] <= CreatedAt[k.intent]
  /\ plan' = [plan EXCEPT ![w] = @ \ {j}]
  /\ IF stage[j] = "absent" THEN Lease!Enqueue(j) ELSE UNCHANGED jobs
  /\ UNCHANGED <<delivery, faults, phase, found>>

-----------------------------------------------------------------------------
(* runOnce: claim a job, run its handler, release it.                      *)

Polling(w) == phase[w] = "poll" \/ (phase[w] = "insert" /\ plan[w] = {})

\* A worker is still running the job under its latest grant.
Held(j) == \E v \in Executors : [job |-> j, grant |-> grants[j]] \in claims[v]

\* Claiming a job whose holder is at work means its lease ran out: a fault.
Claim(w, j) ==
  /\ Polling(w)
  /\ Lease!Claim(w, j)
  /\ IF stage[j] = "running" /\ Held(j) THEN Fault ELSE UNCHANGED faults
  /\ Goto(w, "handle")
  /\ UNCHANGED <<delivery, found, plan>>

\* Jobs that wait for a retry or hold a lease may not be claimable yet.
FindNothing(w) ==
  /\ Polling(w)
  /\ \A j \in Jobs : stage[j] # "pending"
  /\ Goto(w, "scan")
  /\ UNCHANGED <<delivery, faults, jobs, found, plan>>

\* The handler runs the one intent its job names.
StartIntent(w) ==
  /\ phase[w] = "handle"
  /\ \E c \in claims[w] : Delivery!RunIntent(w, c.job.intent)
  /\ UNCHANGED <<jobs, loop>>

AttemptIntent(w) == Delivery!Attempt(w) /\ UNCHANGED <<jobs, loop>>

\* decideRetry, once the handler or its release threw.
AfterError(w) ==
  IF \E c \in claims[w] : c.grant < MaxAttempts THEN "waiting_for_retry" ELSE "failed"

\* Mutant: an intent that returned to pending counts as settled.
ReleasedAsUnknownOnly(w) ==
  CASE outcome[w] = "error"           -> AfterError(w)
    [] outcome[w] = "outcome_unknown" -> "waiting_for_retry"
    [] OTHER                          -> "completed"

\* What a job is released as; an attempt that was skipped counts as settled.
ReleasedAs(w) ==
  CASE outcome[w] = "error"                          -> AfterError(w)
    [] outcome[w] \in {"outcome_unknown", "pending"} -> "waiting_for_retry"
    [] OTHER                                         -> "completed"

\* The release, or the fencing error that ends the pass of a displaced worker.
ReleaseJob(w) ==
  /\ Delivery!Return(w)
  /\ IF Lease!Active(w) THEN Lease!Release(w, ReleasedAs(w), FALSE) ELSE Lease!Drop(w)
  /\ Goto(w, "scan")
  /\ UNCHANGED <<found, plan>>

-----------------------------------------------------------------------------
(* Faults, time and finance.                                               *)

\* A database or provider call throws inside the attempt.
AttemptThrows(w) == Delivery!Throw(w) /\ UNCHANGED <<jobs, loop>>

\* The release of a finished attempt throws, and the second release writes.
ReleaseThrows(w) ==
  /\ at[w] = "done" /\ Fault
  /\ Delivery!Forget(w)
  /\ Lease!Release(w, AfterError(w), FALSE)
  /\ Goto(w, "scan")
  /\ UNCHANGED <<intent, operation, receipt, found, plan>>

\* The pass fails between its calls, or the release does; or the process dies.
PassEnds(w) ==
  /\ phase[w] # "scan"
  /\ Fault
  /\ Delivery!Forget(w)
  /\ Abandon(w)
  /\ UNCHANGED <<intent, operation, receipt>>

\* The deadline of a job passes, whether or not a handler is running it.
DeadlinePasses(j) ==
  /\ Fault
  /\ Lease!End(j, "failed")
  /\ UNCHANGED <<delivery, loop>>

Finance ==
  /\ \E i \in Intents : Delivery!OpenIntent(i) \/ Delivery!CancelPending(i)
  /\ UNCHANGED <<jobs, loop>>

-----------------------------------------------------------------------------
Produce(w) == Scan(w) \/ List(w) \/ \E j \in Jobs : Insert(w, j)
Handle(w)  == StartIntent(w) \/ AttemptIntent(w) \/ ReleaseJob(w)

Next ==
  \/ Finance
  \/ \E j \in Jobs : DeadlinePasses(j)
  \/ \E w \in Executors :
       \/ Produce(w) \/ FindNothing(w) \/ \E j \in Jobs : Claim(w, j)
       \/ Handle(w) \/ AttemptThrows(w) \/ ReleaseThrows(w) \/ PassEnds(w)

Spec == Init /\ [][Next]_vars

(***************************************************************************)
(* The loop of worker.ts goes on after every pass.  Jobs of one priority   *)
(* are admitted by deadline, which is an hour after they were enqueued, so *)
(* an intent's job is not passed over for ever, and retries and expired    *)
(* leases become claimable as time passes.                                 *)
(***************************************************************************)
Fairness ==
  /\ \A w \in Executors : WF_vars(Produce(w) \/ FindNothing(w) \/ Handle(w))
  /\ \A i \in Intents :
       SF_vars(\E w \in Executors, j \in Jobs : j.intent = i /\ Claim(w, j))

FairSpec == Spec /\ Fairness

-----------------------------------------------------------------------------
(* Properties.                                                             *)

(***************************************************************************)
(* job-handler.ts: the handler "completes only once every intent it was    *)
(* given settled".  A completed job covers its intent for ever: no         *)
(* producer enqueues another.  With two processes it does not hold: an     *)
(* attempt that another one displaced is skipped, its job is completed,    *)
(* and the other may yet return the intent to pending, or lose its answer. *)
(***************************************************************************)
CompletedMeansSettled ==
  \A j \in Jobs :
    stage[j] = "completed" => intent[j.intent].state \in Delivery!TerminalStates

(***************************************************************************)
(* job-handler.ts: "A non-failed job owns its intent".  However passes of  *)
(* one producer are cut off and repeated while its jobs fail, two unended  *)
(* jobs never name one intent.                                             *)
(***************************************************************************)
OneOwner ==
  \A j, k \in Jobs :
    j.intent = k.intent /\ Lease!Unended(j) /\ Lease!Unended(k) => j = k

=============================================================================
