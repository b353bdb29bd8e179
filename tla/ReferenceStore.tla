--------------------------- MODULE ReferenceStore ---------------------------
(***************************************************************************)
(* The in-memory scheduler repository (packages/scheduler/src/repository.ts) *)
(* and the coalescing it applies (scheduler.ts): work submitted for a      *)
(* partition joins a job that still waits, and follows one that runs.      *)
(* Every method runs to its end without yielding, so each is one step. Job *)
(* IDs are numbers, in the order of arrival. Enqueuing an ID again is answered from the  *)
(* stored job, as a duplicate or as a conflict, and changes nothing. The   *)
(* attempts of a job are its claims, so lastGeneration counts both; the    *)
(* revision, which only cancel compares, is left out.                      *)
(***************************************************************************)
EXTENDS Integers, FiniteSets, FiniteSetsExt

CONSTANTS
  Workers,
  Submissions,      \* what is enqueued, each once: [partition, priority, essential, principal, inputs, delay, deadline]
  MaxRunningPerPrincipal, LeaseDuration,
  MaxConsecutiveP0, MaxConsecutiveNonP2, P2Aging,
  MaxTime, MaxAttempts    \* bounds: the clock, and the claims of a job

ASSUME SubmissionsAssumption ==
  /\ \A s \in Submissions : /\ s.priority \in {"P0", "P1", "P2"} /\ s.inputs \in [DOMAIN s.inputs -> Nat]
                            /\ s.delay \in Nat /\ s.deadline \in Int
  /\ LeaseDuration \in Nat

VARIABLES
  clock,
  jobs,             \* #records, by job ID; "seen" is what the last claim handed out
  held,             \* the job and generation each worker was given, or Nothing
  accepted          \* every submission taken and the job it went into, for the properties

rvars == <<clock, jobs, held, accepted>>

Nothing  == [job |-> 0, generation |-> 0]
NoLease  == [owner |-> "none", generation |-> 0, expiresAt |-> 0]
Waiting  == {"pending", "waiting_for_retry"}
Terminal == {"completed", "failed", "canceled"}
Releases == {"completed", "waiting_for_approval", "waiting_for_retry", "failed", "canceled"}

Admission == INSTANCE JobAdmission WITH
  Jobs <- DOMAIN jobs,
  Priority <- [j \in DOMAIN jobs |-> jobs[j].priority],
  Essential <- {j \in DOMAIN jobs : jobs[j].essential},
  Deadline <- [j \in DOMAIN jobs |-> jobs[j].deadline]

RefInit == clock = 0 /\ jobs = <<>> /\ held = [w \in Workers |-> Nothing] /\ accepted = {}

-----------------------------------------------------------------------------
(* Coalescing.                                                             *)

Rank(priority) == CASE priority = "P0" -> 0 [] priority = "P1" -> 1 [] priority = "P2" -> 2
HigherPriority(p, q) == IF Rank(p) <= Rank(q) THEN p ELSE q
Earlier(s, t) == IF s <= t THEN s ELSE t

\* Of each record, the newer revision.
MergeInputVersions(left, right) ==
  [o \in DOMAIN left \cup DOMAIN right |->
     Max({left[x] : x \in DOMAIN left \cap {o}} \cup {right[x] : x \in DOMAIN right \cap {o}})]

NewJob(s) ==
  [partition |-> s.partition, essential |-> s.essential, principal |-> s.principal,
   priority |-> s.priority, inputs |-> s.inputs, eligibleAt |-> clock + s.delay, deadline |-> s.deadline,
   state |-> "pending", lease |-> NoLease, lastGeneration |-> 0, seen |-> <<>>]

\* Mutant: the job takes the terms of the submission that came last.
CoalesceLatest(job, s) ==
  [job EXCEPT !.priority = s.priority, !.inputs = MergeInputVersions(@, s.inputs),
              !.eligibleAt = clock + s.delay, !.deadline = s.deadline]

\* coalesceJobs, when the stored job waits.
Coalesce(job, s) ==
  [job EXCEPT !.priority = HigherPriority(@, s.priority),
              !.inputs = MergeInputVersions(@, s.inputs),
              !.eligibleAt = Earlier(@, clock + s.delay),
              !.deadline = Earlier(@, s.deadline)]

\* Mutant: a job that runs is joined as well.
MatchingWithRunning(s) ==
  {j \in DOMAIN jobs : jobs[j].state \in Waiting \cup {"running"} /\ jobs[j].partition = s.partition}

\* The waiting jobs a submission may join; with none it becomes a job of its own,
\* the follow-up of one that runs if there is one.
Matching(s) == {j \in DOMAIN jobs : jobs[j].state \in Waiting /\ jobs[j].partition = s.partition}

Accept(j, s) ==
  accepted' = accepted \cup {[submission |-> s, job |-> j, eligibleAt |-> clock + s.delay]}

Enqueue(s) ==
  /\ \A a \in accepted : a.submission # s
  /\ \/ \E j \in Matching(s) :         \* the oldest, as the records are searched
          /\ \A k \in Matching(s) : j <= k
          /\ jobs' = [jobs EXCEPT ![j] = Coalesce(@, s)] /\ Accept(j, s)
     \/ /\ Matching(s) = {}
        /\ LET id == Cardinality(DOMAIN jobs) + 1
           IN  jobs' = [j \in DOMAIN jobs \cup {id} |-> IF j = id THEN NewJob(s) ELSE jobs[j]] /\ Accept(id, s)
  /\ UNCHANGED <<clock, held>>

-----------------------------------------------------------------------------
(* Claims, and what the worker of a claim may do.                          *)

LeaseExpired(j) == jobs[j].state = "running" /\ jobs[j].lease.expiresAt <= clock

RunningFor(principal) ==
  {j \in DOMAIN jobs : jobs[j].principal = principal /\ jobs[j].state = "running" /\ ~LeaseExpired(j)}

Candidates ==
  {j \in DOMAIN jobs : /\ jobs[j].state \in Waiting \/ LeaseExpired(j)
                       /\ jobs[j].eligibleAt <= clock /\ clock < jobs[j].deadline
                       /\ Cardinality(RunningFor(jobs[j].principal)) < MaxRunningPerPrincipal}

\* claimNext selects and claims in one step, with whatever counters its caller holds.
ClaimNext(w, fairness) ==
  /\ held[w] = Nothing
  /\ \E j \in Candidates :
       /\ jobs[j].lastGeneration < MaxAttempts
       /\ Admission!Selects(j, Candidates, [x \in DOMAIN jobs |-> jobs[x].eligibleAt], clock, fairness)
       /\ LET generation == jobs[j].lastGeneration + 1
          IN  /\ jobs' = [jobs EXCEPT ![j] =
                   [@ EXCEPT !.state = "running", !.lastGeneration = generation, !.seen = jobs[j].inputs,
                             !.lease = [owner |-> w, generation |-> generation, expiresAt |-> clock + LeaseDuration]]]
              /\ held' = [held EXCEPT ![w] = [job |-> j, generation |-> generation]]
  /\ UNCHANGED <<clock, accepted>>

\* assertActiveLease
ActiveLease(w) ==
  /\ held[w] # Nothing
  /\ LET job == jobs[held[w].job]
     IN  /\ job.state = "running"
         /\ job.lease.owner = w /\ job.lease.generation = held[w].generation
         /\ job.lease.expiresAt > clock

Renew(w) ==
  /\ ActiveLease(w) /\ jobs[held[w].job].lease.expiresAt < clock + LeaseDuration
  /\ jobs' = [jobs EXCEPT ![held[w].job].lease.expiresAt = clock + LeaseDuration]
  /\ UNCHANGED <<clock, held, accepted>>

Settle(job, state) == [job EXCEPT !.state = state, !.lease = NoLease]

\* A retry moves the eligibility, and only into the future.
Release(w, state) ==
  /\ ActiveLease(w)
  /\ LET job == jobs[held[w].job]
     IN  jobs' = [jobs EXCEPT ![held[w].job] =
           [Settle(job, state) EXCEPT !.eligibleAt = IF state = "waiting_for_retry" THEN clock + 1 ELSE job.eligibleAt]]
  /\ held' = [held EXCEPT ![w] = Nothing]
  /\ UNCHANGED <<clock, accepted>>

\* The worker is fenced, or its process is gone.
Abandon(w) ==
  /\ held[w] # Nothing
  /\ held' = [held EXCEPT ![w] = Nothing]
  /\ UNCHANGED <<clock, jobs, accepted>>

-----------------------------------------------------------------------------
(* Operators and time.                                                     *)

Cancel(j) ==
  /\ jobs[j].state \notin Terminal
  /\ jobs' = [jobs EXCEPT ![j] = Settle(@, "canceled")]
  /\ UNCHANGED <<clock, held, accepted>>

\* Every job that is due fails, whether it waits, runs or is reviewed.
ExpireDeadlines ==
  LET due == {j \in DOMAIN jobs : jobs[j].state \notin Terminal /\ jobs[j].deadline <= clock}
  IN  /\ due # {}
      /\ jobs' = [j \in DOMAIN jobs |-> IF j \in due THEN Settle(jobs[j], "failed") ELSE jobs[j]]
      /\ UNCHANGED <<clock, held, accepted>>

Tick == clock < MaxTime /\ clock' = clock + 1 /\ UNCHANGED <<jobs, held, accepted>>

RefNext ==
  \/ \E s \in Submissions : Enqueue(s)
  \/ \E w \in Workers : \/ \E fairness \in Admission!Counters : ClaimNext(w, fairness)
                        \/ Renew(w) \/ Abandon(w)
                        \/ \E state \in Releases : Release(w, state)
  \/ \E j \in DOMAIN jobs : Cancel(j)
  \/ ExpireDeadlines
  \/ Tick

RefSpec == RefInit /\ [][RefNext]_rvars

-----------------------------------------------------------------------------
Covers(seen, inputs) == \A o \in DOMAIN inputs : o \in DOMAIN seen /\ seen[o] >= inputs[o]

(* A job completes only with work that its worker was given: whatever was   *)
(* submitted into it was part of the job when it was claimed for the last   *)
(* time, at that revision or a newer one. Work that arrives while a job     *)
(* runs goes elsewhere (coalesceJobs, enqueue).                             *)
CompletedWorkWasSeen ==
  \A a \in accepted : jobs[a.job].state \in {"running", "completed"} => Covers(jobs[a.job].seen, a.submission.inputs)

(* A submission that joins a job keeps its terms: the job is at least as    *)
(* urgent, ends no later, and before its first claim may start no later     *)
(* than each submission in it asked for (coalesceJobs).                     *)
SubmissionsKeepTheirTerms ==
  \A a \in accepted :
     LET job == jobs[a.job]
     IN  /\ Rank(job.priority) <= Rank(a.submission.priority) /\ job.deadline <= a.submission.deadline
         /\ job.state = "pending" => job.eligibleAt <= a.eligibleAt
=============================================================================
