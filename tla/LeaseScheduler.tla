--------------------------- MODULE LeaseScheduler ---------------------------
(***************************************************************************)
(* Durable jobs, their leases and the workers that run them:               *)
(* MongoSchedulerRepository (packages/scheduler/src/mongo-repository.ts),  *)
(* SchedulerWorker.runOnce (worker.ts) and the pure transitions they apply *)
(* (scheduler.ts).                                                         *)
(*                                                                         *)
(* A worker captures its clock and uses that instant for writes it makes   *)
(* later, so `now` may be long past when a write happens.  claimNext reads *)
(* every job and then writes one of them by compare-and-swap on its        *)
(* revision: two steps.  #mutate reads one job and writes that same job by *)
(* compare-and-swap, and reads it again when it lost, so each of its       *)
(* changes is one step.                                                    *)
(* An instant, a revision or counters that are not used again are reset.   *)
(*                                                                         *)
(* All workers read one clock: the code compares instants taken by         *)
(* different processes and allows for no skew.                             *)
(***************************************************************************)
EXTENDS JobAdmission, FiniteSets

CONSTANTS
  Workers,
  Principal,                \* originPrincipalId of each job
  MaxRunningPerPrincipal,
  LeaseDuration,
  MaxAttempts, BaseDelay, MaxDelay,   \* the retry policy
  MaxTime,                  \* bound on the clock; a deadline beyond it never comes
  MaxFaults                 \* bound on crashes and failed calls

ASSUME SchedulerAssumption ==
  /\ MaxRunningPerPrincipal \in Nat \ {0}
  /\ LeaseDuration \in Nat \ {0}
  /\ MaxAttempts \in Nat \ {0}
  /\ BaseDelay \in Nat \ {0} /\ MaxDelay \in Nat \ {0} /\ BaseDelay <= MaxDelay
  /\ MaxTime \in Nat /\ MaxFaults \in Nat

\* A fact of arithmetic the provers do not know, for the powers the retry delay uses.
ASSUME PowersAssumption == \A n \in 0 .. MaxAttempts : 2 ^ n \in Nat

VARIABLES
  clock,
  (* scheduler_jobs *)
  state,                    \* "absent" until the job is enqueued
  revision,
  attempts,
  eligibleAt,
  lease,                    \* owner, generation and expiry, or NoLease
  lastGeneration,           \* lastLeaseGeneration
  (* SchedulerWorker *)
  at,                       \* the step each worker has reached
  now,                      \* the instant it captured for its next writes
  due,                      \* jobs its deadline sweep still has to visit
  target,                   \* the job it selected or claimed
  readRevision,             \* the revision at which it selected the job
  token,                    \* generation and attempts of the job it claimed
  until,                    \* when the lease it knows of expires
  release,                  \* the StepRelease it is about to write
  fairness,                 \* its #fairness
  admitted,                 \* the counters inside claimNext
  faults

store  == <<state, revision, attempts, eligibleAt, lease, lastGeneration>>
grant  == <<readRevision, token, until>>
memory == <<now, due, target, grant, release, fairness, admitted>>
vars   == <<clock, store, at, memory, faults>>

Terminal  == {"completed", "failed", "canceled"}
Waiting   == {"pending", "waiting_for_retry"}
JobStates == {"absent", "running", "waiting_for_approval"} \cup Waiting \cup Terminal

\* What a job may be released as: ALLOWED_TRANSITIONS from running.
Outcomes == {"completed", "waiting_for_approval", "waiting_for_retry", "failed", "canceled"}

Steps == {"idle", "sweep", "admit", "claim", "handle", "renew", "release", "retry"}

NoJob     == -1
NoLease   == [owner |-> "none", generation |-> 0, expiresAt |-> 0]
NoToken   == [generation |-> 0, attempts |-> 0]
NoRelease == [state |-> "none", eligibleAt |-> 0]

TypeOK ==
  /\ clock \in 0 .. MaxTime
  /\ state \in [Jobs -> JobStates]
  /\ revision \in [Jobs -> Nat]
  /\ attempts \in [Jobs -> Nat]
  /\ eligibleAt \in [Jobs -> 0 .. MaxTime + MaxDelay]
  /\ lease \in [Jobs -> [owner : Workers \cup {"none"}, generation : Nat, expiresAt : Nat]]
  /\ lastGeneration \in [Jobs -> Nat]
  /\ at \in [Workers -> Steps]
  /\ now \in [Workers -> 0 .. MaxTime]
  /\ due \in [Workers -> SUBSET Jobs]
  /\ target \in [Workers -> Jobs \cup {NoJob}]
  /\ readRevision \in [Workers -> Nat]
  /\ token \in [Workers -> [generation : Nat, attempts : Nat]]
  /\ until \in [Workers -> Nat]
  /\ release \in [Workers -> [state : Outcomes \cup {"none"},
                              eligibleAt : 0 .. MaxTime + MaxDelay]]
  /\ fairness \in [Workers -> Counters] /\ admitted \in [Workers -> Counters]
  /\ faults \in 0 .. MaxFaults

Init ==
  /\ clock = 0
  /\ state = [j \in Jobs |-> "absent"]
  /\ revision = [j \in Jobs |-> 0]
  /\ attempts = [j \in Jobs |-> 0]
  /\ eligibleAt = [j \in Jobs |-> 0]
  /\ lease = [j \in Jobs |-> NoLease]
  /\ lastGeneration = [j \in Jobs |-> 0]
  /\ at = [w \in Workers |-> "idle"]
  /\ now = [w \in Workers |-> 0]
  /\ due = [w \in Workers |-> {}]
  /\ target = [w \in Workers |-> NoJob]
  /\ readRevision = [w \in Workers |-> 0]
  /\ token = [w \in Workers |-> NoToken]
  /\ until = [w \in Workers |-> 0]
  /\ release = [w \in Workers |-> NoRelease]
  /\ fairness = [w \in Workers |-> InitialFairness]
  /\ admitted = [w \in Workers |-> InitialFairness]
  /\ faults = 0

-----------------------------------------------------------------------------
(* Conditions on stored jobs and helpers of the steps.                     *)

Live(j) == state[j] \notin Terminal \cup {"absent"}

LeaseExpired(j, t) == state[j] = "running" /\ lease[j].expiresAt <= t

\* Jobs of a principal that count against its limit.
RunningFor(principal, t) ==
  {j \in Jobs : Principal[j] = principal /\ state[j] = "running" /\ lease[j].expiresAt > t}

\* Mutant: running jobs are left to their workers for ever.
CandidatesWaitingOnly(t) ==
  {j \in Jobs :
     /\ state[j] \in Waiting
     /\ eligibleAt[j] <= t /\ t < Deadline[j]
     /\ Cardinality(RunningFor(Principal[j], t)) < MaxRunningPerPrincipal}

\* The jobs selectNextJob leaves after its filters; claimJob accepts every one.
Candidates(t) ==
  {j \in Jobs :
     /\ state[j] \in Waiting \/ LeaseExpired(j, t)
     /\ eligibleAt[j] <= t /\ t < Deadline[j]
     /\ Cardinality(RunningFor(Principal[j], t)) < MaxRunningPerPrincipal}

\* Mutant: any unexpired lease will do, whoever holds it.
ActiveLeaseOfAnyone(w) ==
  state[target[w]] = "running" /\ lease[target[w]].expiresAt > now[w]

\* Mutant: the latest grant stays good after the job has left running.
ActiveLeaseByGeneration(w) == token[w].generation = lastGeneration[target[w]]

\* assertActiveLease, for the job w claimed, at the instant it captured.
ActiveLease(w) ==
  LET j == target[w] IN
    /\ state[j] = "running"
    /\ lease[j].owner = w /\ lease[j].generation = token[w].generation
    /\ lease[j].expiresAt > now[w]

Goto(w, step) == at' = [at EXCEPT ![w] = step]
Capture(w)    == now' = [now EXCEPT ![w] = clock]

\* A write that takes the job out of its lease, if it has one.
Settle(j, next) ==
  /\ state' = [state EXCEPT ![j] = next]
  /\ revision' = [revision EXCEPT ![j] = @ + 1]
  /\ lease' = [lease EXCEPT ![j] = NoLease]

\* The pass ends and the worker keeps only its fairness counters.
Rest(w) ==
  /\ Goto(w, "idle")
  /\ now' = [now EXCEPT ![w] = 0]
  /\ due' = [due EXCEPT ![w] = {}]
  /\ target' = [target EXCEPT ![w] = NoJob]
  /\ readRevision' = [readRevision EXCEPT ![w] = 0]
  /\ token' = [token EXCEPT ![w] = NoToken]
  /\ until' = [until EXCEPT ![w] = 0]
  /\ release' = [release EXCEPT ![w] = NoRelease]
  /\ admitted' = [admitted EXCEPT ![w] = InitialFairness]

\* One more fault, while the bound allows it.
Fault == faults < MaxFaults /\ faults' = faults + 1

-----------------------------------------------------------------------------
(* Producers, operators and time.                                          *)

\* enqueue inserts a new job; the same job again is deduplicated and changes nothing.
Enqueue(j) ==
  /\ state[j] = "absent" /\ clock < Deadline[j]
  /\ state' = [state EXCEPT ![j] = "pending"]
  /\ revision' = [revision EXCEPT ![j] = 1]
  /\ eligibleAt' = [eligibleAt EXCEPT ![j] = clock]
  /\ UNCHANGED <<clock, attempts, lease, lastGeneration, at, memory, faults>>

\* cancel, at the revision its caller expects, in any state but a terminal one.
Cancel(j) ==
  /\ Live(j)
  /\ Settle(j, "canceled")
  /\ UNCHANGED <<clock, attempts, eligibleAt, lastGeneration, at, memory, faults>>

Tick ==
  /\ clock < MaxTime
  /\ clock' = clock + 1
  /\ UNCHANGED <<store, at, memory, faults>>

-----------------------------------------------------------------------------
(* runOnce: expire deadlines, then claim, with one captured instant.       *)

\* Mutant: only jobs that wait are failed at their deadline.
BeginWaitingOnly(w) ==
  /\ at[w] = "idle"
  /\ Goto(w, "sweep") /\ Capture(w)
  /\ due' = [due EXCEPT ![w] = {j \in Jobs : state[j] \in Waiting /\ Deadline[j] <= clock}]
  /\ admitted' = [admitted EXCEPT ![w] = fairness[w]]
  /\ UNCHANGED <<clock, store, target, grant, release, fairness, faults>>

Begin(w) ==
  /\ at[w] = "idle"
  /\ Goto(w, "sweep") /\ Capture(w)
  /\ due' = [due EXCEPT ![w] = {j \in Jobs : Live(j) /\ Deadline[j] <= clock}]
  /\ admitted' = [admitted EXCEPT ![w] = fairness[w]]
  /\ UNCHANGED <<clock, store, target, grant, release, fairness, faults>>

\* expireDeadlines fails each due job, running or not, unless it ended meanwhile.
Expire(w, j) ==
  /\ at[w] = "sweep" /\ j \in due[w]
  /\ due' = [due EXCEPT ![w] = @ \ {j}]
  /\ IF Live(j) THEN Settle(j, "failed") ELSE UNCHANGED <<state, revision, lease>>
  /\ UNCHANGED <<clock, attempts, eligibleAt, lastGeneration,
                 at, now, target, grant, release, fairness, admitted, faults>>

Admitting(w) == at[w] = "admit" \/ (at[w] = "sweep" /\ due[w] = {})

\* claimNext: read all jobs and select one; the counters move before the write.
Admit(w) ==
  /\ Admitting(w)
  /\ \E j \in Jobs :
       /\ Selects(j, Candidates(now[w]), eligibleAt, now[w], admitted[w])
       /\ target' = [target EXCEPT ![w] = j]
       /\ readRevision' = [readRevision EXCEPT ![w] = revision[j]]
       /\ admitted' = [admitted EXCEPT ![w] = NextFairness(Priority[j], @)]
  /\ Goto(w, "claim")
  /\ UNCHANGED <<clock, store, now, due, token, until, release, fairness, faults>>

FindNothing(w) ==
  /\ Admitting(w)
  /\ Candidates(now[w]) = {}
  /\ Rest(w)
  /\ fairness' = [fairness EXCEPT ![w] = admitted[w]]
  /\ UNCHANGED <<clock, store, faults>>

\* Mutant: the claim is written whatever happened since the jobs were read.
ClaimBlind(w) ==
  LET j == target[w] IN
    /\ at[w] = "claim"
    /\ state' = [state EXCEPT ![j] = "running"]
    /\ revision' = [revision EXCEPT ![j] = @ + 1]
    /\ attempts' = [attempts EXCEPT ![j] = @ + 1]
    /\ lease' = [lease EXCEPT ![j] = [owner      |-> w,
                                      generation |-> lastGeneration[j] + 1,
                                      expiresAt  |-> now[w] + LeaseDuration]]
    /\ lastGeneration' = [lastGeneration EXCEPT ![j] = @ + 1]
    /\ token' = [token EXCEPT ![w] = [generation |-> lastGeneration[j] + 1,
                                      attempts   |-> attempts[j] + 1]]
    /\ until' = [until EXCEPT ![w] = now[w] + LeaseDuration]
    /\ fairness' = [fairness EXCEPT ![w] = admitted[w]]
    /\ now' = [now EXCEPT ![w] = 0]
    /\ readRevision' = [readRevision EXCEPT ![w] = 0]
    /\ admitted' = [admitted EXCEPT ![w] = InitialFairness]
    /\ Goto(w, "handle")
    /\ UNCHANGED <<clock, eligibleAt, due, target, release, faults>>

\* claimNext: claimJob's result is written if the job is still at that revision.
Claim(w) ==
  LET j == target[w] IN
    /\ at[w] = "claim"
    /\ revision[j] = readRevision[w]
    /\ state' = [state EXCEPT ![j] = "running"]
    /\ revision' = [revision EXCEPT ![j] = @ + 1]
    /\ attempts' = [attempts EXCEPT ![j] = @ + 1]
    /\ lease' = [lease EXCEPT ![j] = [owner      |-> w,
                                      generation |-> lastGeneration[j] + 1,
                                      expiresAt  |-> now[w] + LeaseDuration]]
    /\ lastGeneration' = [lastGeneration EXCEPT ![j] = @ + 1]
    /\ token' = [token EXCEPT ![w] = [generation |-> lastGeneration[j] + 1,
                                      attempts   |-> attempts[j] + 1]]
    /\ until' = [until EXCEPT ![w] = now[w] + LeaseDuration]
    /\ fairness' = [fairness EXCEPT ![w] = admitted[w]]
    /\ now' = [now EXCEPT ![w] = 0]
    /\ readRevision' = [readRevision EXCEPT ![w] = 0]
    /\ admitted' = [admitted EXCEPT ![w] = InitialFairness]
    /\ Goto(w, "handle")
    /\ UNCHANGED <<clock, eligibleAt, due, target, release, faults>>

LoseClaim(w) ==
  /\ at[w] = "claim"
  /\ revision[target[w]] # readRevision[w]
  /\ Goto(w, "admit")
  /\ UNCHANGED <<clock, store, memory, faults>>

-----------------------------------------------------------------------------
(* The handler runs, renews its lease, and returns or throws.              *)

\* decideRetry: the delay doubles with every attempt, up to MaxDelay.
DelayAfter(attempt) == Smaller(BaseDelay * 2 ^ (attempt - 1), MaxDelay)

RetryDecision(retryable, attempt, t) ==
  IF retryable /\ attempt < MaxAttempts
  THEN [state |-> "waiting_for_retry", eligibleAt |-> t + DelayAfter(attempt)]
  ELSE [state |-> "failed", eligibleAt |-> 0]

\* An error that is not a fencing error: decide, then release accordingly.
Decide(w, retryable) ==
  /\ release' = [release EXCEPT ![w] =
                   RetryDecision(retryable, token[w].attempts, clock)]
  /\ Goto(w, "retry") /\ Capture(w)

Fenced(w) == Rest(w) /\ UNCHANGED <<state, revision, eligibleAt, lease, fairness>>

\* releaseStep's write; only a retry moves the eligibility.
WriteRelease(w) ==
  /\ Settle(target[w], release[w].state)
  /\ eligibleAt' = IF release[w].state = "waiting_for_retry"
                   THEN [eligibleAt EXCEPT ![target[w]] = release[w].eligibleAt]
                   ELSE eligibleAt

\* releaseStep refuses a retry that is eligible already.
EligibleLater(w) == release[w].state = "waiting_for_retry" => release[w].eligibleAt > now[w]

\* The handler renews as time passes: at most once per instant in the model.
AskRenewal(w) ==
  /\ at[w] = "handle" /\ until[w] < clock + LeaseDuration
  /\ Goto(w, "renew") /\ Capture(w)
  /\ UNCHANGED <<clock, store, due, target, grant, release, fairness, admitted, faults>>

Renew(w) ==
  /\ at[w] = "renew"
  /\ UNCHANGED <<clock, attempts, lastGeneration, faults>>
  /\ \/ /\ ActiveLease(w)
        /\ lease' = [lease EXCEPT ![target[w]] =
                       [owner      |-> w,
                        generation |-> token[w].generation,
                        expiresAt  |-> now[w] + LeaseDuration]]
        /\ revision' = [revision EXCEPT ![target[w]] = @ + 1]
        /\ until' = [until EXCEPT ![w] = now[w] + LeaseDuration]
        /\ Goto(w, "handle")
        /\ now' = [now EXCEPT ![w] = 0]
        /\ UNCHANGED <<state, eligibleAt, due, target, readRevision, token,
                       release, fairness, admitted>>
     \/ ~ActiveLease(w) /\ Fenced(w)

\* A handler computes the time of its own retry, which may have come already.
HandlerReturns(w) ==
  /\ at[w] = "handle"
  /\ \E outcome \in Outcomes :
       \E wait \in IF outcome = "waiting_for_retry" THEN {0, BaseDelay} ELSE {0} :
         release' = [release EXCEPT ![w] =
                       [state      |-> outcome,
                        eligibleAt |-> IF outcome = "waiting_for_retry"
                                       THEN clock + wait ELSE 0]]
  /\ Goto(w, "release") /\ Capture(w)
  /\ UNCHANGED <<clock, store, due, target, grant, fairness, admitted, faults>>

HandlerThrows(w) ==
  /\ at[w] = "handle"
  /\ \E retryable \in BOOLEAN : Decide(w, retryable)
  /\ UNCHANGED <<clock, store, due, target, grant, fairness, admitted, faults>>

Release(w) ==
  /\ at[w] = "release"
  /\ UNCHANGED <<clock, attempts, lastGeneration, faults>>
  /\ \/ ActiveLease(w) /\ EligibleLater(w) /\ WriteRelease(w) /\ Rest(w) /\ UNCHANGED fairness
     \/ ~ActiveLease(w) /\ Fenced(w)
     \/ /\ ActiveLease(w) /\ ~EligibleLater(w)
        /\ Decide(w, TRUE)
        /\ UNCHANGED <<state, revision, eligibleAt, lease,
                       due, target, grant, fairness, admitted>>

\* The release after an error; a second error of any kind ends the pass.
ReleaseAfterError(w) ==
  /\ at[w] = "retry"
  /\ UNCHANGED <<clock, attempts, lastGeneration, faults>>
  /\ \/ ActiveLease(w) /\ WriteRelease(w) /\ Rest(w) /\ UNCHANGED fairness
     \/ ~ActiveLease(w) /\ Fenced(w)

-----------------------------------------------------------------------------
(* Faults.                                                                 *)

\* The first release fails before or after its write took effect.
ReleaseAnswerLost(w) ==
  /\ at[w] = "release"
  /\ Fault
  /\ \/ ActiveLease(w) /\ EligibleLater(w) /\ WriteRelease(w)
     \/ UNCHANGED <<state, revision, eligibleAt, lease>>
  /\ Decide(w, TRUE)
  /\ UNCHANGED <<clock, attempts, lastGeneration, due, target, grant, fairness, admitted>>

\* A call outside the handler throws: the pass fails and #fairness is not updated.
CallFails(w) ==
  /\ at[w] \in {"sweep", "admit", "claim", "retry"}
  /\ Fault
  /\ Rest(w)
  /\ UNCHANGED <<clock, store, fairness>>

\* The process dies; its successor starts with fresh counters.
Crash(w) ==
  /\ at[w] # "idle"
  /\ Fault
  /\ Rest(w)
  /\ fairness' = [fairness EXCEPT ![w] = InitialFairness]
  /\ UNCHANGED <<clock, store>>

-----------------------------------------------------------------------------
Pass(w) ==
  \/ Begin(w) \/ \E j \in Jobs : Expire(w, j)
  \/ Admit(w) \/ FindNothing(w) \/ Claim(w) \/ LoseClaim(w)
  \/ Renew(w) \/ HandlerReturns(w) \/ HandlerThrows(w)
  \/ Release(w) \/ ReleaseAfterError(w)

Producer == \E j \in Jobs : Enqueue(j) \/ Cancel(j)
Worker   == \E w \in Workers : \/ Pass(w) \/ AskRenewal(w)
                               \/ ReleaseAnswerLost(w) \/ CallFails(w) \/ Crash(w)

Next == Tick \/ Producer \/ Worker

Spec == Init /\ [][Next]_vars

(***************************************************************************)
(* Time passes, and every worker's loop goes on: main calls runOnce again  *)
(* after each pass, whatever it threw.  Handlers are assumed to finish.    *)
(***************************************************************************)
Fairness == WF_vars(Tick) /\ \A w \in Workers : WF_vars(Pass(w))

FairSpec == Spec /\ Fairness

-----------------------------------------------------------------------------
(* Properties.                                                             *)

\* The handler of w runs for j under a lease that has not expired.
Holds(w, j) == at[w] \in {"handle", "renew"} /\ target[w] = j /\ clock < until[w]

(***************************************************************************)
(* Never do two handlers run for one job under unexpired leases: a claim   *)
(* that raced another, a renewal that raced the reclaim, or an instant     *)
(* captured long before its write cannot make two workers believe so.      *)
(***************************************************************************)
LeaseExclusion ==
  \A j \in Jobs : \A v, w \in Workers : Holds(v, j) /\ Holds(w, j) => v = w

(***************************************************************************)
(* A job has a lease exactly while it runs, it is the latest one granted,  *)
(* and every grant counted as an attempt; claimJob's generation checks     *)
(* therefore never refuse a candidate of selectNextJob.                    *)
(***************************************************************************)
LeaseIsLatestGrant ==
  \A j \in Jobs :
    /\ state[j] = "running" <=> lease[j] # NoLease
    /\ state[j] = "running" => lease[j].generation = lastGeneration[j]
    /\ attempts[j] = lastGeneration[j]

(***************************************************************************)
(* docs/architecture/05: "expired workers cannot mark newer work           *)
(* complete".  A step of a worker whose grant is not the latest leaves the *)
(* job it was running as it is.                                            *)
(***************************************************************************)
Displaced(w) == /\ at[w] \in {"handle", "renew", "release", "retry"}
                /\ token[w].generation # lastGeneration[target[w]]

DisplacedWorkersAreFenced ==
  [][\A w \in Workers :
       Displaced(w) /\ at'[w] # at[w] => UNCHANGED store]_vars

(***************************************************************************)
(* What producers and handlers rely on: whatever instants were captured    *)
(* and whatever compare-and-swaps were lost, jobs move as JobLeases says.  *)
(***************************************************************************)
HeldBy(w) == IF at[w] \in {"handle", "renew", "release", "retry"}
             THEN {[job |-> target[w], grant |-> token[w].generation]}
             ELSE {}

Leases == INSTANCE JobLeases
            WITH stage  <- state,
                 grants <- lastGeneration,
                 claims <- [w \in Workers |-> HeldBy(w)]

ImplementsJobLeases == Leases!Spec

(***************************************************************************)
(* An ended job stays as it ended, though a worker may still be running    *)
(* it: cancellation and deadlines do not wait for handlers.                *)
(***************************************************************************)
TerminalIsFinal ==
  [][\A j \in Jobs : state[j] \in Terminal =>
       state'[j] = state[j] /\ revision'[j] = revision[j]]_vars

(***************************************************************************)
(* A job whose deadline comes has ended some time after it, whatever       *)
(* became of its worker.                                                   *)
(***************************************************************************)
DeadlinesEnd ==
  \A j \in Jobs : (Live(j) /\ Deadline[j] <= MaxTime) ~> ~Live(j)

(***************************************************************************)
(* "A restart reclaims expired leases" (docs 05): an expired lease does    *)
(* not stay with its job.                                                  *)
(***************************************************************************)
ExpiredLeasesAreReclaimed ==
  \A j \in Jobs : LeaseExpired(j, clock) ~> ~LeaseExpired(j, clock)
=============================================================================
