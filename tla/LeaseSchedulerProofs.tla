------------------------ MODULE LeaseSchedulerProofs ------------------------
(***************************************************************************)
(* Leases are exclusive, displaced workers are fenced and ended jobs stay  *)
(* ended, for any jobs, workers, policy and bounds of LeaseScheduler.      *)
(*                                                                         *)
(* The argument: a claim goes through only on the revision it read, so the *)
(* job it takes was waiting or under a lease that had expired at an        *)
(* instant now past; the former holder's lease is over on every clock, and *)
(* its smaller generation keeps it from writing ever after.                *)
(***************************************************************************)
EXTENDS LeaseScheduler, TLAPS

Handling == {"handle", "renew"}
Working  == Handling \cup {"release", "retry"}

Sited(w) == /\ at[w] \in Working \cup {"claim"} => target[w] \in Jobs
            /\ at[w] \in {"release", "retry"} => release[w].state \in Outcomes
            /\ now[w] <= clock

\* A selection whose revision is still current may be claimed.
Claimable(w) ==
  at[w] = "claim" =>
    /\ state[target[w]] # "absent"
    /\ readRevision[w] <= revision[target[w]]
    /\ readRevision[w] = revision[target[w]] =>
         state[target[w]] \in Waiting \/ LeaseExpired(target[w], now[w])

Granted(w) ==
  at[w] \in Working => /\ token[w].generation <= lastGeneration[target[w]]
                       /\ token[w].generation >= 1 /\ token[w].attempts >= 1

\* A running handler has the lease of its job, or the job ended, or its lease is over.
Owning(w) ==
  at[w] \in Handling =>
    IF token[w].generation = lastGeneration[target[w]]
    THEN \/ state[target[w]] \in Terminal
         \/ /\ state[target[w]] = "running"
            /\ lease[target[w]] = [owner      |-> w,
                                   generation |-> token[w].generation,
                                   expiresAt  |-> until[w]]
    ELSE until[w] <= clock

Apart(v, w) ==
  /\ v # w /\ at[v] \in Handling /\ at[w] \in Handling /\ target[v] = target[w]
  => token[v].generation # token[w].generation

Workmanship == \A w \in Workers : Sited(w) /\ Claimable(w) /\ Granted(w) /\ Owning(w)
Separation  == \A v, w \in Workers : Apart(v, w)

IInv == TypeOK /\ LeaseIsLatestGrant /\ Workmanship /\ Separation

LEMMA InitIInv == Init => IInv
<1> SUFFICES ASSUME Init PROVE IInv
  OBVIOUS
<1>1. TypeOK
  BY SchedulerAssumption, AdmissionAssumption
     DEF Init, TypeOK, JobStates, NoLease, NoToken, NoRelease, Steps, InitialFairness, Counters
<1>2. LeaseIsLatestGrant
  BY DEF Init, LeaseIsLatestGrant, NoLease
<1>3. Workmanship
  BY DEF Init, Workmanship, Sited, Claimable, Granted, Owning, Working, Handling
<1>4. Separation
  BY DEF Init, Separation, Apart, Handling
<1> QED
  BY <1>1, <1>2, <1>3, <1>4 DEF IInv

-----------------------------------------------------------------------------
(* Lemmas about the helpers.                                               *)

LEMMA RetryType ==
  ASSUME NEW attempt \in Nat, attempt >= 1, NEW retryable \in BOOLEAN, NEW t \in 0 .. MaxTime
  PROVE  /\ RetryDecision(retryable, attempt, t) \in
              [state : Outcomes \cup {"none"}, eligibleAt : 0 .. MaxTime + MaxDelay]
         /\ RetryDecision(retryable, attempt, t).state \in Outcomes
<1>1. CASE retryable /\ attempt < MaxAttempts
  <2>1. 2 ^ (attempt - 1) \in Nat
    <3>1. attempt - 1 \in 0 .. MaxAttempts
      BY <1>1, SchedulerAssumption
    <3> QED
      BY <3>1, PowersAssumption
  <2>2. BaseDelay * 2 ^ (attempt - 1) \in Nat
    BY <2>1, SchedulerAssumption
  <2>3. DelayAfter(attempt) \in 0 .. MaxDelay
    BY <2>2, SchedulerAssumption DEF DelayAfter, Smaller
  <2>4. t + DelayAfter(attempt) \in 0 .. MaxTime + MaxDelay
    BY <2>3, SchedulerAssumption
  <2>5. RetryDecision(retryable, attempt, t) =
          [state |-> "waiting_for_retry", eligibleAt |-> t + DelayAfter(attempt)]
    BY <1>1 DEF RetryDecision
  <2> QED
    BY <2>4, <2>5 DEF Outcomes
<1>2. CASE ~(retryable /\ attempt < MaxAttempts)
  BY <1>2, SchedulerAssumption DEF RetryDecision, Outcomes
<1> QED
  BY <1>1, <1>2

LEMMA FairnessType ==
  ASSUME NEW counters \in Counters, NEW class
  PROVE  NextFairness(class, counters) \in Counters
BY AdmissionAssumption DEF Counters, NextFairness, Smaller

-----------------------------------------------------------------------------
(* A worker whose grant is active has the latest grant of its job.         *)

LEMMA ActiveIsLatest ==
  ASSUME IInv, NEW w \in Workers, at[w] \in Working, ActiveLease(w)
  PROVE  /\ target[w] \in Jobs
         /\ state[target[w]] = "running"
         /\ lease[target[w]].owner = w
         /\ token[w].generation = lastGeneration[target[w]]
BY DEF IInv, Workmanship, Sited, LeaseIsLatestGrant, ActiveLease, Working

\* No handler but that of the lease's owner runs under the latest grant.
LEMMA OthersAreOver ==
  ASSUME IInv, NEW w \in Workers, at[w] \in Working, ActiveLease(w),
         NEW v \in Workers, v # w, at[v] \in Handling, target[v] = target[w]
  PROVE  /\ token[v].generation # lastGeneration[target[w]]
         /\ until[v] <= clock
<1>1. Owning(v) /\ state[target[w]] = "running" /\ lease[target[w]].owner = w
  BY ActiveIsLatest DEF IInv, Workmanship
<1>2. ASSUME lease[target[w]] = [owner      |-> v,
                                 generation |-> token[v].generation,
                                 expiresAt  |-> until[v]]
      PROVE  FALSE
  BY <1>1, <1>2
<1> QED
  BY <1>1, <1>2 DEF Owning, Terminal

-----------------------------------------------------------------------------
(* Types of the state after each action.                                   *)

StoreType ==
  /\ state \in [Jobs -> JobStates]
  /\ revision \in [Jobs -> Nat]
  /\ eligibleAt \in [Jobs -> 0 .. MaxTime + MaxDelay]
  /\ lease \in [Jobs -> [owner : Workers \cup {"none"}, generation : Nat, expiresAt : Nat]]

WorkerType ==
  /\ at \in [Workers -> Steps]
  /\ now \in [Workers -> 0 .. MaxTime]
  /\ due \in [Workers -> SUBSET Jobs]
  /\ target \in [Workers -> Jobs \cup {NoJob}]
  /\ readRevision \in [Workers -> Nat]
  /\ token \in [Workers -> [generation : Nat, attempts : Nat]]
  /\ until \in [Workers -> Nat]
  /\ release \in [Workers -> [state : Outcomes \cup {"none"},
                              eligibleAt : 0 .. MaxTime + MaxDelay]]
  /\ admitted \in [Workers -> Counters]

LEMMA SettleType ==
  ASSUME TypeOK, NEW j \in Jobs, NEW next \in JobStates, Settle(j, next)
  PROVE  /\ state' \in [Jobs -> JobStates]
         /\ revision' \in [Jobs -> Nat]
         /\ lease' \in [Jobs -> [owner : Workers \cup {"none"}, generation : Nat, expiresAt : Nat]]
<1>1. NoLease \in [owner : Workers \cup {"none"}, generation : Nat, expiresAt : Nat]
  BY DEF NoLease
<1> QED
  BY <1>1 DEF TypeOK, Settle

LEMMA WriteType ==
  ASSUME TypeOK, NEW w \in Workers, target[w] \in Jobs, release[w].state \in Outcomes,
         WriteRelease(w)
  PROVE  StoreType'
<1>1. release[w].state \in JobStates
  BY DEF Outcomes, JobStates, Terminal, Waiting
<1>2. Settle(target[w], release[w].state)
  BY DEF WriteRelease
<1>3. release[w].eligibleAt \in 0 .. MaxTime + MaxDelay
  BY DEF TypeOK
<1>4. eligibleAt' \in [Jobs -> 0 .. MaxTime + MaxDelay]
  BY <1>3 DEF TypeOK, WriteRelease
<1> QED
  BY <1>1, <1>2, <1>4, SettleType DEF StoreType

LEMMA RestType ==
  ASSUME TypeOK, NEW w \in Workers, Rest(w)
  PROVE  WorkerType'
<1>1. /\ NoToken \in [generation : Nat, attempts : Nat]
      /\ NoRelease \in [state : Outcomes \cup {"none"}, eligibleAt : 0 .. MaxTime + MaxDelay]
      /\ InitialFairness \in Counters
      /\ 0 \in 0 .. MaxTime
  BY SchedulerAssumption, AdmissionAssumption
     DEF NoToken, NoRelease, InitialFairness, Counters
<1> QED
  BY <1>1 DEF TypeOK, WorkerType, Rest, Goto, Steps

LEMMA DecideType ==
  ASSUME TypeOK, NEW w \in Workers, Granted(w), at[w] \in Working,
         NEW retryable \in BOOLEAN, Decide(w, retryable)
  PROVE  /\ at' \in [Workers -> Steps] /\ now' \in [Workers -> 0 .. MaxTime]
         /\ release' \in [Workers -> [state : Outcomes \cup {"none"},
                                      eligibleAt : 0 .. MaxTime + MaxDelay]]
         /\ at'[w] = "retry" /\ release'[w].state \in Outcomes
<1> DEFINE chosen == RetryDecision(retryable, token[w].attempts, clock)
<1>1. token[w].attempts \in Nat /\ token[w].attempts >= 1 /\ clock \in 0 .. MaxTime
  BY DEF TypeOK, Granted
<1>2. /\ chosen \in [state : Outcomes \cup {"none"}, eligibleAt : 0 .. MaxTime + MaxDelay]
      /\ chosen.state \in Outcomes
  BY <1>1, RetryType
<1>3. release' = [release EXCEPT ![w] = chosen]
  BY DEF Decide
<1> HIDE DEF chosen
<1> QED
  BY <1>2, <1>3 DEF TypeOK, Decide, Goto, Capture, Steps

\* A counter that one step increments stays a counter.
LEMMA Bumped ==
  ASSUME NEW f \in [Jobs -> Nat], NEW j \in Jobs
  PROVE  [f EXCEPT ![j] = f[j] + 1] \in [Jobs -> Nat]
OBVIOUS

LEMMA TypeStep == TypeOK /\ Workmanship /\ [Next]_vars => TypeOK'
<1> SUFFICES ASSUME TypeOK, Workmanship, [Next]_vars PROVE TypeOK'
  OBVIOUS
<1> USE SchedulerAssumption, AdmissionAssumption DEF TypeOK
<1>1. ASSUME NEW j \in Jobs, Enqueue(j) PROVE TypeOK'
  BY <1>1 DEF Enqueue, memory, grant, JobStates, Waiting
<1>2. ASSUME NEW j \in Jobs, Cancel(j) PROVE TypeOK'
  BY <1>2, SettleType DEF Cancel, memory, grant, JobStates, Terminal
<1>3. ASSUME Tick PROVE TypeOK'
  BY <1>3 DEF Tick, store, memory, grant
<1>4. ASSUME NEW w \in Workers, Begin(w) PROVE TypeOK'
  BY <1>4 DEF Begin, Goto, Capture, store, grant, Steps
<1>5. ASSUME NEW w \in Workers, NEW j \in Jobs, Expire(w, j) PROVE TypeOK'
  BY <1>5, SettleType DEF Expire, grant, JobStates, Terminal
<1>6. ASSUME NEW w \in Workers, Admit(w) PROVE TypeOK'
  <2> PICK j \in Jobs :
         /\ target' = [target EXCEPT ![w] = j]
         /\ readRevision' = [readRevision EXCEPT ![w] = revision[j]]
         /\ admitted' = [admitted EXCEPT ![w] = NextFairness(Priority[j], admitted[w])]
    BY <1>6 DEF Admit
  <2>1. NextFairness(Priority[j], admitted[w]) \in Counters
    BY FairnessType
  <2>2. admitted' \in [Workers -> Counters]
    BY <2>1
  <2> QED
    BY <1>6, <2>2 DEF Admit, Goto, store, Steps
<1>7. ASSUME NEW w \in Workers, FindNothing(w) PROVE TypeOK'
  BY <1>7, RestType DEF FindNothing, WorkerType, store
<1>8. ASSUME NEW w \in Workers, Claim(w) PROVE TypeOK'
  <2>1. target[w] \in Jobs
    BY <1>8 DEF Claim, Workmanship, Sited
  <2>2. lastGeneration[target[w]] + 1 \in Nat /\ attempts[target[w]] + 1 \in Nat
    <3>1. lastGeneration \in [Jobs -> Nat] /\ attempts \in [Jobs -> Nat]
      OBVIOUS
    <3>2. lastGeneration[target[w]] \in Nat /\ attempts[target[w]] \in Nat
      BY <2>1, <3>1, Zenon
    <3> QED
      BY <3>2
  <2>4. now[w] + LeaseDuration \in Nat
    BY now[w] \in 0 .. MaxTime
  <2>5. lease' \in [Jobs -> [owner : Workers \cup {"none"}, generation : Nat, expiresAt : Nat]]
    BY <1>8, <2>1, <2>2, <2>4 DEF Claim
  <2>6. token' \in [Workers -> [generation : Nat, attempts : Nat]]
    BY <1>8, <2>1, <2>2 DEF Claim
  <2>7. until' \in [Workers -> Nat]
    BY <1>8, <2>4 DEF Claim
  <2>8. admitted' \in [Workers -> Counters]
    <3>1. InitialFairness \in Counters
      BY DEF InitialFairness, Counters
    <3> QED
      BY <1>8, <3>1 DEF Claim
  <2> QED
    BY <1>8, <2>1, <2>5, <2>6, <2>7, <2>8 DEF Claim, Goto, Steps, JobStates
<1>9. ASSUME NEW w \in Workers, LoseClaim(w) PROVE TypeOK'
  BY <1>9 DEF LoseClaim, Goto, store, memory, grant, Steps
<1>10. ASSUME NEW w \in Workers, AskRenewal(w) PROVE TypeOK'
  BY <1>10 DEF AskRenewal, Goto, Capture, store, grant, Steps
<1>11. ASSUME NEW w \in Workers, Renew(w) PROVE TypeOK'
  <2>1. target[w] \in Jobs
    BY <1>11 DEF Renew, Workmanship, Sited, Working, Handling
  <2>2. CASE ActiveLease(w)
    <3>1. /\ [owner |-> w, generation |-> token[w].generation,
              expiresAt |-> now[w] + LeaseDuration]
               \in [owner : Workers \cup {"none"}, generation : Nat, expiresAt : Nat]
          /\ now[w] + LeaseDuration \in Nat
      OBVIOUS
    <3>2. lease' \in [Jobs -> [owner : Workers \cup {"none"}, generation : Nat, expiresAt : Nat]]
      <4> DEFINE l == [owner |-> w, generation |-> token[w].generation,
                       expiresAt |-> now[w] + LeaseDuration]
      <4>1. lease' = [lease EXCEPT ![target[w]] = l]
        BY <1>11, <2>2 DEF Renew
      <4> HIDE DEF l
      <4> QED  BY <2>1, <3>1, <4>1 DEF l
    <3>3. until' \in [Workers -> Nat]
      BY <1>11, <2>2, <3>1 DEF Renew
    <3>4. now' = [now EXCEPT ![w] = 0] /\ at' = [at EXCEPT ![w] = "handle"]
      BY <1>11, <2>2 DEF Renew, Goto
    <3>7. now' \in [Workers -> 0 .. MaxTime] /\ at' \in [Workers -> Steps]
      BY <3>4 DEF Steps
    <3>8. revision' = [revision EXCEPT ![target[w]] = revision[target[w]] + 1]
      BY <1>11, <2>2 DEF Renew
    <3>9. revision \in [Jobs -> Nat]
      OBVIOUS
    <3>5. revision' \in [Jobs -> Nat]
      BY <2>1, <3>8, <3>9, Bumped, Zenon
    <3>6. UNCHANGED <<state, eligibleAt, due, target, readRevision, token,
                      release, fairness, admitted, clock, attempts, lastGeneration, faults>>
      BY <1>11, <2>2 DEF Renew
    <3> QED
      BY <3>2, <3>3, <3>5, <3>6, <3>7
  <2>3. CASE ~ActiveLease(w)
    BY <1>11, <2>3, RestType DEF Renew, Fenced, WorkerType
  <2> QED
    BY <2>2, <2>3
<1>12. ASSUME NEW w \in Workers, HandlerReturns(w) PROVE TypeOK'
  BY <1>12 DEF HandlerReturns, Goto, Capture, store, grant, Steps, Outcomes
<1>13. ASSUME NEW w \in Workers, HandlerThrows(w) PROVE TypeOK'
  BY <1>13, DecideType DEF HandlerThrows, Workmanship, Working, Handling, store, grant
<1>14. ASSUME NEW w \in Workers, Release(w) PROVE TypeOK'
  <2>1. target[w] \in Jobs /\ release[w].state \in Outcomes /\ Granted(w) /\ at[w] \in Working
    BY <1>14 DEF Release, Workmanship, Sited, Working
  <2>2. CASE WriteRelease(w) /\ Rest(w) /\ UNCHANGED fairness
    BY <1>14, <2>1, <2>2, WriteType, RestType DEF Release, StoreType, WorkerType
  <2>3. CASE Fenced(w)
    BY <1>14, <2>3, RestType DEF Release, Fenced, WorkerType
  <2>4. CASE Decide(w, TRUE) /\ UNCHANGED <<state, revision, eligibleAt, lease,
                                            due, target, grant, fairness, admitted>>
    BY <1>14, <2>1, <2>4, DecideType DEF Release, grant
  <2> QED
    BY <1>14, <2>2, <2>3, <2>4 DEF Release
<1>15. ASSUME NEW w \in Workers, ReleaseAfterError(w) PROVE TypeOK'
  <2>1. target[w] \in Jobs /\ release[w].state \in Outcomes
    BY <1>15 DEF ReleaseAfterError, Workmanship, Sited, Working
  <2>2. CASE WriteRelease(w) /\ Rest(w) /\ UNCHANGED fairness
    BY <1>15, <2>1, <2>2, WriteType, RestType DEF ReleaseAfterError, StoreType, WorkerType
  <2>3. CASE Fenced(w)
    BY <1>15, <2>3, RestType DEF ReleaseAfterError, Fenced, WorkerType
  <2> QED
    BY <1>15, <2>2, <2>3 DEF ReleaseAfterError
<1>16. ASSUME NEW w \in Workers, ReleaseAnswerLost(w) PROVE TypeOK'
  <2>1. target[w] \in Jobs /\ release[w].state \in Outcomes /\ Granted(w) /\ at[w] \in Working
    BY <1>16 DEF ReleaseAnswerLost, Workmanship, Sited, Working
  <2>2. StoreType'
    BY <1>16, <2>1, WriteType DEF ReleaseAnswerLost, StoreType
  <2>3. faults' \in 0 .. MaxFaults
    BY <1>16 DEF ReleaseAnswerLost, Fault
  <2> QED
    BY <1>16, <2>1, <2>2, <2>3, DecideType DEF ReleaseAnswerLost, StoreType, grant
<1>17. ASSUME NEW w \in Workers, CallFails(w) PROVE TypeOK'
  BY <1>17, RestType DEF CallFails, Fault, WorkerType, store
<1>18. ASSUME NEW w \in Workers, Crash(w) PROVE TypeOK'
  <2>1. InitialFairness \in Counters
    BY DEF InitialFairness, Counters
  <2> QED
    BY <1>18, <2>1, RestType DEF Crash, Fault, WorkerType, store
<1>19. CASE UNCHANGED vars
  BY <1>19 DEF vars, store, memory, grant
<1> QED
  BY <1>1, <1>2, <1>3, <1>4, <1>5, <1>6, <1>7, <1>8, <1>9, <1>10,
     <1>11, <1>12, <1>13, <1>14, <1>15, <1>16, <1>17, <1>18, <1>19
     DEF Next, Producer, Worker, Pass

-----------------------------------------------------------------------------
(* What a step leaves true of the workers that do not take it.             *)

Same(v) ==
  /\ at'[v] = at[v] /\ target'[v] = target[v] /\ now'[v] = now[v]
  /\ readRevision'[v] = readRevision[v] /\ token'[v] = token[v]
  /\ until'[v] = until[v] /\ release'[v] = release[v]

Sound(v) == Sited(v) /\ Claimable(v) /\ Granted(v) /\ Owning(v)

LEMMA Bystander ==
  ASSUME TypeOK, NEW v \in Workers, Sound(v), Same(v), UNCHANGED store,
         clock' \in Nat, clock <= clock'
  PROVE  Sound(v)'
<1>1. Sited(v)'
  BY SchedulerAssumption DEF TypeOK, Sound, Sited, Same
<1>2. Claimable(v)'
  BY DEF Sound, Claimable, LeaseExpired, Same, store
<1>3. Granted(v)'
  BY DEF Sound, Granted, Same, store
<1>4. Owning(v)'
  BY DEF TypeOK, Sound, Owning, Same, store
<1> QED
  BY <1>1, <1>2, <1>3, <1>4 DEF Sound

\* Only job j is written, at a new revision.
Writes(j) ==
  /\ state'[j] # "absent"
  /\ revision'[j] = revision[j] + 1
  /\ lastGeneration'[j] >= lastGeneration[j]
  /\ \A k \in Jobs \ {j} :
       /\ state'[k] = state[k] /\ revision'[k] = revision[k]
       /\ lease'[k] = lease[k] /\ lastGeneration'[k] = lastGeneration[k]

LEMMA BystanderOfWrite ==
  ASSUME TypeOK, TypeOK', NEW v \in Workers, Sound(v), Same(v), clock' = clock,
         NEW j \in Jobs, Writes(j),
         at[v] \in Handling /\ target[v] = j => Owning(v)'
  PROVE  Sound(v)'
<1>1. Sited(v)'
  BY DEF Sound, Sited, Same
<1>2. Claimable(v)'
  <2> SUFFICES ASSUME at[v] = "claim" PROVE Claimable(v)'
    BY DEF Claimable, Same
  <2>1. target[v] \in Jobs
    BY DEF Sound, Sited
  <2>2. CASE target[v] = j
    <3>1. readRevision[v] <= revision[j] /\ readRevision[v] \in Nat /\ revision[j] \in Nat
      BY <2>2 DEF Sound, Claimable, TypeOK
    <3>2. /\ revision'[target'[v]] = revision[j] + 1 /\ readRevision'[v] = readRevision[v]
          /\ state'[target'[v]] # "absent"
      BY <2>2 DEF Writes, Same
    <3> QED
      BY <3>1, <3>2 DEF Claimable
  <2>3. CASE target[v] # j
    BY <2>1, <2>3 DEF Sound, Claimable, Writes, Same, LeaseExpired
  <2> QED
    BY <2>2, <2>3
<1>3. Granted(v)'
  <2> SUFFICES ASSUME at[v] \in Working PROVE Granted(v)'
    BY DEF Granted, Same
  <2>1. target[v] \in Jobs
    BY DEF Sound, Sited
  <2>2. lastGeneration[target[v]] \in Nat /\ lastGeneration'[target[v]] \in Nat
        /\ lastGeneration[target[v]] <= lastGeneration'[target[v]]
    BY <2>1 DEF TypeOK, Writes
  <2>3. token[v].generation \in Nat
    BY DEF TypeOK
  <2> QED
    BY <2>2, <2>3 DEF Sound, Granted, Same
<1>4. Owning(v)'
  <2> SUFFICES ASSUME at[v] \in Handling, target[v] # j PROVE Owning(v)'
    BY DEF Owning, Same
  <2>1. target[v] \in Jobs
    BY DEF Sound, Sited, Working
  <2> QED
    BY <2>1 DEF Sound, Owning, Writes, Same
<1> QED
  BY <1>1, <1>2, <1>3, <1>4 DEF Sound

\* A worker at rest claims nothing.
LEMMA Resting ==
  ASSUME TypeOK', NEW w \in Workers, at'[w] \in {"idle", "sweep", "admit"}, now'[w] <= clock'
  PROVE  Sound(w)'
BY DEF Sound, Sited, Claimable, Granted, Owning, Working, Handling

\* Only a claim puts a worker to handling.
LEMMA SeparationKept ==
  ASSUME Separation,
         \A v \in Workers : at'[v] \in Handling =>
           at[v] \in Handling /\ target'[v] = target[v] /\ token'[v] = token[v]
  PROVE  Separation'
BY DEF Separation, Apart

LEMMA RestingStep ==
  ASSUME IInv, TypeOK', NEW w \in Workers, Rest(w), UNCHANGED <<clock, store>>
  PROVE  IInv'
<1>1. Sound(w)'
  <2>1. at'[w] = "idle" /\ now'[w] = 0
    BY DEF IInv, TypeOK, Rest, Goto
  <2>2. clock' \in Nat
    BY SchedulerAssumption DEF TypeOK
  <2> QED
    BY <2>1, <2>2, Resting
<1>2. ASSUME NEW v \in Workers, v # w PROVE Sound(v)'
  <2>1. Same(v)
    BY <1>2 DEF IInv, TypeOK, Rest, Goto, Same
  <2>2. Sound(v) /\ clock' \in Nat /\ clock <= clock'
    BY SchedulerAssumption DEF IInv, Workmanship, Sound, TypeOK
  <2> QED
    BY <2>1, <2>2, Bystander DEF IInv
<1>3. Separation'
  BY SeparationKept DEF IInv, TypeOK, Rest, Goto, Handling
<1>4. LeaseIsLatestGrant'
  BY DEF IInv, LeaseIsLatestGrant, store
<1> QED
  BY <1>1, <1>2, <1>3, <1>4 DEF IInv, Workmanship, Sound

\* Only a step that ends in handling could disturb what separates two handlers.
Keeps(w) == at'[w] \in Handling =>
              at[w] \in Handling /\ target'[w] = target[w] /\ token'[w] = token[w]

LEMMA PrivateStep ==
  ASSUME IInv, TypeOK', NEW w \in Workers, Sound(w)', Keeps(w),
         \A v \in Workers \ {w} : Same(v), UNCHANGED <<clock, store>>
  PROVE  IInv'
<1>1. ASSUME NEW v \in Workers, v # w PROVE Sound(v)'
  <2>1. Same(v)
    BY <1>1
  <2>2. Sound(v) /\ clock' \in Nat /\ clock <= clock'
    BY SchedulerAssumption DEF IInv, Workmanship, Sound, TypeOK
  <2> QED
    BY <2>1, <2>2, Bystander DEF IInv
<1>2. Separation'
  BY SeparationKept DEF IInv, Same, Keeps
<1>3. LeaseIsLatestGrant'
  BY DEF IInv, LeaseIsLatestGrant, store
<1> QED
  BY <1>1, <1>2, <1>3 DEF IInv, Workmanship, Sound

LEMMA WriteStep ==
  ASSUME IInv, TypeOK', NEW w \in Workers, Sound(w)', Keeps(w),
         \A v \in Workers \ {w} : Same(v), clock' = clock,
         NEW j \in Jobs, Writes(j), LeaseIsLatestGrant',
         \A v \in Workers \ {w} : at[v] \in Handling /\ target[v] = j => Owning(v)'
  PROVE  IInv'
<1>1. ASSUME NEW v \in Workers, v # w PROVE Sound(v)'
  <2>1. Same(v) /\ Sound(v)
    BY <1>1 DEF IInv, Workmanship, Sound
  <2> QED
    BY <1>1, <2>1, BystanderOfWrite DEF IInv
<1>2. Separation'
  BY SeparationKept DEF IInv, Same, Keeps
<1> QED
  BY <1>1, <1>2 DEF IInv, Workmanship, Sound

LEMMA SettleWrites ==
  ASSUME IInv, NEW j \in Jobs, NEW next \in JobStates \ {"absent", "running"}, Settle(j, next),
         UNCHANGED <<attempts, lastGeneration>>
  PROVE  Writes(j) /\ LeaseIsLatestGrant'
<1>1. Writes(j)
  BY DEF IInv, TypeOK, Settle, Writes
<1>2. LeaseIsLatestGrant'
  BY DEF IInv, TypeOK, LeaseIsLatestGrant, Settle
<1> QED
  BY <1>1, <1>2

\* A handler whose job has ended still satisfies Owning.
LEMMA OwningOfEnded ==
  ASSUME IInv, NEW v \in Workers, Same(v), UNCHANGED <<clock, lastGeneration>>,
         NEW j \in Jobs, state'[j] \in Terminal, at[v] \in Handling, target[v] = j
  PROVE  Owning(v)'
BY DEF IInv, Workmanship, Owning, Same

\* A handler of a job whose lease another worker holds keeps what it has: nothing.
LEMMA OwningOfOther ==
  ASSUME IInv, NEW w \in Workers, at[w] \in Working, ActiveLease(w),
         NEW v \in Workers, v # w, Same(v), UNCHANGED <<clock, lastGeneration>>,
         at[v] \in Handling, target[v] = target[w]
  PROVE  Owning(v)'
BY OthersAreOver DEF Owning, Same

-----------------------------------------------------------------------------
(* The invariant is inductive.                                             *)

\* The write of a release under an active lease, whatever the worker does then.
LEMMA ReleaseWrite ==
  ASSUME IInv, TypeOK', NEW w \in Workers, at[w] \in {"release", "retry"}, ActiveLease(w),
         WriteRelease(w), Sound(w)', at'[w] \notin Handling,
         \A v \in Workers \ {w} : Same(v), UNCHANGED <<clock, attempts, lastGeneration>>
  PROVE  IInv'
<1>1. target[w] \in Jobs /\ at[w] \in Working
  BY ActiveIsLatest DEF Working
<1>2. release[w].state \in JobStates \ {"absent", "running"}
  BY DEF IInv, Workmanship, Sited, Outcomes, JobStates, Terminal, Waiting
<1>3. Writes(target[w]) /\ LeaseIsLatestGrant'
  BY <1>1, <1>2, SettleWrites DEF WriteRelease
<1>4. \A v \in Workers \ {w} : at[v] \in Handling /\ target[v] = target[w] => Owning(v)'
  BY <1>1, OwningOfOther
<1> QED
  BY <1>1, <1>3, <1>4, WriteStep DEF Keeps

LEMMA RestIsSound ==
  ASSUME IInv, TypeOK', NEW w \in Workers, Rest(w), clock' = clock
  PROVE  /\ Sound(w)' /\ at'[w] = "idle"
         /\ \A v \in Workers \ {w} : Same(v)
<1>1. at'[w] = "idle" /\ now'[w] = 0 /\ clock' \in Nat
  BY SchedulerAssumption DEF IInv, TypeOK, Rest, Goto
<1>2. Sound(w)'
  BY <1>1, Resting
<1>3. \A v \in Workers \ {w} : Same(v)
  BY DEF IInv, TypeOK, Rest, Goto, Same
<1> QED
  BY <1>1, <1>2, <1>3

\* A worker that decides on a retry keeps its grant and leaves its handler.
LEMMA DecideIsSound ==
  ASSUME IInv, TypeOK', NEW w \in Workers, at[w] \in Working,
         NEW retryable \in BOOLEAN, Decide(w, retryable),
         UNCHANGED <<clock, lastGeneration, target, grant>>
  PROVE  /\ Sound(w)' /\ at'[w] = "retry"
         /\ \A v \in Workers \ {w} : Same(v)
<1>1. Sited(w) /\ Granted(w) /\ TypeOK
  BY DEF IInv, Workmanship
<1>2. at'[w] = "retry" /\ release'[w].state \in Outcomes
  BY <1>1, DecideType
<1>3. now'[w] = clock
  BY <1>1 DEF TypeOK, Decide, Capture
<1>4. Sited(w)'
  BY <1>1, <1>2, <1>3, SchedulerAssumption DEF Sited, TypeOK
<1>5. Claimable(w)' /\ Owning(w)'
  BY <1>2 DEF Claimable, Owning, Handling
<1>6. Granted(w)'
  BY <1>1 DEF Granted, grant
<1>7. \A v \in Workers \ {w} : Same(v)
  BY <1>1 DEF TypeOK, Decide, Goto, Capture, Same, grant
<1> QED
  BY <1>2, <1>4, <1>5, <1>6, <1>7 DEF Sound

\* What is selected was a candidate.
LEMMA SelectedIsCandidate ==
  ASSUME NEW j, NEW candidates, NEW eligible, NEW t, NEW counters,
         Selects(j, candidates, eligible, t, counters)
  PROVE  j \in candidates
BY DEF Selects, Heads, Favoured, OfClass

LEMMA CancelStep ==
  ASSUME IInv, TypeOK', NEW j \in Jobs, Cancel(j)
  PROVE  IInv'
<1>1. UNCHANGED <<clock, attempts, lastGeneration>> /\ Settle(j, "canceled")
  BY DEF Cancel
<1>2. Writes(j) /\ LeaseIsLatestGrant'
  <2>1. "canceled" \in JobStates \ {"absent", "running"}
    BY DEF JobStates, Terminal
  <2> QED
    BY <1>1, <2>1, SettleWrites
<1>3. state'[j] \in Terminal
  BY <1>1 DEF IInv, TypeOK, Settle, Terminal
<1>4. ASSUME NEW v \in Workers PROVE Sound(v)'
  <2>1. Same(v) /\ Sound(v)
    BY DEF Cancel, memory, grant, Same, IInv, Workmanship, Sound
  <2>2. at[v] \in Handling /\ target[v] = j => Owning(v)'
    BY <1>1, <1>3, <2>1, OwningOfEnded
  <2> QED
    BY <1>1, <1>2, <2>1, <2>2, BystanderOfWrite DEF IInv
<1>5. Separation'
  BY SeparationKept DEF IInv, Cancel, memory, grant
<1> QED
  BY <1>2, <1>4, <1>5 DEF IInv, Workmanship, Sound

LEMMA EnqueueStep ==
  ASSUME IInv, TypeOK', NEW j \in Jobs, Enqueue(j)
  PROVE  IInv'
<1>1. LeaseIsLatestGrant'
  BY DEF IInv, TypeOK, LeaseIsLatestGrant, Enqueue
<1>2. ASSUME NEW v \in Workers PROVE Sound(v)'
  <2>1. Same(v) /\ Sound(v) /\ TypeOK
    BY DEF Enqueue, memory, grant, Same, IInv, Workmanship, Sound
  <2>2. Sited(v)'
    BY <2>1 DEF Sound, Sited, Same, Enqueue
  <2>3. Claimable(v)'
    <3> SUFFICES ASSUME at[v] = "claim" PROVE Claimable(v)'
      BY <2>1 DEF Claimable, Same
    <3>1. target[v] \in Jobs
      BY <2>1 DEF Sound, Sited
    <3>2. target[v] # j
      BY <2>1 DEF Sound, Claimable, Enqueue
    <3> QED
      BY <2>1, <3>1, <3>2 DEF TypeOK, Sound, Claimable, LeaseExpired, Enqueue, Same
  <2>4. Granted(v)'
    BY <2>1 DEF Sound, Granted, Same, Enqueue
  <2>5. Owning(v)'
    <3> SUFFICES ASSUME at[v] \in Handling PROVE Owning(v)'
      BY <2>1 DEF Owning, Same
    <3>1. CASE target[v] = j
      <4>1. attempts[j] = lastGeneration[j]
        BY DEF IInv, LeaseIsLatestGrant
      <4> QED
        BY <2>1, <3>1 DEF Sound, Owning, Same, Enqueue, Terminal
    <3>2. CASE target[v] # j
      BY <2>1, <3>2 DEF TypeOK, Sound, Owning, Same, Enqueue
    <3> QED
      BY <3>1, <3>2
  <2> QED
    BY <2>2, <2>3, <2>4, <2>5 DEF Sound
<1>3. Separation'
  BY SeparationKept DEF IInv, Enqueue, memory, grant
<1> QED
  BY <1>1, <1>2, <1>3 DEF IInv, Workmanship, Sound

LEMMA TickStep == ASSUME IInv, TypeOK', Tick PROVE IInv'
<1>1. ASSUME NEW v \in Workers PROVE Sound(v)'
  <2>1. Same(v) /\ Sound(v) /\ UNCHANGED store
    BY DEF Tick, memory, grant, Same, IInv, Workmanship, Sound
  <2>2. clock' \in Nat /\ clock <= clock'
    BY SchedulerAssumption DEF IInv, TypeOK, Tick
  <2> QED
    BY <2>1, <2>2, Bystander DEF IInv
<1>2. Separation' /\ LeaseIsLatestGrant'
  BY SeparationKept DEF IInv, LeaseIsLatestGrant, Tick, memory, grant, store
<1> QED
  BY <1>1, <1>2 DEF IInv, Workmanship, Sound

LEMMA ExpireStep ==
  ASSUME IInv, TypeOK', NEW w \in Workers, NEW j \in Jobs, Expire(w, j)
  PROVE  IInv'
<1>1. \A v \in Workers : Same(v)
  BY DEF Expire, grant, Same
<1>2. Sound(w)'
  <2>1. at'[w] = "sweep" /\ now'[w] <= clock'
    BY DEF Expire, IInv, Workmanship, Sited
  <2> QED
    BY <2>1, Resting
<1>3. CASE Live(j)
  <2>1. Settle(j, "failed") /\ UNCHANGED <<clock, attempts, lastGeneration>>
    BY <1>3 DEF Expire
  <2>2. Writes(j) /\ LeaseIsLatestGrant'
    <3>1. "failed" \in JobStates \ {"absent", "running"}
      BY DEF JobStates, Terminal
    <3> QED
      BY <2>1, <3>1, SettleWrites
  <2>3. state'[j] \in Terminal
    BY <2>1 DEF IInv, TypeOK, Settle, Terminal
  <2>4. \A v \in Workers \ {w} : at[v] \in Handling /\ target[v] = j => Owning(v)'
    BY <1>1, <2>1, <2>3, OwningOfEnded
  <2> QED
    BY <1>1, <1>2, <2>1, <2>2, <2>4, WriteStep DEF Keeps, Same
<1>4. CASE ~Live(j)
  <2>1. UNCHANGED <<clock, store>>
    BY <1>4 DEF Expire, store
  <2> QED
    BY <1>1, <1>2, <2>1, PrivateStep DEF Keeps, Same
<1> QED
  BY <1>3, <1>4

LEMMA BeginStep == ASSUME IInv, TypeOK', NEW w \in Workers, Begin(w) PROVE IInv'
<1>1. at'[w] = "sweep" /\ now'[w] = clock /\ clock' = clock /\ clock \in Nat
  BY SchedulerAssumption DEF IInv, TypeOK, Begin, Goto, Capture
<1>2. Sound(w)' /\ Keeps(w)
  BY <1>1, Resting DEF Keeps, Handling
<1>3. \A v \in Workers \ {w} : Same(v)
  BY DEF IInv, TypeOK, Begin, Goto, Capture, grant, Same
<1> QED
  BY <1>2, <1>3, PrivateStep DEF Begin

LEMMA AdmitStep == ASSUME IInv, TypeOK', NEW w \in Workers, Admit(w) PROVE IInv'
<1>1. PICK j \in Jobs :
        /\ Selects(j, Candidates(now[w]), eligibleAt, now[w], admitted[w])
        /\ target' = [target EXCEPT ![w] = j]
        /\ readRevision' = [readRevision EXCEPT ![w] = revision[j]]
  BY DEF Admit
<1>2. j \in Candidates(now[w])
  BY <1>1, SelectedIsCandidate
<1>3. state[j] \in Waiting \/ LeaseExpired(j, now[w])
  BY <1>2 DEF Candidates
<1>4. at'[w] = "claim" /\ target'[w] = j /\ readRevision'[w] = revision[j]
  BY <1>1 DEF IInv, TypeOK, Admit, Goto
<1>5. UNCHANGED <<clock, store, now>>
  BY DEF Admit
<1>6. Sound(w)'
  <2>1. Sited(w)'
    BY <1>4, <1>5 DEF Sited, IInv, Workmanship
  <2>2. Claimable(w)'
    <3>1. state[j] # "absent" /\ revision[j] \in Nat
      BY <1>3 DEF Waiting, LeaseExpired, IInv, TypeOK
    <3> QED
      BY <1>3, <1>4, <1>5, <3>1 DEF Claimable, LeaseExpired, store
  <2>3. Granted(w)' /\ Owning(w)'
    BY <1>4 DEF Granted, Owning, Working, Handling
  <2> QED
    BY <2>1, <2>2, <2>3 DEF Sound
<1>7. \A v \in Workers \ {w} : Same(v)
  BY <1>1 DEF IInv, TypeOK, Admit, Goto, Same
<1> QED
  BY <1>4, <1>5, <1>6, <1>7, PrivateStep DEF Keeps, Handling

LEMMA LoseClaimStep == ASSUME IInv, TypeOK', NEW w \in Workers, LoseClaim(w) PROVE IInv'
<1>1. at'[w] = "admit" /\ now'[w] <= clock'
  BY DEF IInv, TypeOK, Workmanship, Sited, LoseClaim, Goto, memory
<1>2. Sound(w)' /\ Keeps(w)
  BY <1>1, Resting DEF Keeps, Handling
<1>3. \A v \in Workers \ {w} : Same(v)
  BY DEF IInv, TypeOK, LoseClaim, Goto, memory, grant, Same
<1> QED
  BY <1>2, <1>3, PrivateStep DEF LoseClaim

LEMMA ClaimStep == ASSUME IInv, TypeOK', NEW w \in Workers, Claim(w) PROVE IInv'
<1> DEFINE j   == target[w]
           gen == lastGeneration[j] + 1
<1>1. /\ TypeOK /\ LeaseIsLatestGrant /\ Sited(w) /\ Claimable(w)
      /\ at[w] = "claim" /\ revision[j] = readRevision[w]
  BY DEF IInv, Workmanship, Claim
<1>2. j \in Jobs /\ (state[j] \in Waiting \/ LeaseExpired(j, now[w])) /\ now[w] <= clock
  BY <1>1 DEF Sited, Claimable
<1>3. /\ lastGeneration[j] \in Nat /\ attempts[j] \in Nat
      /\ attempts[j] = lastGeneration[j]
      /\ now[w] \in Nat /\ clock \in Nat
  BY <1>1, <1>2, SchedulerAssumption DEF TypeOK, LeaseIsLatestGrant
<1>4. /\ state'[j] = "running" /\ lastGeneration'[j] = gen
      /\ attempts'[j] = attempts[j] + 1
      /\ lease'[j] = [owner |-> w, generation |-> gen, expiresAt |-> now[w] + LeaseDuration]
  BY <1>1, <1>2 DEF TypeOK, Claim
<1>5. /\ at'[w] = "handle" /\ target' = target /\ now'[w] = 0 /\ clock' = clock
      /\ token'[w] = [generation |-> gen, attempts |-> attempts[j] + 1]
      /\ until'[w] = now[w] + LeaseDuration
  BY <1>1 DEF TypeOK, Claim, Goto
<1>6. Writes(j)
  BY <1>1, <1>2, <1>3 DEF TypeOK, Claim, Writes
<1>7. \A v \in Workers \ {w} : Same(v)
  BY <1>1 DEF TypeOK, Claim, Goto, Same
<1> HIDE DEF gen, j
<1>8. LeaseIsLatestGrant'
  <2> SUFFICES ASSUME NEW k \in Jobs
               PROVE  /\ state'[k] = "running" <=> lease'[k] # NoLease
                      /\ state'[k] = "running" => lease'[k].generation = lastGeneration'[k]
                      /\ attempts'[k] = lastGeneration'[k]
    BY DEF LeaseIsLatestGrant
  <2>1. CASE k = j
    <3>1. gen # 0 /\ gen = attempts[j] + 1
      BY <1>3 DEF gen
    <3> QED
      BY <1>4, <2>1, <3>1 DEF NoLease
  <2>2. CASE k # j
    <3>1. attempts'[k] = attempts[k]
      BY <1>1, <2>2 DEF Claim, TypeOK, j
    <3> QED
      BY <1>1, <1>6, <2>2, <3>1 DEF Writes, LeaseIsLatestGrant
  <2> QED
    BY <2>1, <2>2
<1>9. Sound(w)'
  <2>1. Sited(w)' /\ Claimable(w)'
    BY <1>2, <1>3, <1>5 DEF Sited, Claimable, j
  <2>2. Granted(w)'
    BY <1>3, <1>4, <1>5 DEF Granted, gen, j
  <2>3. Owning(w)'
    BY <1>4, <1>5 DEF Owning, j
  <2> QED
    BY <2>1, <2>2, <2>3 DEF Sound
<1>10. ASSUME NEW v \in Workers, v # w, at[v] \in Handling, target[v] = j
       PROVE  Owning(v)' /\ token[v].generation < gen
  <2>1. Owning(v) /\ Granted(v) /\ Same(v) /\ at[v] \in Working
    BY <1>7, <1>10 DEF IInv, Workmanship, Working
  <2>2. token[v].generation <= lastGeneration[j] /\ token[v].generation \in Nat
    BY <1>1, <1>10, <2>1 DEF Granted, TypeOK
  <2>3. until[v] <= clock
    <3>1. CASE token[v].generation = lastGeneration[j]
      <4>1. state[j] \notin Terminal
        BY <1>2 DEF Waiting, LeaseExpired, Terminal
      <4>2. state[j] = "running" /\ lease[j].expiresAt = until[v]
        BY <1>10, <2>1, <3>1, <4>1 DEF Owning
      <4>3. until[v] <= now[w] /\ until[v] \in Nat
        BY <1>1, <1>2, <4>2 DEF Waiting, LeaseExpired, TypeOK
      <4> QED
        BY <1>2, <1>3, <4>3
    <3>2. CASE token[v].generation # lastGeneration[j]
      BY <1>10, <2>1, <3>2 DEF Owning
    <3> QED
      BY <3>1, <3>2
  <2>4. token[v].generation < gen
    BY <1>3, <2>2 DEF gen
  <2>5. token'[v].generation # lastGeneration'[target'[v]]
    BY <1>4, <1>5, <1>10, <2>1, <2>2, <2>4, <1>3 DEF Same, gen
  <2> QED
    BY <1>5, <2>1, <2>3, <2>4, <2>5 DEF Owning, Same
<1>11. ASSUME NEW v \in Workers, v # w PROVE Sound(v)'
  <2>1. Same(v) /\ Sound(v)
    BY <1>7, <1>11 DEF IInv, Workmanship, Sound
  <2> QED
    BY <1>1, <1>2, <1>5, <1>6, <1>10, <1>11, <2>1, BystanderOfWrite
<1>12. Separation'
  <2> SUFFICES ASSUME NEW u \in Workers, NEW v \in Workers PROVE Apart(u, v)'
    BY DEF Separation
  <2>1. CASE u # w /\ v # w
    BY <1>7, <2>1 DEF IInv, Separation, Apart, Same
  <2>2. CASE u = w /\ v # w
    <3> SUFFICES ASSUME at'[v] \in Handling, target'[v] = target'[w]
                 PROVE  token'[v].generation # token'[w].generation
      BY <2>2 DEF Apart
    <3>1. token[v].generation < gen /\ token'[v] = token[v]
      BY <1>5, <1>7, <1>10, <2>2 DEF Same, j
    <3>2. token[v].generation \in Nat /\ gen \in Nat
      BY <1>1, <1>3 DEF TypeOK, gen
    <3> QED
      BY <1>5, <3>1, <3>2
  <2>3. CASE v = w /\ u # w
    <3> SUFFICES ASSUME at'[u] \in Handling, target'[u] = target'[w]
                 PROVE  token'[u].generation # token'[w].generation
      BY <2>3 DEF Apart
    <3>1. token[u].generation < gen /\ token'[u] = token[u]
      BY <1>5, <1>7, <1>10, <2>3 DEF Same, j
    <3>2. token[u].generation \in Nat /\ gen \in Nat
      BY <1>1, <1>3 DEF TypeOK, gen
    <3> QED
      BY <1>5, <3>1, <3>2
  <2>4. CASE u = w /\ v = w
    BY <2>4 DEF Apart
  <2> QED
    BY <2>1, <2>2, <2>3, <2>4
<1> QED
  BY <1>8, <1>9, <1>11, <1>12 DEF IInv, Workmanship, Sound

LEMMA AskStep == ASSUME IInv, TypeOK', NEW w \in Workers, AskRenewal(w) PROVE IInv'
<1>1. /\ at[w] = "handle" /\ at'[w] = "renew" /\ now'[w] = clock /\ clock \in Nat
      /\ UNCHANGED <<clock, store, target, grant>>
  BY SchedulerAssumption DEF IInv, TypeOK, AskRenewal, Goto, Capture
<1>2. Sited(w)' /\ Claimable(w)'
  BY <1>1 DEF IInv, Workmanship, Sited, Claimable, Working, Handling
<1>3. Granted(w)' /\ Owning(w)'
  BY <1>1 DEF IInv, Workmanship, Granted, Owning, Working, Handling, grant, store
<1>4. \A v \in Workers \ {w} : Same(v)
  BY DEF IInv, TypeOK, AskRenewal, Goto, Capture, grant, Same
<1> QED
  BY <1>1, <1>2, <1>3, <1>4, PrivateStep DEF Keeps, Sound, Handling, grant

LEMMA RenewStep == ASSUME IInv, TypeOK', NEW w \in Workers, Renew(w) PROVE IInv'
<1>1. at[w] = "renew" /\ UNCHANGED <<clock, attempts, lastGeneration>>
  BY DEF Renew
<1>2. CASE ActiveLease(w)
  <2> DEFINE j == target[w]
  <2>1. /\ j \in Jobs /\ state[j] = "running" /\ token[w].generation = lastGeneration[j]
        /\ Sited(w) /\ Granted(w) /\ token[w].generation \in Nat /\ clock \in Nat
    BY <1>1, <1>2, ActiveIsLatest, SchedulerAssumption
       DEF IInv, TypeOK, Workmanship, Working, Handling
  <2>2. /\ lease' = [lease EXCEPT ![j] =
                       [owner |-> w, generation |-> token[w].generation,
                        expiresAt |-> now[w] + LeaseDuration]]
        /\ revision' = [revision EXCEPT ![j] = @ + 1]
        /\ until' = [until EXCEPT ![w] = now[w] + LeaseDuration]
        /\ at' = [at EXCEPT ![w] = "handle"] /\ now' = [now EXCEPT ![w] = 0]
        /\ UNCHANGED <<state, target, readRevision, token, release>>
    BY <1>2 DEF Renew, Goto
  <2>3. Writes(j)
    BY <1>1, <2>1, <2>2 DEF IInv, TypeOK, Writes
  <2>4. \A v \in Workers \ {w} : Same(v)
    BY <2>2 DEF IInv, TypeOK, Same
  <2>5. lease'[j] = [owner |-> w, generation |-> token[w].generation,
                     expiresAt |-> now[w] + LeaseDuration]
    BY <2>1, <2>2 DEF IInv, TypeOK
  <2>6. LeaseIsLatestGrant'
    <3> SUFFICES ASSUME NEW k \in Jobs
                 PROVE  /\ state'[k] = "running" <=> lease'[k] # NoLease
                        /\ state'[k] = "running" => lease'[k].generation = lastGeneration'[k]
                        /\ attempts'[k] = lastGeneration'[k]
      BY DEF LeaseIsLatestGrant
    <3>1. CASE k = j
      <4>1. token[w].generation # 0
        BY <1>1, <2>1 DEF Granted, Working, Handling
      <4> QED
        BY <1>1, <2>1, <2>2, <2>5, <3>1, <4>1 DEF NoLease, IInv, LeaseIsLatestGrant
    <3>2. CASE k # j
      BY <1>1, <2>3, <3>2 DEF Writes, IInv, LeaseIsLatestGrant
    <3> QED
      BY <3>1, <3>2
  <2>7. Sound(w)'
    <3>1. at'[w] = "handle" /\ now'[w] = 0 /\ until'[w] = now[w] + LeaseDuration
      BY <2>2 DEF IInv, TypeOK
    <3>2. Sited(w)' /\ Claimable(w)'
      BY <1>1, <2>1, <2>2, <3>1 DEF Sited, Claimable
    <3>3. Granted(w)'
      BY <1>1, <2>1, <2>2 DEF Granted, Working, Handling
    <3>4. Owning(w)'
      BY <1>1, <2>1, <2>2, <2>5, <3>1 DEF Owning
    <3> QED
      BY <3>2, <3>3, <3>4 DEF Sound
  <2>8. \A v \in Workers \ {w} : at[v] \in Handling /\ target[v] = j => Owning(v)'
    BY <1>1, <1>2, <2>4, OwningOfOther DEF Working, Handling
  <2> QED
    BY <1>1, <2>1, <2>2, <2>3, <2>4, <2>6, <2>7, <2>8, WriteStep DEF Keeps, Handling
<1>3. CASE ~ActiveLease(w)
  BY <1>1, <1>3, RestingStep DEF Renew, Fenced, store
<1> QED
  BY <1>2, <1>3

LEMMA ReturnStep ==
  ASSUME IInv, TypeOK', NEW w \in Workers, HandlerReturns(w)
  PROVE  IInv'
<1>1. /\ at[w] = "handle" /\ at'[w] = "release" /\ now'[w] = clock /\ clock \in Nat
      /\ UNCHANGED <<clock, store, target, grant>>
  BY SchedulerAssumption DEF IInv, TypeOK, HandlerReturns, Goto, Capture
<1>2. release'[w].state \in Outcomes
  BY DEF IInv, TypeOK, HandlerReturns
<1>3. Sound(w)'
  <2>0. at[w] \in Working /\ Sited(w)
    BY <1>1 DEF IInv, Workmanship, Working, Handling
  <2>1. Sited(w)' /\ Claimable(w)' /\ Owning(w)'
    BY <1>1, <1>2, <2>0 DEF Sited, Claimable, Owning, Handling
  <2>2. Granted(w)'
    BY <1>1 DEF IInv, Workmanship, Granted, Working, Handling, grant, store
  <2> QED
    BY <2>1, <2>2 DEF Sound
<1>4. \A v \in Workers \ {w} : Same(v)
  BY DEF IInv, TypeOK, HandlerReturns, Goto, Capture, grant, Same
<1> QED
  BY <1>1, <1>3, <1>4, PrivateStep DEF Keeps, Handling

\* A decision on a retry that writes no job.
LEMMA DecideStep ==
  ASSUME IInv, TypeOK', NEW w \in Workers, at[w] \in Working,
         NEW retryable \in BOOLEAN, Decide(w, retryable),
         UNCHANGED <<clock, store, target, grant>>
  PROVE  IInv'
<1>1. Sound(w)' /\ at'[w] = "retry" /\ \A v \in Workers \ {w} : Same(v)
  BY DecideIsSound DEF store
<1> QED
  BY <1>1, PrivateStep DEF Keeps, Handling

LEMMA ReleaseStep ==
  ASSUME IInv, TypeOK', NEW w \in Workers,
         Release(w) \/ ReleaseAfterError(w) \/ ReleaseAnswerLost(w)
  PROVE  IInv'
<1>1. /\ at[w] \in {"release", "retry"} /\ at[w] \in Working
      /\ UNCHANGED <<clock, attempts, lastGeneration>>
  BY DEF Release, ReleaseAfterError, ReleaseAnswerLost, Working
<1>2. CASE ActiveLease(w) /\ WriteRelease(w) /\ Rest(w)
  <2>1. /\ Sound(w)' /\ at'[w] \notin Handling
        /\ \A v \in Workers \ {w} : Same(v)
    BY <1>1, <1>2, RestIsSound DEF Handling
  <2> QED
    BY <1>1, <1>2, <2>1, ReleaseWrite
<1>3. CASE Fenced(w)
  BY <1>1, <1>3, RestingStep DEF Fenced, store
<1>4. CASE /\ Decide(w, TRUE)
           /\ UNCHANGED <<state, revision, eligibleAt, lease, target, grant>>
  BY <1>1, <1>4, DecideStep DEF store
<1>5. CASE /\ ActiveLease(w) /\ WriteRelease(w) /\ Decide(w, TRUE)
           /\ UNCHANGED <<target, grant>>
  <2>1. /\ Sound(w)' /\ at'[w] \notin Handling
        /\ \A v \in Workers \ {w} : Same(v)
    BY <1>1, <1>5, DecideIsSound DEF Handling
  <2> QED
    BY <1>1, <1>5, <2>1, ReleaseWrite
<1> QED
  BY <1>2, <1>3, <1>4, <1>5 DEF Release, ReleaseAfterError, ReleaseAnswerLost

LEMMA NextIInv == IInv /\ [Next]_vars => IInv'
<1> SUFFICES ASSUME IInv, [Next]_vars PROVE IInv'
  OBVIOUS
<1>1. TypeOK'
  BY TypeStep DEF IInv
<1>2. ASSUME NEW w \in Workers, FindNothing(w) \/ CallFails(w) \/ Crash(w)
      PROVE  IInv'
  BY <1>1, <1>2, RestingStep DEF FindNothing, CallFails, Crash
<1>3. ASSUME NEW w \in Workers, HandlerThrows(w) PROVE IInv'
  BY <1>1, <1>3, DecideStep DEF HandlerThrows, Working, Handling
<1>4. CASE UNCHANGED vars
  BY <1>1, <1>4
     DEF IInv, LeaseIsLatestGrant, Workmanship, Separation, Sited, Claimable, LeaseExpired,
         Granted, Owning, Apart, vars, store, memory, grant
<1> QED
  BY <1>1, <1>2, <1>3, <1>4, EnqueueStep, CancelStep, TickStep, BeginStep, ExpireStep,
     AdmitStep, ClaimStep, LoseClaimStep, AskStep, RenewStep, ReturnStep, ReleaseStep
     DEF Next, Producer, Worker, Pass

-----------------------------------------------------------------------------
(* The theorems.                                                           *)

THEOREM Invariant == Spec => []IInv
<1>1. Init => IInv
  BY InitIInv
<1>2. IInv /\ [Next]_vars => IInv'
  BY NextIInv
<1> QED
  BY <1>1, <1>2, PTL DEF Spec

(***************************************************************************)
(* Every variable keeps the type TypeOK gives it: a retry is always one    *)
(* the job's schema accepts, and a worker that works has a job.            *)
(***************************************************************************)
THEOREM TypeCorrect == Spec => []TypeOK
<1>1. IInv => TypeOK
  BY DEF IInv
<1> QED
  BY <1>1, Invariant, PTL

(***************************************************************************)
(* LeaseExclusion, for any number of workers and jobs: no two handlers run *)
(* for one job under unexpired leases (claimNext, claimJob, renewLease).   *)
(***************************************************************************)
THEOREM LeasesAreExclusive == Spec => []LeaseExclusion
<1>1. IInv => LeaseExclusion
  <2> SUFFICES ASSUME IInv, NEW j \in Jobs, NEW v \in Workers, NEW w \in Workers,
                      Holds(v, j), Holds(w, j), v # w
               PROVE  FALSE
    BY DEF LeaseExclusion
  <2>1. /\ at[v] \in Handling /\ at[w] \in Handling /\ target[v] = j /\ target[w] = j
        /\ clock < until[v] /\ clock < until[w]
    BY DEF Holds, Handling
  <2>2. token[v].generation # token[w].generation
    BY <2>1 DEF IInv, Separation, Apart
  <2>3. ASSUME NEW u \in Workers, at[u] \in Handling, target[u] = j, clock < until[u]
        PROVE  token[u].generation = lastGeneration[j]
    <3>1. Owning(u) /\ clock \in Nat /\ until[u] \in Nat
      BY SchedulerAssumption DEF IInv, TypeOK, Workmanship
    <3> QED
      BY <2>3, <3>1 DEF Owning
  <2> QED
    BY <2>1, <2>2, <2>3
<1> QED
  BY <1>1, Invariant, PTL

(***************************************************************************)
(* LeaseIsLatestGrant: a job has a lease exactly while it is running, and  *)
(* it is the latest that was granted (claimJob, releaseStep, renewLease).  *)
(***************************************************************************)
THEOREM LeasesAreLatest == Spec => []LeaseIsLatestGrant
<1>1. IInv => LeaseIsLatestGrant
  BY DEF IInv
<1> QED
  BY <1>1, Invariant, PTL

(***************************************************************************)
(* DisplacedWorkersAreFenced: the generation check of assertActiveLease    *)
(* keeps a worker whose job was granted again from writing that job, or    *)
(* any other, for every interleaving with claims, renewals and faults.     *)
(***************************************************************************)
THEOREM DisplacedAreFenced == Spec => DisplacedWorkersAreFenced
<1>1. IInv /\ [Next]_vars =>
        [\A w \in Workers : Displaced(w) /\ at'[w] # at[w] => UNCHANGED store]_vars
  <2> SUFFICES ASSUME IInv, Next, NEW w \in Workers, Displaced(w), at'[w] # at[w]
               PROVE  UNCHANGED store
    BY DEF vars, store, memory, grant
  <2>1. /\ at[w] \in Working /\ ~ActiveLease(w)
    BY ActiveIsLatest DEF Displaced, Working, Handling
  <2>2. ASSUME NEW u \in Workers, Goto(u, "claim") \/ Goto(u, "admit") \/ Goto(u, "sweep")
                                  \/ Goto(u, "renew") \/ Goto(u, "handle")
                                  \/ Goto(u, "retry") \/ Goto(u, "idle") \/ Goto(u, "release")
        PROVE  u = w
    BY <2>2 DEF IInv, TypeOK, Goto
  <2>3. CASE Tick
    BY <2>3 DEF Tick
  <2>4. CASE Producer
    BY <2>4 DEF Producer, Enqueue, Cancel, memory
  <2>5. ASSUME NEW u \in Workers, NEW j \in Jobs, Expire(u, j) PROVE FALSE
    BY <2>5 DEF Expire
  <2>6. ASSUME NEW u \in Workers, Begin(u) PROVE UNCHANGED store
    BY <2>6 DEF Begin
  <2>7. ASSUME NEW u \in Workers, Admit(u) \/ FindNothing(u) \/ LoseClaim(u)
        PROVE  UNCHANGED store
    BY <2>7 DEF Admit, FindNothing, LoseClaim
  <2>8. ASSUME NEW u \in Workers, Claim(u) PROVE FALSE
    BY <2>1, <2>2, <2>8 DEF Claim, Working, Handling
  <2>9. ASSUME NEW u \in Workers, AskRenewal(u) \/ HandlerReturns(u) \/ HandlerThrows(u)
        PROVE  UNCHANGED store
    BY <2>9 DEF AskRenewal, HandlerReturns, HandlerThrows
  <2>10. ASSUME NEW u \in Workers, Renew(u) PROVE UNCHANGED store
    <3>1. u = w
      BY <2>2, <2>10 DEF Renew, Fenced, Rest
    <3> QED
      BY <2>1, <2>10, <3>1 DEF Renew, Fenced, store
  <2>11. ASSUME NEW u \in Workers,
                Release(u) \/ ReleaseAfterError(u) \/ ReleaseAnswerLost(u)
         PROVE  UNCHANGED store
    <3>1. u = w
      BY <2>2, <2>11 DEF Release, ReleaseAfterError, ReleaseAnswerLost, Fenced, Rest, Decide
    <3> QED
      BY <2>1, <2>11, <3>1
         DEF Release, ReleaseAfterError, ReleaseAnswerLost, Fenced, store
  <2>12. ASSUME NEW u \in Workers, CallFails(u) \/ Crash(u) PROVE UNCHANGED store
    BY <2>12 DEF CallFails, Crash
  <2> QED
    BY <2>3, <2>4, <2>5, <2>6, <2>7, <2>8, <2>9, <2>10, <2>11, <2>12
       DEF Next, Worker, Pass
<1> QED
  BY <1>1, Invariant, PTL DEF Spec, DisplacedWorkersAreFenced

(***************************************************************************)
(* TerminalIsFinal: what cancel, a deadline or a release ended stays so;   *)
(* no claim, renewal, retry or late release of any worker revives it.      *)
(***************************************************************************)
THEOREM EndedJobsStayEnded == Spec => TerminalIsFinal
<1>1. IInv /\ [Next]_vars =>
        [\A j \in Jobs : state[j] \in Terminal =>
            state'[j] = state[j] /\ revision'[j] = revision[j]]_vars
  <2> SUFFICES ASSUME IInv, Next, NEW j \in Jobs, state[j] \in Terminal
               PROVE  state'[j] = state[j] /\ revision'[j] = revision[j]
    BY DEF vars
  <2>1. CASE UNCHANGED store
    BY <2>1 DEF store
  <2>2. ASSUME NEW k \in Jobs, k # j, NEW next, Settle(k, next)
        PROVE  state'[j] = state[j] /\ revision'[j] = revision[j]
    BY <2>2 DEF IInv, TypeOK, Settle
  <2>3. ASSUME NEW k \in Jobs, Enqueue(k) \/ Cancel(k)
        PROVE  state'[j] = state[j] /\ revision'[j] = revision[j]
    <3>1. k # j
      BY <2>3 DEF Enqueue, Cancel, Live, Terminal
    <3> QED
      BY <2>2, <2>3, <3>1 DEF IInv, TypeOK, Enqueue, Cancel
  <2>4. ASSUME NEW u \in Workers, NEW k \in Jobs, Expire(u, k)
        PROVE  state'[j] = state[j] /\ revision'[j] = revision[j]
    BY <2>2, <2>4 DEF Expire, Live
  <2>5. ASSUME NEW u \in Workers, Claim(u)
        PROVE  state'[j] = state[j] /\ revision'[j] = revision[j]
    <3>1. target[u] \in Jobs /\ (state[target[u]] \in Waiting \/ LeaseExpired(target[u], now[u]))
      BY <2>5 DEF Claim, IInv, Workmanship, Sited, Claimable
    <3>2. target[u] # j
      BY <3>1 DEF Waiting, LeaseExpired, Terminal
    <3> QED
      BY <2>5, <3>1, <3>2 DEF Claim, IInv, TypeOK
  <2>6. ASSUME NEW u \in Workers, at[u] \in Working, ActiveLease(u)
        PROVE  target[u] \in Jobs /\ target[u] # j
    BY <2>6, ActiveIsLatest DEF Terminal
  <2>7. ASSUME NEW u \in Workers, Renew(u)
        PROVE  state'[j] = state[j] /\ revision'[j] = revision[j]
    <3>1. CASE ActiveLease(u)
      BY <2>6, <2>7, <3>1 DEF Renew, Working, Handling, IInv, TypeOK
    <3> QED
      BY <2>7, <3>1 DEF Renew, Fenced
  <2>8. ASSUME NEW u \in Workers,
               Release(u) \/ ReleaseAfterError(u) \/ ReleaseAnswerLost(u)
        PROVE  state'[j] = state[j] /\ revision'[j] = revision[j]
    <3>1. CASE ActiveLease(u) /\ WriteRelease(u)
      <4>1. at[u] \in Working
        BY <2>8 DEF Release, ReleaseAfterError, ReleaseAnswerLost, Working
      <4> QED
        BY <2>2, <2>6, <3>1, <4>1 DEF WriteRelease
    <3> QED
      BY <2>8, <3>1 DEF Release, ReleaseAfterError, ReleaseAnswerLost, Fenced
  <2> QED
    BY <2>1, <2>3, <2>4, <2>5, <2>7, <2>8
       DEF Next, Worker, Pass, Producer, Tick, Begin, Admit, FindNothing, LoseClaim,
           AskRenewal, HandlerReturns, HandlerThrows, CallFails, Crash
<1> QED
  BY <1>1, Invariant, PTL DEF Spec, TerminalIsFinal

-----------------------------------------------------------------------------
(* The scheduler implements JobLeases.                                     *)

Claims == [w \in Workers |-> HeldBy(w)]

LEMMA ClaimsChange ==
  ASSUME NEW w \in Workers, \A v \in Workers \ {w} : Same(v)
  PROVE  Claims' = [Claims EXCEPT ![w] = HeldBy(w)']
<1>1. ASSUME NEW v \in Workers, v # w PROVE HeldBy(v)' = HeldBy(v)
  BY <1>1 DEF HeldBy, Same
<1> HIDE DEF HeldBy
<1> QED
  BY <1>1 DEF Claims

\* A worker that keeps what it holds, in a step that changes no state or grant.
LEMMA ClaimsKept ==
  ASSUME NEW w \in Workers, \A v \in Workers \ {w} : Same(v), HeldBy(w)' = HeldBy(w),
         UNCHANGED <<state, lastGeneration>>
  PROVE  UNCHANGED Leases!vars
<1>1. ASSUME NEW v \in Workers PROVE HeldBy(v)' = HeldBy(v)
  BY <1>1 DEF HeldBy, Same
<1>2. Claims' = Claims
  BY <1>1 DEF Claims
<1> QED
  BY <1>2 DEF Claims, Leases!vars

LEMMA ClaimsDropped ==
  ASSUME NEW w \in Workers, \A v \in Workers \ {w} : Same(v), at'[w] \notin Working,
         UNCHANGED <<state, lastGeneration>>
  PROVE  Leases!Drop(w)
<1>1. HeldBy(w)' = {}
  BY DEF HeldBy, Working, Handling
<1>2. Claims' = [Claims EXCEPT ![w] = {}]
  BY <1>1, ClaimsChange
<1> QED
  BY <1>2 DEF Claims, Leases!Drop

\* The write of a release is a release of JobLeases, by the holder of the latest grant.
LEMMA ClaimsReleased ==
  ASSUME IInv, NEW w \in Workers, at[w] \in {"release", "retry"}, ActiveLease(w),
         WriteRelease(w), \A v \in Workers \ {w} : Same(v), UNCHANGED lastGeneration,
         HeldBy(w)' = {} \/ HeldBy(w)' = HeldBy(w)
  PROVE  Leases!Next
<1>1. /\ at[w] \in Working /\ state[target[w]] = "running"
      /\ token[w].generation = lastGeneration[target[w]]
  BY ActiveIsLatest DEF Working
<1>2. HeldBy(w) = {[job |-> target[w], grant |-> token[w].generation]}
  BY <1>1 DEF HeldBy, Working, Handling
<1>3. Claims[w] = HeldBy(w)
  BY DEF Claims
<1>4. state' = [state EXCEPT ![target[w]] = release[w].state]
  BY DEF WriteRelease, Settle
<1>5. release[w].state \in Leases!Releases
  BY <1>1 DEF IInv, Workmanship, Sited, Outcomes, Leases!Releases
<1>6. PICK keeps \in BOOLEAN :
         Claims' = IF keeps THEN Claims ELSE [Claims EXCEPT ![w] = {}]
  <2>1. Claims' = [Claims EXCEPT ![w] = HeldBy(w)']
    BY ClaimsChange
  <2>2. CASE HeldBy(w)' = {}
    BY <2>1, <2>2
  <2>3. CASE HeldBy(w)' = HeldBy(w)
    <3>1. [Claims EXCEPT ![w] = HeldBy(w)] = Claims
      BY DEF Claims
    <3> QED
      BY <2>1, <2>3, <3>1
  <2> QED
    BY <2>2, <2>3
<1>7. Leases!Release(w, release[w].state, keeps)
  <2> DEFINE c == [job |-> target[w], grant |-> token[w].generation]
  <2>1. Claims[w] = {c} /\ c.job = target[w] /\ c.grant = token[w].generation
    BY <1>2, <1>3
  <2>2. Leases!Active(w)
    BY <1>1, <2>1 DEF Claims, Leases!Active
  <2>3. \E d \in Claims[w] : state' = [state EXCEPT ![d.job] = release[w].state]
    BY <1>4, <2>1
  <2> QED
    BY <1>6, <2>2, <2>3 DEF Claims, Leases!Release
<1> QED
  BY <1>5, <1>7 DEF Leases!Next

LEMMA ClaimImplements ==
  ASSUME IInv, NEW w \in Workers, Claim(w)
  PROVE  Leases!Next
<1> DEFINE j == target[w]
<1>1. /\ j \in Jobs /\ at[w] = "claim"
      /\ state[j] \in Waiting \/ LeaseExpired(j, now[w])
  BY DEF Claim, IInv, Workmanship, Sited, Claimable
<1>2. state[j] \in Leases!Waiting \cup {"running"}
  BY <1>1 DEF LeaseExpired, Waiting, Leases!Waiting
<1>3. Claims[w] = {}
  BY <1>1 DEF Claims, HeldBy
<1>4. /\ state' = [state EXCEPT ![j] = "running"]
      /\ lastGeneration' = [lastGeneration EXCEPT ![j] = @ + 1]
  BY DEF Claim
<1>5. \A v \in Workers \ {w} : Same(v)
  BY DEF IInv, TypeOK, Claim, Goto, Same
<1>6. HeldBy(w)' = {[job |-> j, grant |-> lastGeneration[j] + 1]}
  BY DEF IInv, TypeOK, Claim, Goto, HeldBy
<1>7. Claims' = [Claims EXCEPT ![w] = {[job |-> j, grant |-> lastGeneration[j] + 1]}]
  BY <1>5, <1>6, ClaimsChange
<1>8. Leases!Claim(w, j)
  BY <1>2, <1>3, <1>4, <1>7 DEF Claims, Leases!Claim
<1> QED
  BY <1>1, <1>8 DEF Leases!Next

LEMMA StepImplements == IInv /\ [Next]_vars => [Leases!Next]_(Leases!vars)
<1> SUFFICES ASSUME IInv, [Next]_vars PROVE [Leases!Next]_(Leases!vars)
  OBVIOUS
<1> USE DEF IInv
<1>1. ASSUME NEW j \in Jobs, Enqueue(j) PROVE Leases!Enqueue(j)
  BY <1>1 DEF Enqueue, Leases!Enqueue, memory, grant, HeldBy
<1>2. ASSUME NEW j \in Jobs, Live(j), NEW next, Settle(j, next),
             UNCHANGED <<lastGeneration, at, target, token>>
      PROVE  Leases!End(j, next)
  BY <1>2 DEF Live, Terminal, Settle, Leases!End, Leases!Unended, Leases!Terminal, HeldBy
<1>3. ASSUME NEW j \in Jobs, Cancel(j) PROVE Leases!End(j, "canceled")
  BY <1>2, <1>3 DEF Cancel, memory, grant
<1>4. ASSUME Tick PROVE UNCHANGED Leases!vars
  BY <1>4 DEF Tick, store, memory, grant, HeldBy, Leases!vars
<1>5. ASSUME NEW w \in Workers, Begin(w) PROVE UNCHANGED Leases!vars
  <2>1. HeldBy(w)' = HeldBy(w) /\ \A v \in Workers \ {w} : Same(v)
    BY <1>5 DEF TypeOK, Begin, Goto, Capture, grant, Same, HeldBy
  <2> QED
    BY <1>5, <2>1, ClaimsKept DEF Begin, store
<1>6. ASSUME NEW w \in Workers, NEW j \in Jobs, Expire(w, j)
      PROVE  Leases!End(j, "failed") \/ UNCHANGED Leases!vars
  <2>1. CASE Live(j)
    BY <1>2, <1>6, <2>1 DEF Expire, grant
  <2>2. CASE ~Live(j)
    BY <1>6, <2>2 DEF Expire, grant, HeldBy, Leases!vars
  <2> QED
    BY <2>1, <2>2
<1>7. ASSUME NEW w \in Workers, Admit(w) PROVE UNCHANGED Leases!vars
  <2>1. HeldBy(w)' = HeldBy(w) /\ \A v \in Workers \ {w} : Same(v)
    BY <1>7 DEF TypeOK, Admit, Admitting, Goto, Same, HeldBy
  <2> QED
    BY <1>7, <2>1, ClaimsKept DEF Admit, store
<1>8. ASSUME NEW w \in Workers, LoseClaim(w) PROVE UNCHANGED Leases!vars
  <2>1. HeldBy(w)' = HeldBy(w) /\ \A v \in Workers \ {w} : Same(v)
    BY <1>8 DEF TypeOK, LoseClaim, Goto, memory, grant, Same, HeldBy
  <2> QED
    BY <1>8, <2>1, ClaimsKept DEF LoseClaim, store
<1>9. ASSUME NEW w \in Workers, Rest(w), UNCHANGED <<state, lastGeneration>>
      PROVE  Leases!Next
  <2>1. at'[w] \notin Working /\ \A v \in Workers \ {w} : Same(v)
    BY <1>9 DEF TypeOK, Rest, Goto, Same, Working, Handling
  <2> QED
    BY <1>9, <2>1, ClaimsDropped DEF Leases!Next
<1>10. ASSUME NEW w \in Workers, AskRenewal(w) \/ HandlerReturns(w) PROVE UNCHANGED Leases!vars
  <2>1. HeldBy(w)' = HeldBy(w) /\ \A v \in Workers \ {w} : Same(v)
    BY <1>10 DEF TypeOK, AskRenewal, HandlerReturns, Goto, Capture, grant, Same, HeldBy
  <2> QED
    BY <1>10, <2>1, ClaimsKept DEF AskRenewal, HandlerReturns, store
<1>11. ASSUME NEW w \in Workers, Renew(w) PROVE [Leases!Next]_(Leases!vars)
  <2>1. CASE ActiveLease(w)
    <3>1. HeldBy(w)' = HeldBy(w) /\ \A v \in Workers \ {w} : Same(v)
      BY <1>11, <2>1 DEF TypeOK, Renew, Goto, Same, HeldBy
    <3> QED
      BY <1>11, <2>1, <3>1, ClaimsKept DEF Renew
  <2>2. CASE ~ActiveLease(w)
    BY <1>9, <1>11, <2>2 DEF Renew, Fenced
  <2> QED
    BY <2>1, <2>2
<1>12. ASSUME NEW w \in Workers, at[w] \in Working, NEW retryable \in BOOLEAN,
              Decide(w, retryable), UNCHANGED <<target, grant>>
       PROVE  HeldBy(w)' = HeldBy(w) /\ \A v \in Workers \ {w} : Same(v)
  BY <1>12 DEF TypeOK, Decide, Goto, Capture, grant, Same, HeldBy, Working, Handling
<1>13. ASSUME NEW w \in Workers, HandlerThrows(w) PROVE UNCHANGED Leases!vars
  BY <1>12, <1>13, ClaimsKept DEF HandlerThrows, store, Working, Handling
<1>14. ASSUME NEW w \in Workers,
              Release(w) \/ ReleaseAfterError(w) \/ ReleaseAnswerLost(w)
       PROVE  [Leases!Next]_(Leases!vars)
  <2>1. at[w] \in {"release", "retry"} /\ at[w] \in Working /\ UNCHANGED lastGeneration
    BY <1>14 DEF Release, ReleaseAfterError, ReleaseAnswerLost, Working
  <2>2. CASE ActiveLease(w) /\ WriteRelease(w) /\ Rest(w)
    <3>1. HeldBy(w)' = {} /\ \A v \in Workers \ {w} : Same(v)
      BY <2>2 DEF TypeOK, Rest, Goto, Same, HeldBy
    <3> QED
      BY <2>1, <2>2, <3>1, ClaimsReleased
  <2>3. CASE Fenced(w)
    BY <1>9, <2>1, <2>3 DEF Fenced
  <2>4. CASE /\ Decide(w, TRUE)
             /\ UNCHANGED <<state, revision, eligibleAt, lease, target, grant>>
    BY <1>12, <2>1, <2>4, ClaimsKept
  <2>5. CASE /\ ActiveLease(w) /\ WriteRelease(w) /\ Decide(w, TRUE)
             /\ UNCHANGED <<target, grant>>
    BY <1>12, <2>1, <2>5, ClaimsReleased
  <2> QED
    BY <1>14, <2>2, <2>3, <2>4, <2>5 DEF Release, ReleaseAfterError, ReleaseAnswerLost
<1>15. ASSUME NEW w \in Workers, FindNothing(w) \/ CallFails(w) \/ Crash(w)
       PROVE  Leases!Next
  BY <1>9, <1>15 DEF FindNothing, CallFails, Crash, store
<1>16. CASE UNCHANGED vars
  BY <1>16 DEF vars, store, memory, grant, HeldBy, Leases!vars
<1> QED
  BY <1>1, <1>3, <1>4, <1>5, <1>6, <1>7, <1>8, <1>10, <1>11, <1>13, <1>14, <1>15, <1>16,
     ClaimImplements DEF Next, Producer, Worker, Pass, Leases!Next

(***************************************************************************)
(* ImplementsJobLeases: for any jobs, workers and bounds, whatever a       *)
(* worker reads, captures or loses, the stored jobs move only as JobLeases *)
(* allows, which is all that ActionJobs assumes of the scheduler.          *)
(***************************************************************************)
THEOREM SchedulerImplementsLeases == Spec => ImplementsJobLeases
<1>1. Init => Leases!Init
  BY DEF Init, Leases!Init, HeldBy
<1>2. IInv /\ [Next]_vars => [Leases!Next]_(Leases!vars)
  BY StepImplements
<1> QED
  BY <1>1, <1>2, Invariant, PTL DEF Spec, Leases!Spec, ImplementsJobLeases
=============================================================================
