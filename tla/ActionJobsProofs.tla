--------------------------- MODULE ActionJobsProofs ---------------------------
(***************************************************************************)
(* ActionJobs for any number of intents, jobs, attempts and faults.        *)
(*                                                                         *)
(* One process: two unended jobs never name one intent.  With two          *)
(* processes they may.                                                     *)
(*                                                                         *)
(* Any number of processes: jobs are used as JobLeases allows, and intents *)
(* are delivered as ActionSettlement promises, by what is proved of        *)
(* ActionExecutor (Runner, an instance of its proofs).                     *)
(***************************************************************************)
EXTENDS ActionJobs, TLAPS

\* There is one executor process, or none.
OneProcess == \A v, w \in Executors : v = w

-----------------------------------------------------------------------------
(* The invariant.                                                          *)

Grants == [job : Jobs, grant : Nat]

LeaseType ==
  /\ stage \in [Jobs -> Lease!Stages]
  /\ grants \in [Jobs -> Nat]
  /\ claims \in [Executors -> SUBSET Grants]
  /\ \A w \in Executors : \A c, d \in claims[w] : c = d

LoopType ==
  /\ phase \in [Executors -> {"scan", "list", "insert", "poll", "handle"}]
  /\ found \in [Executors -> SUBSET [intent : Intents, revision : Nat]]
  /\ plan \in [Executors -> SUBSET Jobs]

\* What a pass has read names each intent once, and what it will enqueue is free.
PassInv ==
  \A w \in Executors :
    /\ \A f, g \in found[w] : f.intent = g.intent => f = g
    /\ \A j, k \in plan[w] : j.intent = k.intent => j = k
    /\ \A j \in plan[w], k \in Jobs : k.intent = j.intent => ~Lease!Unended(k)

OwnerInv == LeaseType /\ LoopType /\ PassInv /\ OneOwner

-----------------------------------------------------------------------------
(* One owner.                                                              *)

LEMMA InitOwnerInv == Init => OwnerInv
BY DEF Init, OwnerInv, LeaseType, LoopType, PassInv, OneOwner, Lease!Init,
       Lease!Unended, Lease!Stages

\* Steps of the attempt, of finance and of nobody leave jobs and loop alone.
LEMMA IdleOwner == OwnerInv /\ UNCHANGED <<jobs, loop>> => OwnerInv'
BY DEF OwnerInv, LeaseType, LoopType, PassInv, OneOwner, Lease!Unended, jobs, loop

\* While no job revives, whatever passes read and own stays free and owned once.
LEMMA NoneRevives ==
  ASSUME OwnerInv, LeaseType', LoopType', UNCHANGED plan,
         \A w \in Executors : found'[w] \in {found[w], {}},
         \A j \in Jobs : stage'[j] = stage[j] \/ Lease!Unended(j)
  PROVE  OwnerInv'
<1>1. \A j \in Jobs : Lease!Unended(j)' => Lease!Unended(j)
  BY DEF Lease!Unended
<1>2. PassInv'  BY <1>1 DEF OwnerInv, PassInv
<1>3. OneOwner'  BY <1>1 DEF OwnerInv, OneOwner
<1> QED  BY <1>2, <1>3 DEF OwnerInv

LEMMA ScanOwner ==
  ASSUME OwnerInv, \A i \in Intents : intent[i].revision \in Nat, NEW w \in Executors, Scan(w)
  PROVE  OwnerInv'
<1> DEFINE scan == {[intent |-> i, revision |-> intent[i].revision] : i \in Scanned}
<1>1. \A i \in Scanned : i \in Intents  BY DEF Scanned, Actionable
<1>2. scan \subseteq [intent : Intents, revision : Nat]
  BY <1>1
<1>3. \A f, g \in scan : f.intent = g.intent => f = g
  OBVIOUS
<1>4. found' = [found EXCEPT ![w] = scan]
  BY DEF Scan
<1> HIDE DEF scan
<1>5. LoopType'
  BY <1>2, <1>4 DEF Scan, Goto, OwnerInv, LoopType
<1>6. \A v \in Executors : \A f, g \in found'[v] : f.intent = g.intent => f = g
  BY <1>3, <1>4 DEF OwnerInv, LoopType, PassInv
<1>7. PassInv'
  BY <1>6 DEF Scan, OwnerInv, PassInv, jobs, Lease!Unended
<1> QED  BY <1>5, <1>7 DEF Scan, OwnerInv, LeaseType, OneOwner, Lease!Unended, jobs

LEMMA ListOwner == ASSUME OwnerInv, NEW w \in Executors, List(w) PROVE OwnerInv'
<1> DEFINE listed == {j \in Jobs : /\ ~Covered(j.intent)
                                   /\ j.ordinal = Cardinality(JobsOf(j.intent))
                                   /\ \E f \in found[w] : f.intent = j.intent
                                                          /\ f.revision = j.revision}
<1>1. plan' = [plan EXCEPT ![w] = listed] /\ found' = [found EXCEPT ![w] = {}]
  BY DEF List
<1>2. \A j, k \in listed : j.intent = k.intent => j = k
  <2> SUFFICES ASSUME NEW j \in listed, NEW k \in listed, j.intent = k.intent
               PROVE  j = k
    OBVIOUS
  <2>1. j.ordinal = k.ordinal  OBVIOUS
  <2>2. PICK f \in found[w] : f.intent = j.intent /\ f.revision = j.revision  OBVIOUS
  <2>3. PICK g \in found[w] : g.intent = k.intent /\ g.revision = k.revision  OBVIOUS
  <2>4. f = g  BY <2>2, <2>3 DEF OwnerInv, PassInv
  <2> QED  BY <2>1, <2>2, <2>3, <2>4 DEF Jobs
<1>3. \A j \in listed, k \in Jobs : k.intent = j.intent => ~Lease!Unended(k)
  BY DEF Covered, JobsOf, Lease!Unended, Lease!Terminal
<1> HIDE DEF listed
<1>4. listed \subseteq Jobs  BY DEF listed
<1>5. LoopType'
  BY <1>1, <1>4 DEF List, Goto, OwnerInv, LoopType
<1>6. PassInv'
  BY <1>1, <1>2, <1>3 DEF List, OwnerInv, PassInv, LoopType, jobs, Lease!Unended
<1> QED  BY <1>5, <1>6 DEF List, OwnerInv, LeaseType, OneOwner, Lease!Unended, jobs

LEMMA InsertOwner ==
  ASSUME OneProcess, OwnerInv, NEW w \in Executors, NEW j \in Jobs, Insert(w, j)
  PROVE  OwnerInv'
<1>1. plan' = [plan EXCEPT ![w] = @ \ {j}] /\ UNCHANGED <<found, phase>> /\ j \in plan[w]
  BY DEF Insert
<1>2. LoopType'  BY <1>1 DEF OwnerInv, LoopType
<1>3. CASE stage[j] # "absent"
  <2>1. UNCHANGED jobs  BY <1>3 DEF Insert
  <2> QED  BY <1>1, <1>2, <2>1 DEF OwnerInv, LeaseType, LoopType, PassInv, OneOwner, Lease!Unended, jobs
<1>4. CASE stage[j] = "absent"
  <2>1. stage' = [stage EXCEPT ![j] = "pending"] /\ UNCHANGED <<grants, claims>>
    BY <1>4 DEF Insert, Lease!Enqueue
  <2>2. LeaseType'  BY <2>1 DEF OwnerInv, LeaseType, Lease!Stages, Lease!Waiting
  <2>3. \A k \in Jobs : Lease!Unended(k)' => Lease!Unended(k) \/ k = j
    BY <2>1 DEF Lease!Unended, OwnerInv, LeaseType
  <2>4. \A k \in Jobs : k.intent = j.intent => ~Lease!Unended(k)
    BY <1>1 DEF OwnerInv, PassInv
  <2>5. OneOwner'  BY <2>3, <2>4 DEF OwnerInv, OneOwner
  <2>6. \A k \in plan'[w] : k \in plan[w] /\ k.intent # j.intent
    BY <1>1 DEF OwnerInv, LoopType, PassInv
  <2>7. \A v \in Executors : v = w  BY DEF OneProcess
  <2>8. PassInv'  BY <1>1, <2>3, <2>6, <2>7 DEF OwnerInv, PassInv
  <2> QED  BY <1>2, <2>2, <2>5, <2>8 DEF OwnerInv
<1> QED  BY <1>3, <1>4

LEMMA ClaimOwner ==
  ASSUME OwnerInv, NEW w \in Executors, NEW j \in Jobs, Claim(w, j)
  PROVE  OwnerInv'
<1>1. /\ stage' = [stage EXCEPT ![j] = "running"]
      /\ grants' = [grants EXCEPT ![j] = grants[j] + 1]
      /\ claims' = [claims EXCEPT ![w] = {[job |-> j, grant |-> grants[j] + 1]}]
      /\ stage[j] \in {"pending", "waiting_for_retry", "running"}
  BY DEF Claim, Lease!Claim, Lease!Waiting
<1>2. UNCHANGED <<found, plan>> /\ phase' = [phase EXCEPT ![w] = "handle"]
  BY DEF Claim, Goto
<1>3. [job |-> j, grant |-> grants[j] + 1] \in Grants /\ grants[j] + 1 \in Nat
  BY DEF Grants, OwnerInv, LeaseType
<1>4. LeaseType'
  BY <1>1, <1>3 DEF OwnerInv, LeaseType, Lease!Stages
<1>5. LoopType'  BY <1>2 DEF OwnerInv, LoopType
<1>6. \A k \in Jobs : stage'[k] = stage[k] \/ Lease!Unended(k)
  BY <1>1 DEF Lease!Unended, Lease!Terminal, OwnerInv, LeaseType
<1> QED  BY <1>2, <1>4, <1>5, <1>6, NoneRevives

\* What a release may write.
LEMMA ReleaseStages ==
  ASSUME NEW w \in Executors
  PROVE  /\ AfterError(w) \in {"waiting_for_retry", "failed"}
         /\ ReleasedAs(w) \in {"waiting_for_retry", "failed", "completed"}
BY DEF AfterError, ReleasedAs

\* A release ends or postpones the one job that is held and running.
LEMMA ReleaseLease ==
  ASSUME LeaseType, NEW w \in Executors,
         NEW next \in {"waiting_for_retry", "failed", "completed"},
         Lease!Release(w, next, FALSE)
  PROVE  /\ LeaseType'
         /\ \E c \in claims[w] : /\ stage[c.job] = "running"
                                 /\ stage' = [stage EXCEPT ![c.job] = next]
<1>1. PICK c \in claims[w] : stage[c.job] = "running"
  BY DEF Lease!Release, Lease!Active
<1>2. stage' = [stage EXCEPT ![c.job] = next]
  BY <1>1 DEF Lease!Release, LeaseType
<1>3. claims' = [claims EXCEPT ![w] = {}] /\ UNCHANGED grants
  BY DEF Lease!Release
<1>4. c.job \in Jobs  BY DEF LeaseType, Grants
<1> QED
  BY <1>1, <1>2, <1>3, <1>4 DEF LeaseType, Lease!Stages, Lease!Waiting, Lease!Terminal

LEMMA DropLease ==
  ASSUME LeaseType, NEW w \in Executors, Lease!Drop(w) PROVE LeaseType' /\ UNCHANGED stage
BY DEF LeaseType, Lease!Drop

\* Releasing, dropping or abandoning a job revives none.
LEMMA EndOwner ==
  ASSUME OwnerInv, NEW w \in Executors,
         phase' = [phase EXCEPT ![w] = "scan"], UNCHANGED <<found, plan>>,
         Lease!Drop(w) \/ \E next \in {"waiting_for_retry", "failed", "completed"} :
                            Lease!Release(w, next, FALSE)
  PROVE  OwnerInv'
<1>1. LoopType'  BY DEF OwnerInv, LoopType
<1>2. LeaseType' /\ \A j \in Jobs : stage'[j] = stage[j] \/ Lease!Unended(j)
  <2>1. CASE Lease!Drop(w)  BY <2>1, DropLease DEF OwnerInv
  <2>2. ASSUME NEW next \in {"waiting_for_retry", "failed", "completed"},
               Lease!Release(w, next, FALSE)
        PROVE  LeaseType' /\ \A j \in Jobs : stage'[j] = stage[j] \/ Lease!Unended(j)
    <3>1. PICK c \in claims[w] : /\ stage[c.job] = "running"
                                 /\ stage' = [stage EXCEPT ![c.job] = next]
      BY <2>2, ReleaseLease DEF OwnerInv
    <3>2. \A j \in Jobs : stage'[j] = stage[j] \/ Lease!Unended(j)
      BY <3>1 DEF OwnerInv, LeaseType, Lease!Unended, Lease!Terminal
    <3> QED  BY <2>2, <3>2, ReleaseLease DEF OwnerInv
  <2> QED  BY <2>1, <2>2
<1> QED  BY <1>1, <1>2, NoneRevives

LEMMA PassEndsOwner ==
  ASSUME OwnerInv, NEW w \in Executors, Abandon(w)
  PROVE  OwnerInv'
<1>1. LeaseType' /\ UNCHANGED stage  BY DropLease DEF Abandon, OwnerInv
<1>2. LoopType'  BY DEF Abandon, Goto, OwnerInv, LoopType
<1>3. PassInv'
  BY <1>1 DEF Abandon, OwnerInv, LoopType, PassInv, Lease!Unended
<1> QED  BY <1>1, <1>2, <1>3 DEF OwnerInv, OneOwner, Lease!Unended

LEMMA DeadlineOwner ==
  ASSUME OwnerInv, NEW j \in Jobs, DeadlinePasses(j)
  PROVE  OwnerInv'
<1>1. Lease!Unended(j) /\ stage' = [stage EXCEPT ![j] = "failed"] /\ UNCHANGED <<grants, claims>>
  BY DEF DeadlinePasses, Lease!End
<1>2. LeaseType'  BY <1>1 DEF OwnerInv, LeaseType, Lease!Stages, Lease!Terminal
<1>3. \A k \in Jobs : stage'[k] = stage[k] \/ Lease!Unended(k)
  BY <1>1 DEF OwnerInv, LeaseType
<1> QED
  BY <1>2, <1>3, NoneRevives DEF DeadlinePasses, loop, OwnerInv, LoopType

-----------------------------------------------------------------------------
(* Delivery and leases, for any number of processes.                       *)

\* What is proved of executors, about the executors of this module.
Runner == INSTANCE ActionExecutorProofs

LEMMA RunnerAssumption == Runner!MaxFaultsAssumption
BY JobsAssumption DEF Runner!MaxFaultsAssumption

\* The actions of the executor, named through either instance.
LEMMA SameAttempt ==
  ASSUME NEW w \in Executors
  PROVE  /\ Delivery!Attempt(w) => Runner!Attempt(w)
         /\ Delivery!Return(w) => Runner!Return(w)
         /\ Delivery!Throw(w) => Runner!Throw(w)
         /\ Delivery!Forget(w) => Runner!Forget(w)
         /\ \A i \in Intents : Delivery!RunIntent(w, i) => Runner!RunIntent(w, i)
BY DEF Delivery!RunIntent, Runner!RunIntent, Delivery!Attempt, Runner!Attempt,
       Delivery!LoadForDispatch, Runner!LoadForDispatch, Delivery!LoadForReconcile,
       Runner!LoadForReconcile, Delivery!Claim, Runner!Claim, Delivery!ReadReceipt,
       Runner!ReadReceipt, Delivery!Converge, Runner!Converge, Delivery!Deliver, Runner!Deliver,
       Delivery!Delivering, Runner!Delivering, Delivery!DeliverNotReached,
       Runner!DeliverNotReached, Delivery!DeliverReplay, Runner!DeliverReplay,
       Delivery!DeliverFirst, Runner!DeliverFirst, Delivery!DeliverThenTimeout,
       Runner!DeliverThenTimeout, Delivery!LookupAnswers, Runner!LookupAnswers,
       Delivery!LookupFails, Runner!LookupFails, Delivery!RecordOutcome, Runner!RecordOutcome,
       Delivery!FlagUnknown, Runner!FlagUnknown, Delivery!ReleaseToPending,
       Runner!ReleaseToPending, Delivery!Return, Runner!Return, Delivery!Throw, Runner!Throw,
       Delivery!InFlight, Runner!InFlight, Delivery!Forget, Runner!Forget, Delivery!Finish,
       Runner!Finish, Delivery!Goto, Runner!Goto, Delivery!See, Runner!See, Delivery!Fault,
       Runner!Fault, Delivery!Unchanged, Runner!Unchanged, Delivery!Transition,
       Runner!Transition, Delivery!Answer, Runner!Answer, Delivery!Record, Runner!Record,
       Delivery!NotInserted, Runner!NotInserted, Delivery!ActiveStates, Runner!ActiveStates,
       Delivery!Verdicts, Runner!Verdicts, Delivery!StateOf, Runner!StateOf,
       Delivery!store, Runner!store, Delivery!memory, Runner!memory

LEMMA SameFinance ==
  ASSUME NEW i \in Intents
  PROVE  /\ Delivery!OpenIntent(i) => Runner!OpenIntent(i)
         /\ Delivery!CancelPending(i) => Runner!CancelPending(i)
BY DEF Delivery!OpenIntent, Runner!OpenIntent, Delivery!CancelPending, Runner!CancelPending,
       Delivery!NotInserted, Runner!NotInserted, Delivery!memory, Runner!memory

LEMMA SameSettlement == Delivery!Delivery!Next <=> Runner!Delivery!Next
BY DEF Delivery!Delivery!Next, Runner!Delivery!Next, Delivery!Delivery!Open,
       Runner!Delivery!Open, Delivery!Delivery!Cancel, Runner!Delivery!Cancel,
       Delivery!Delivery!Progress, Runner!Delivery!Progress, Delivery!Delivery!Effect,
       Runner!Delivery!Effect, Delivery!Delivery!Settle, Runner!Delivery!Settle,
       Delivery!Delivery!ActiveStates, Runner!Delivery!ActiveStates,
       Delivery!Delivery!Verdicts, Runner!Delivery!Verdicts, Delivery!Delivery!StateOf,
       Runner!Delivery!StateOf

(***************************************************************************)
(* What JobLeases keeps, whoever uses it: of two claims of a job the later *)
(* has the higher grant, and none is ahead of the grants of its job.       *)
(***************************************************************************)
ClaimsInv ==
  /\ \A w \in Executors : \A c \in claims[w] : c.grant <= grants[c.job]
  /\ \A v, w \in Executors : \A c \in claims[v], d \in claims[w] : c = d => v = w

LEMMA LeasesStart == Init => LeaseType /\ ClaimsInv
BY DEF Init, Lease!Init, LeaseType, ClaimsInv, Lease!Stages

LEMMA LeasesStep ==
  ASSUME LeaseType, ClaimsInv, [Lease!Next]_(Lease!vars)
  PROVE  LeaseType' /\ ClaimsInv'
<1> USE DEF LeaseType, ClaimsInv, Grants, Lease!Stages, Lease!Waiting, Lease!Terminal
<1>1. ASSUME NEW j \in Jobs, Lease!Enqueue(j) \/ \E final \in {"failed", "canceled"} : Lease!End(j, final)
      PROVE  LeaseType' /\ ClaimsInv'
  BY <1>1 DEF Lease!Enqueue, Lease!End
<1>2. ASSUME NEW w \in Executors, NEW j \in Jobs, Lease!Claim(w, j)
      PROVE  LeaseType' /\ ClaimsInv'
  <2> DEFINE c == [job |-> j, grant |-> grants[j] + 1]
  <2>1. /\ stage' = [stage EXCEPT ![j] = "running"]
        /\ grants' = [grants EXCEPT ![j] = grants[j] + 1]
        /\ claims' = [claims EXCEPT ![w] = {c}]
    BY <1>2 DEF Lease!Claim
  <2>2. c \in Grants /\ c.job = j /\ c.grant = grants[j] + 1 /\ grants[j] \in Nat
    OBVIOUS
  <2> HIDE DEF c
  <2>3. LeaseType'  BY <2>1, <2>2
  <2>4. \A v \in Executors : \A d \in claims[v] : d \in Grants /\ d # c
    BY <2>2
  <2>5. ClaimsInv'
    <3>1. \A v \in Executors : \A d \in claims'[v] : d.grant <= grants'[d.job]
      BY <2>1, <2>2, <2>4
    <3> QED  BY <2>1, <2>4, <3>1
  <2> QED  BY <2>3, <2>5
<1>3. ASSUME NEW w \in Executors, NEW next \in Lease!Releases, NEW keeps \in BOOLEAN,
             Lease!Release(w, next, keeps)
      PROVE  LeaseType' /\ ClaimsInv'
  <2>1. PICK c \in claims[w] : stage' = [stage EXCEPT ![c.job] = next]
    BY <1>3 DEF Lease!Release
  <2>2. claims' = claims \/ claims' = [claims EXCEPT ![w] = {}]
    BY <1>3 DEF Lease!Release
  <2> QED  BY <1>3, <2>1, <2>2 DEF Lease!Release, Lease!Releases
<1>4. ASSUME NEW w \in Executors, Lease!Drop(w)
      PROVE  LeaseType' /\ ClaimsInv'
  BY <1>4 DEF Lease!Drop
<1>5. CASE UNCHANGED Lease!vars
  BY <1>5 DEF Lease!vars
<1> QED  BY <1>1, <1>2, <1>3, <1>4, <1>5 DEF Lease!Next

\* Whatever a process does with jobs, it does by the actions of JobLeases.
LEMMA StepFollowsLeases == ASSUME [Next]_vars PROVE [Lease!Next]_(Lease!vars)
<1>1. CASE Finance
  BY <1>1 DEF Finance, jobs, Lease!vars
<1>2. ASSUME NEW j \in Jobs, DeadlinePasses(j)
      PROVE  Lease!Next
  BY <1>2 DEF DeadlinePasses, Lease!Next
<1>3. ASSUME NEW w \in Executors, Produce(w) \/ FindNothing(w)
      PROVE  [Lease!Next]_(Lease!vars)
  BY <1>3 DEF Produce, Scan, List, Insert, FindNothing, jobs, Lease!vars, Lease!Next
<1>4. ASSUME NEW w \in Executors, NEW j \in Jobs, Claim(w, j)
      PROVE  Lease!Next
  BY <1>4 DEF Claim, Lease!Next
<1>5. ASSUME NEW w \in Executors, StartIntent(w) \/ AttemptIntent(w) \/ AttemptThrows(w)
      PROVE  UNCHANGED Lease!vars
  BY <1>5 DEF StartIntent, AttemptIntent, AttemptThrows, jobs, Lease!vars
<1>6. ASSUME NEW w \in Executors, ReleaseJob(w) \/ ReleaseThrows(w) \/ PassEnds(w)
      PROVE  Lease!Next
  <2>1. {AfterError(w), ReleasedAs(w)} \subseteq Lease!Releases
    BY ReleaseStages DEF Lease!Releases
  <2>2. Lease!Drop(w) \/ \E next \in Lease!Releases : Lease!Release(w, next, FALSE)
    BY <1>6, <2>1 DEF ReleaseJob, ReleaseThrows, PassEnds, Abandon
  <2> QED  BY <2>2 DEF Lease!Next
<1>7. CASE UNCHANGED vars
  BY <1>7 DEF vars, jobs, Lease!vars
<1> QED
  BY <1>1, <1>2, <1>3, <1>4, <1>5, <1>6, <1>7 DEF Next, Handle

LEMMA LeasesInvariant == Spec => [](LeaseType /\ ClaimsInv)
<1>1. LeaseType /\ ClaimsInv /\ [Next]_vars => (LeaseType /\ ClaimsInv)'
  BY StepFollowsLeases, LeasesStep
<1> QED  BY <1>1, LeasesStart, PTL DEF Spec

(***************************************************************************)
(* To what executors stored, a step of the jobs is a step of an executor,  *)
(* an attempt that is forgotten wherever it had come to, or nothing.       *)
(***************************************************************************)
ForgottenStep(w) == /\ Runner!Forget(w) /\ UNCHANGED Runner!store
                    /\ faults' \in 0 .. MaxFaults
ElsewhereStep == /\ UNCHANGED <<Runner!store, at, Runner!memory>>
                 /\ faults' \in 0 .. MaxFaults

LEMMA JobsStep ==
  ASSUME LeaseType, faults \in 0 .. MaxFaults, [Next]_vars
  PROVE  Runner!Next \/ (\E w \in Executors : ForgottenStep(w)) \/ ElsewhereStep
<1>1. Fault \/ UNCHANGED faults => faults' \in 0 .. MaxFaults
  BY JobsAssumption DEF Fault
<1>2. UNCHANGED delivery => UNCHANGED <<Runner!store, at, Runner!memory>>
  BY DEF delivery, Runner!store, Runner!memory
<1>3. CASE Finance
  BY <1>3, SameFinance DEF Finance, Runner!Next, Runner!Finance
<1>4. ASSUME NEW j \in Jobs, DeadlinePasses(j)
      PROVE  ElsewhereStep
  BY <1>1, <1>2, <1>4 DEF DeadlinePasses, ElsewhereStep
<1>5. ASSUME NEW w \in Executors,
             Produce(w) \/ FindNothing(w) \/ \E j \in Jobs : Claim(w, j)
      PROVE  ElsewhereStep
  BY <1>1, <1>2, <1>5 DEF Produce, Scan, List, Insert, FindNothing, Claim, ElsewhereStep
<1>6. ASSUME NEW w \in Executors, StartIntent(w)
      PROVE  Runner!Next
  <2>1. PICK c \in claims[w] : Delivery!RunIntent(w, c.job.intent)
    BY <1>6 DEF StartIntent
  <2>2. c.job.intent \in Intents
    BY DEF LeaseType, Grants, Jobs
  <2> QED  BY <2>1, <2>2, SameAttempt DEF Runner!Next, Runner!Executor
<1>7. ASSUME NEW w \in Executors, AttemptIntent(w) \/ ReleaseJob(w) \/ AttemptThrows(w)
      PROVE  Runner!Next
  BY <1>7, SameAttempt
     DEF AttemptIntent, ReleaseJob, AttemptThrows, Runner!Next, Runner!Executor
<1>8. ASSUME NEW w \in Executors, ReleaseThrows(w) \/ PassEnds(w)
      PROVE  ForgottenStep(w)
  BY <1>1, <1>8, SameAttempt DEF ReleaseThrows, PassEnds, ForgottenStep, Runner!store
<1>9. CASE UNCHANGED vars
  BY <1>1, <1>2, <1>9 DEF vars, ElsewhereStep
<1> QED
  BY <1>3, <1>4, <1>5, <1>6, <1>7, <1>8, <1>9 DEF Next, Handle

LEMMA RunnerStarts == Init => Runner!IInv
<1>1. Init => Runner!Init
  BY DEF Init, Delivery!Init, Runner!Init, Delivery!NotInserted, Runner!NotInserted
<1> QED  BY <1>1, RunnerAssumption, Runner!InitIInv

LEMMA RunnerStep ==
  ASSUME LeaseType, Runner!IInv, [Next]_vars
  PROVE  Runner!IInv' /\ ([Runner!Next]_(Runner!vars) \/ UNCHANGED Runner!store)
<1>1. faults \in 0 .. MaxFaults
  BY DEF Runner!IInv, Runner!TypeOK
<1>2. CASE Runner!Next
  BY <1>2, RunnerAssumption, Runner!NextIInv
<1>3. ASSUME NEW w \in Executors, ForgottenStep(w)
      PROVE  Runner!IInv' /\ UNCHANGED Runner!store
  BY <1>3, RunnerAssumption, Runner!ForgottenKeeps DEF ForgottenStep
<1>4. CASE ElsewhereStep
  BY <1>4, RunnerAssumption, Runner!FaultKeeps DEF ElsewhereStep
<1> QED  BY <1>1, <1>2, <1>3, <1>4, JobsStep DEF ElsewhereStep

LEMMA RunnerInvariant == Spec => []Runner!IInv
<1>1. LeaseType /\ Runner!IInv /\ [Next]_vars => Runner!IInv'
  BY RunnerStep
<1>2. LeaseType /\ ClaimsInv => LeaseType
  OBVIOUS
<1> QED  BY <1>1, <1>2, RunnerStarts, LeasesInvariant, PTL DEF Spec

(***************************************************************************)
(* Any number of processes use jobs only as JobLeases allows, which        *)
(* LeaseScheduler implements: what a handler relies on is what the         *)
(* scheduler was shown to give.                                            *)
(***************************************************************************)
THEOREM JobsFollowLeases == Spec => Lease!Spec
<1>1. Init => Lease!Init  BY DEF Init
<1> QED  BY <1>1, StepFollowsLeases, PTL DEF Spec, Lease!Spec

(***************************************************************************)
(* Of the processes that believe they run a job, one at most is not        *)
(* fenced: jobs granted again have one claim whose release is accepted.    *)
(***************************************************************************)
OneActiveClaim ==
  \A v, w \in Executors : \A c \in claims[v], d \in claims[w] :
    Lease!Active(v) /\ Lease!Active(w) /\ c.job = d.job => v = w

\* The release of a job is accepted from one process at most.
THEOREM JobsHaveOneActiveClaim == Spec => []OneActiveClaim
<1>1. LeaseType /\ ClaimsInv => OneActiveClaim
  BY DEF LeaseType, ClaimsInv, OneActiveClaim, Lease!Active, Grants
<1> QED  BY <1>1, LeasesInvariant, PTL

(***************************************************************************)
(* With any number of processes, intent, receipt and provider ledger agree *)
(* on every settled action: leases that run out under a handler, jobs      *)
(* granted twice, passes cut off and deadlines cannot make them differ.    *)
(***************************************************************************)
THEOREM JobsDeliverTruthfully == Spec => []Delivery!SettledTruthfully
<1>1. Runner!IInv => Delivery!SettledTruthfully
  BY DEF Runner!IInv, Runner!SettledTruthfully, Delivery!SettledTruthfully, Runner!StateOf,
         Delivery!StateOf
<1> QED  BY <1>1, RunnerInvariant, PTL

(***************************************************************************)
(* End to end: intents that reach the provider through jobs, leases and    *)
(* executors behave as ActionSettlement promises finance.  Two processes   *)
(* may leave an intent to a job that is completed, but they cannot have it *)
(* executed twice or recorded otherwise than it was.                       *)
(***************************************************************************)
THEOREM JobsImplementSettlement == Spec => Delivery!ImplementsSettlement
<1>1. Init => Delivery!Delivery!Init
  BY DEF Init, Delivery!Init, Delivery!NotInserted, Delivery!Delivery!Init
<1>2. LeaseType /\ Runner!IInv /\ [Next]_vars => [Delivery!Delivery!Next]_(Delivery!Delivery!vars)
  <2> SUFFICES ASSUME LeaseType, Runner!IInv, [Next]_vars
               PROVE  [Runner!Delivery!Next]_(Runner!Delivery!vars)
    BY SameSettlement DEF Delivery!Delivery!vars, Runner!Delivery!vars
  <2>1. CASE [Runner!Next]_(Runner!vars)
    BY <2>1, RunnerAssumption, Runner!RefinesNext
  <2>2. CASE UNCHANGED Runner!store
    BY <2>2 DEF Runner!store, Runner!Delivery!vars
  <2> QED  BY <2>1, <2>2, RunnerStep
<1>3. LeaseType /\ ClaimsInv => LeaseType
  OBVIOUS
<1> QED
  BY <1>1, <1>2, <1>3, LeasesInvariant, RunnerInvariant, PTL
     DEF Spec, Delivery!ImplementsSettlement, Delivery!Delivery!Spec

(***************************************************************************)
(* What has settled stays settled, whichever jobs of an intent are granted *)
(* again, retried or failed after that.                                    *)
(***************************************************************************)
THEOREM SettledActionsAreFinal == Spec => Delivery!SettledIsFinal
<1> DEFINE Kept == \A i \in Intents : Runner!Final(i)
<1>1. ASSUME LeaseType, Runner!IInv, [Next]_vars
      PROVE  Kept
  <2>1. CASE [Runner!Next]_(Runner!vars)
    BY <1>1, <2>1, RunnerAssumption, Runner!FinalStep
  <2>2. CASE UNCHANGED Runner!store
    BY <2>2 DEF Runner!store, Runner!Final
  <2> QED  BY <1>1, <2>1, <2>2, RunnerStep
<1>2. Kept => [\A i \in Intents :
                 /\ intent[i].state \in Delivery!TerminalStates => intent'[i] = intent[i]
                 /\ receipt[i] # "none" => receipt'[i] = receipt[i]
                 /\ operation[i] # "none" => operation'[i] = operation[i]]_(Delivery!vars)
  BY DEF Runner!Final, Runner!TerminalStates, Delivery!TerminalStates
<1>3. LeaseType /\ ClaimsInv => LeaseType
  OBVIOUS
<1> HIDE DEF Kept
<1>4. LeaseType /\ Runner!IInv /\ [Next]_vars => Kept
  BY <1>1
<1> QED
  BY <1>2, <1>3, <1>4, LeasesInvariant, RunnerInvariant, PTL DEF Spec, Delivery!SettledIsFinal

-----------------------------------------------------------------------------
(* One owner, from there.                                                  *)

LEMMA NextOwner ==
  ASSUME OneProcess, OwnerInv, Runner!IInv, [Next]_vars
  PROVE  OwnerInv'
<1>0. \A i \in Intents : intent[i].revision \in Nat
  BY DEF Runner!IInv, Runner!TypeOK, Runner!StoredIntents
<1>1. CASE Finance
  BY <1>1, IdleOwner DEF Finance
<1>2. ASSUME NEW j \in Jobs, DeadlinePasses(j)
      PROVE  OwnerInv'
  BY <1>2, DeadlineOwner
<1>3. ASSUME NEW w \in Executors, Produce(w)
      PROVE  OwnerInv'
  BY <1>0, <1>3, ScanOwner, ListOwner, InsertOwner DEF Produce
<1>4. ASSUME NEW w \in Executors, FindNothing(w)
      PROVE  OwnerInv'
  <2>1. UNCHANGED <<delivery, jobs, found, plan>> /\ phase' = [phase EXCEPT ![w] = "scan"]
    BY <1>4 DEF FindNothing, Goto
  <2>2. LoopType' /\ LeaseType' /\ UNCHANGED <<stage, found, plan>>
    BY <2>1 DEF OwnerInv, LoopType, LeaseType, jobs
  <2> QED  BY <2>2, NoneRevives
<1>5. ASSUME NEW w \in Executors, NEW j \in Jobs, Claim(w, j)
      PROVE  OwnerInv'
  BY <1>5, ClaimOwner
<1>6. ASSUME NEW w \in Executors, StartIntent(w) \/ AttemptIntent(w) \/ AttemptThrows(w)
      PROVE  OwnerInv'
  BY <1>6, IdleOwner DEF StartIntent, AttemptIntent, AttemptThrows
<1>7. ASSUME NEW w \in Executors, ReleaseJob(w) \/ ReleaseThrows(w)
      PROVE  OwnerInv'
  BY <1>7, EndOwner, ReleaseStages DEF ReleaseJob, ReleaseThrows, Goto
<1>8. ASSUME NEW w \in Executors, PassEnds(w)
      PROVE  OwnerInv'
  BY <1>8, PassEndsOwner DEF PassEnds
<1>9. CASE UNCHANGED vars
  BY <1>9, IdleOwner DEF vars
<1> QED
  BY <1>1, <1>2, <1>3, <1>4, <1>5, <1>6, <1>7, <1>8, <1>9 DEF Next, Handle

(***************************************************************************)
(* job-handler.ts: a non-failed job owns its intent.  Passes of one        *)
(* producer, cut off at any call and repeated, never leave two unended     *)
(* jobs for one intent, for any intents, attempts and faults.              *)
(***************************************************************************)
THEOREM IntentsHaveOneOwner == ASSUME OneProcess PROVE Spec => []OneOwner
<1>1. OwnerInv /\ Runner!IInv /\ [Next]_vars => OwnerInv'  BY NextOwner
<1>2. OwnerInv => OneOwner  BY DEF OwnerInv
<1> QED  BY <1>1, <1>2, InitOwnerInv, RunnerInvariant, PTL DEF Spec
=============================================================================
