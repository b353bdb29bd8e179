----------------------------- MODULE AgentProofs -----------------------------
(***************************************************************************)
(* What agents' work may rely on.                                          *)
(*                                                                         *)
(* Admission: for every policy with MaxConsecutiveP0 < MaxConsecutiveNonP2 *)
(* and any jobs, while an essential P1 job that heads its class waits,     *)
(* selections that pass it over are P0 selections, of which at most        *)
(* MaxConsecutiveP0 fit between two resets of the P0 counter, and at most  *)
(* one P2 selection, since a second one would need more P0 selections than *)
(* fit.                                                                    *)
(*                                                                         *)
(* Tools: for any calls, invocations, durations and bounds, the gateway    *)
(* hands an agent a result only under the lease its call was made under. A *)
(* call knows an expiry that its lease has not gone back behind; when the  *)
(* lease was given up the call was aborted, and when another one was       *)
(* granted it was aborted before or the expiry it knows is past.           *)
(*                                                                         *)
(* Memory: a reader that follows the cursors of the paged query misses no  *)
(* posting that was there and visible all along, for any page sizes and    *)
(* imports.                                                                *)
(*                                                                         *)
(* Graph: for any entities, relationships, questions and seeding between   *)
(* the reads, an answer visits what its principal can reach, up to the     *)
(* cap, gives every relationship it followed with both its ends, says when *)
(* it is incomplete, and has the summary of what it shows.                 *)
(***************************************************************************)
EXTENDS AdmissionFairness, AgentTools, MemoryPages, GraphContext, FiniteSums

-----------------------------------------------------------------------------
(***************************************************************************)
(* Admission: AdmissionFairness.                                           *)
(***************************************************************************)
(***************************************************************************)
(* A waiting reserved job was passed over by P0 jobs alone, each of which  *)
(* the P0 counter still holds, or also by one P2 job, whose reset left the *)
(* nonP2 counter no larger than the P0 counter.                            *)
(***************************************************************************)
Explained(j) ==
  \/ passedOver[j] <= fairness.consecutiveP0
  \/ /\ passedOver[j] <= MaxConsecutiveP0 + 1 + fairness.consecutiveP0
     /\ fairness.consecutiveNonP2 <= fairness.consecutiveP0

WaitInv ==
  \A j \in Reserved : IF j \in waiting THEN Explained(j) ELSE passedOver[j] = 0

WaitsInv == AdmissionTypeOK /\ WaitInv

LEMMA InitWaits == AdmissionInit => WaitsInv
BY AdmissionAssumption
   DEF AdmissionInit, WaitsInv, AdmissionTypeOK, WaitInv, InitialFairness, Counters, CountCap, WaitBound

(***************************************************************************)
(* What selectNextJob can prefer to a waiting reserved job: a P0 job while *)
(* the reserved turn has not come, or a P2 job at the aged turn.           *)
(***************************************************************************)
LEMMA PassingOver ==
  ASSUME NEW r \in Reserved, r \in waiting, NEW k \in Jobs, k # r,
         NEW eligibleAt, NEW time, waiting \subseteq Jobs,
         Selects(k, waiting, eligibleAt, time, fairness),
         AdmissionTypeOK
  PROVE  /\ k \in waiting
         /\ \/ Priority[k] = "P0" /\ fairness.consecutiveP0 < MaxConsecutiveP0
            \/ Priority[k] = "P2" /\ fairness.consecutiveNonP2 >= MaxConsecutiveNonP2
<1> DEFINE p0 == OfClass(waiting, "P0")
           p1 == OfClass(waiting, "P1")
           p2 == OfClass(waiting, "P2")
           aged == {j \in p2 : time - eligibleAt[j] >= P2Aging}
<1>1. r \in p1 \cap Essential
  BY DEF Reserved, OfClass
<1>2. k \in Favoured(waiting, eligibleAt, time, fairness)
  BY DEF Selects, Heads
<1>3. ASSUME k \in p1, r \in Favoured(waiting, eligibleAt, time, fairness) PROVE FALSE
  <2>1. Before(k, r, eligibleAt)
    BY <1>3 DEF Selects, Heads
  <2>2. Deadline[r] < Deadline[k]
    BY <1>3 DEF Reserved, OfClass
  <2> QED
    BY <2>1, <2>2, AdmissionAssumption DEF Before, Reserved, OfClass
<1>4. CASE p0 # {} /\ EssentialTurn(fairness)
  <2>1. Favoured(waiting, eligibleAt, time, fairness) = p1 \cap Essential
    BY <1>1, <1>4 DEF Favoured
  <2> QED
    BY <1>1, <1>2, <1>3, <2>1
<1>5. CASE p0 # {} /\ ~EssentialTurn(fairness)
  <2>1. Favoured(waiting, eligibleAt, time, fairness) = p0
    BY <1>5 DEF Favoured
  <2>2. fairness.consecutiveP0 < MaxConsecutiveP0
    BY <1>5, AdmissionAssumption DEF EssentialTurn, AdmissionTypeOK, Counters
  <2> QED
    BY <1>2, <2>1, <2>2 DEF OfClass
<1>6. CASE p0 = {} /\ AgedTurn(fairness) /\ aged # {}
  <2>1. Favoured(waiting, eligibleAt, time, fairness) = aged
    BY <1>6 DEF Favoured
  <2> QED
    BY <1>2, <1>6, <2>1 DEF OfClass, AgedTurn
<1>7. CASE p0 = {} /\ ~(AgedTurn(fairness) /\ aged # {})
  <2>1. Favoured(waiting, eligibleAt, time, fairness) = p1
    BY <1>1, <1>7 DEF Favoured
  <2> QED
    BY <1>1, <1>2, <1>3, <2>1
<1> QED
  BY <1>4, <1>5, <1>6, <1>7

LEMMA FairnessType ==
  ASSUME fairness \in Counters, NEW class
  PROVE  NextFairness(class, fairness) \in Counters
BY AdmissionAssumption DEF Counters, NextFairness, Smaller

LEMMA NextWaits == WaitsInv /\ [AdmissionNext]_admissionVars => WaitsInv'
<1> SUFFICES ASSUME WaitsInv, [AdmissionNext]_admissionVars PROVE WaitsInv'
  OBVIOUS
<1> USE DEF WaitsInv
<1>1. ASSUME NEW j \in Jobs, Arrive(j) PROVE WaitsInv'
  BY <1>1, AdmissionAssumption DEF Arrive, AdmissionTypeOK, WaitInv, Explained, Counters, Reserved, OfClass
<1>2. ASSUME NEW j \in Jobs, Age(j) PROVE WaitsInv'
  BY <1>2, AdmissionAssumption DEF Age, AdmissionTypeOK, WaitInv, Explained
<1>3. ASSUME NEW j \in Jobs, Admit(j) PROVE WaitsInv'
  <2> DEFINE p0 == fairness.consecutiveP0
             n  == fairness.consecutiveNonP2
  <2>1. AdmissionTypeOK'
    <3>1. fairness' \in Counters
      BY <1>3, FairnessType DEF Admit, AdmissionTypeOK
    <3>2. waited' \in [Jobs -> 0 .. P2Aging]
      BY <1>3, AdmissionAssumption DEF Admit, AdmissionTypeOK
    <3>3. passedOver' \in [Reserved -> 0 .. CountCap]
      BY <1>3, AdmissionAssumption DEF Admit, AdmissionTypeOK, CountCap, WaitBound, Smaller
    <3> QED
      BY <1>3, <3>1, <3>2, <3>3 DEF Admit, AdmissionTypeOK
  <2>2. ASSUME NEW r \in Reserved, r \in waiting', r # j PROVE Explained(r)'
    <3>1. r \in waiting /\ r \in Jobs
      BY <1>3, <2>2 DEF Admit, Reserved, OfClass
    <3>2. passedOver'[r] = Smaller(passedOver[r] + 1, CountCap)
      BY <1>3, <2>2, <3>1 DEF Admit
    <3>3. passedOver'[r] <= passedOver[r] + 1
      BY <3>2, AdmissionAssumption DEF Smaller, AdmissionTypeOK, CountCap, WaitBound
    <3>4. /\ p0 \in 0 .. MaxConsecutiveP0 /\ n \in 0 .. MaxConsecutiveNonP2
          /\ passedOver[r] \in Nat /\ passedOver'[r] \in Nat
      BY <2>1, AdmissionAssumption DEF AdmissionTypeOK, Counters, CountCap, WaitBound
    <3>5. Explained(r)
      BY <3>1 DEF WaitInv
    <3>6. \/ Priority[j] = "P0" /\ p0 < MaxConsecutiveP0
          \/ Priority[j] = "P2" /\ n >= MaxConsecutiveNonP2
      BY <1>3, <2>2, <3>1, PassingOver DEF Admit, AdmissionTypeOK
    <3>7. CASE Priority[j] = "P0" /\ p0 < MaxConsecutiveP0
      <4>1. /\ fairness'.consecutiveP0 = p0 + 1
            /\ fairness'.consecutiveNonP2 <= n + 1
        BY <1>3, <3>4, <3>7, AdmissionAssumption DEF Admit, NextFairness, Smaller
      <4>2. fairness'.consecutiveNonP2 \in Nat
        BY <2>1, AdmissionAssumption DEF AdmissionTypeOK, Counters
      <4> QED
        BY <3>3, <3>4, <3>5, <4>1, <4>2, AdmissionAssumption DEF Explained
    <3>8. CASE Priority[j] = "P2" /\ n >= MaxConsecutiveNonP2
      <4>1. fairness'.consecutiveP0 = 0 /\ fairness'.consecutiveNonP2 = 0
        BY <1>3, <3>8 DEF Admit, NextFairness
      <4>2. passedOver[r] <= p0
        BY <3>4, <3>5, <3>8, AdmissionAssumption, LimitsOrdered DEF Explained
      <4> QED
        BY <3>3, <3>4, <4>1, <4>2, AdmissionAssumption DEF Explained
    <3> QED
      BY <3>6, <3>7, <3>8
  <2>3. ASSUME NEW r \in Reserved, r \notin waiting' PROVE passedOver'[r] = 0
    BY <1>3, <2>3 DEF Admit
  <2>4. j \notin waiting'
    BY <1>3 DEF Admit
  <2> QED
    BY <2>1, <2>2, <2>3, <2>4 DEF WaitInv
<1>4. CASE UNCHANGED admissionVars
  BY <1>4 DEF admissionVars, AdmissionTypeOK, WaitInv, Explained
<1> QED
  BY <1>1, <1>2, <1>3, <1>4 DEF AdmissionNext

(***************************************************************************)
(* Type correctness of the admission model.                                *)
(***************************************************************************)
THEOREM AdmissionTypes == AdmissionSpec => []AdmissionTypeOK
<1>1. WaitsInv => AdmissionTypeOK
  BY DEF WaitsInv
<1> QED
  BY <1>1, InitWaits, NextWaits, PTL DEF AdmissionSpec

(***************************************************************************)
(* Whatever the policy's limits, the jobs and the arrivals, an essential   *)
(* P1 job at the head of its class is passed over at most                  *)
(* 2 * MaxConsecutiveP0 + 1 times: the capacity selectNextJob reserves.    *)
(***************************************************************************)
THEOREM CapacityIsReserved == AdmissionSpec => []ReservedCapacity
<1>1. WaitsInv => ReservedCapacity
  BY AdmissionAssumption
     DEF WaitsInv, AdmissionTypeOK, WaitInv, Explained, ReservedCapacity, WaitBound, Counters, CountCap
<1> QED
  BY <1>1, InitWaits, NextWaits, PTL DEF AdmissionSpec

-----------------------------------------------------------------------------
(***************************************************************************)
(* Tools: AgentTools.                                                      *)
(***************************************************************************)
Bound   == {"resolving", "resolved", "authorizing", "checking", "requested"}
Granted == Bound \ {"resolving"}

(* What a call may be under a lease at an instant. *)
Sound(k, l, time) ==
  /\ k.phase \in Bound \cup {"idle", "ended"}
  /\ k.phase \in Bound => /\ {"phase", "bound", "aborted"} \subseteq DOMAIN k
                          /\ k.bound \in Nat /\ k.aborted \in BOOLEAN
  /\ k.phase \in Granted =>
       /\ "expires" \in DOMAIN k
       /\ k.expires \in Int /\ k.bound <= l.generation
       /\ k.bound = l.generation => k.expires <= l.expires /\ (~l.held => k.aborted)
       /\ k.bound < l.generation => k.aborted \/ k.expires <= time

CallsInv ==
  /\ now \in Nat
  /\ lease \in [generation : Nat, held : BOOLEAN, expires : Int]
  /\ lease.expires <= now + LeaseDuration
  /\ call = [c \in Calls |-> call[c]]
  /\ \A c \in Calls : Sound(call[c], lease, now)

LEMMA InitCalls == AgentInit => CallsInv
BY GatewayAssumption DEF AgentInit, CallsInv, Sound, Bound, Granted, Idle

(***************************************************************************)
(* A step of one call leaves the others as they were.                      *)
(***************************************************************************)
LEMMA OneCall ==
  ASSUME CallsInv, UNCHANGED <<now, lease>>, NEW c \in Calls, NEW k,
         call' = [call EXCEPT ![c] = k], Sound(k, lease, now)
  PROVE  CallsInv'
<1>1. \A d \in Calls : call'[d] = IF d = c THEN k ELSE call[d]
  BY DEF CallsInv
<1>2. \A d \in Calls : Sound(call'[d], lease', now')
  BY <1>1 DEF CallsInv, Sound
<1> QED
  BY <1>2 DEF CallsInv

LEMMA InvokeCall ==
  ASSUME CallsInv, NEW c \in Calls, NEW invocation, Invoke(c, invocation)
  PROVE  CallsInv'
<1>1. PICK generation \in 1..lease.generation :
        call' = [call EXCEPT ![c] = [phase |-> "resolving", ask |-> invocation, bound |-> generation, aborted |-> FALSE]]
  BY DEF Invoke
<1>2. Sound([phase |-> "resolving", ask |-> invocation, bound |-> generation, aborted |-> FALSE], lease, now)
  BY DEF Sound, Bound, Granted, CallsInv
<1> QED
  BY <1>1, <1>2, OneCall DEF Invoke

LEMMA EndedIsSound ==
  ASSUME NEW k, k.phase = "ended"
  PROVE  Sound(k, lease, now)
BY DEF Sound, Bound, Granted

LEMMA ResolveCall ==
  ASSUME CallsInv, NEW c \in Calls, Resolve(c)
  PROVE  CallsInv'
<1> DEFINE k == call[c]
           resolved == [phase |-> "resolved", ask |-> k.ask, bound |-> k.bound,
                        aborted |-> k.aborted, expires |-> lease.expires]
<1>1. k.bound \in Nat /\ k.aborted \in BOOLEAN
  BY DEF Resolve, CallsInv, Sound, Bound
<1>2. CASE lease.held /\ lease.generation = k.bound
  <2>1. call' = [call EXCEPT ![c] = resolved]
    BY <1>2 DEF Resolve
  <2>2. Sound(resolved, lease, now)
    BY <1>1, <1>2 DEF Sound, Bound, Granted, CallsInv
  <2> QED
    BY <2>1, <2>2, OneCall DEF Resolve
<1>3. CASE ~(lease.held /\ lease.generation = k.bound)
  <2>1. call' = [call EXCEPT ![c] = Ended("unresolved")]
    BY <1>3 DEF Resolve
  <2> QED
    BY <2>1, EndedIsSound, OneCall DEF Resolve, Ended
<1> QED
  BY <1>2, <1>3

(***************************************************************************)
(* A later phase of a call that has kept its lease and its abortion.       *)
(***************************************************************************)
LEMMA NextPhase ==
  ASSUME CallsInv, NEW c \in Calls, call[c].phase \in Granted, NEW k,
         k.phase \in Granted, {"phase", "bound", "aborted", "expires"} \subseteq DOMAIN k,
         k.bound = call[c].bound, k.expires = call[c].expires,
         k.aborted = call[c].aborted
  PROVE  Sound(k, lease, now)
BY DEF CallsInv, Sound, Bound, Granted

LEMMA StartCall ==
  ASSUME CallsInv, NEW c \in Calls, Start(c)
  PROVE  CallsInv'
<1> DEFINE k == call[c]
           started == [phase |-> "authorizing", ask |-> k.ask, bound |-> k.bound, aborted |-> k.aborted,
                       expires |-> k.expires, started |-> now]
<1>1. \/ \E outcome : call' = [call EXCEPT ![c] = Ended(outcome)]
      \/ call' = [call EXCEPT ![c] = started]
  BY DEF Start
<1>2. Sound(started, lease, now)
  BY NextPhase DEF Start, Bound, Granted
<1> QED
  BY <1>1, <1>2, EndedIsSound, OneCall DEF Start, Ended

LEMMA AuthorizeCall ==
  ASSUME CallsInv, NEW c \in Calls, Authorize(c)
  PROVE  CallsInv'
<1> DEFINE k == call[c]
           timer == now + Min2(MaxToolDuration, k.expires - k.started)
           checking == [phase |-> "checking", ask |-> k.ask, bound |-> k.bound, aborted |-> FALSE,
                        expires |-> k.expires, timer |-> timer]
<1>1. \/ \E outcome : call' = [call EXCEPT ![c] = Ended(outcome)]
      \/ ~k.aborted /\ call' = [call EXCEPT ![c] = checking]
  BY DEF Authorize
<1>2. ASSUME ~k.aborted PROVE Sound(checking, lease, now)
  <2>1. k.aborted = FALSE
    BY <1>2 DEF Authorize, CallsInv, Sound, Bound
  <2> QED
    BY <2>1, NextPhase DEF Authorize, Bound, Granted
<1> QED
  BY <1>1, <1>2, EndedIsSound, OneCall DEF Authorize, Ended

LEMMA ForwardCall ==
  ASSUME CallsInv, NEW c \in Calls, NEW authorized \in BOOLEAN, Forward(c, authorized)
  PROVE  CallsInv'
<1> DEFINE requested == [call[c] EXCEPT !.phase = "requested"]
<1>1. \/ \E outcome : call' = [call EXCEPT ![c] = Ended(outcome)]
      \/ call' = [call EXCEPT ![c] = requested]
  BY DEF Forward
<1>2. call[c].phase \in Granted
  BY DEF Forward, Bound, Granted
<1>3. {"phase", "bound", "aborted", "expires"} \subseteq DOMAIN call[c]
  BY <1>2 DEF CallsInv, Sound, Granted
<1>4. /\ requested.phase = "requested"
      /\ DOMAIN requested = DOMAIN call[c]
      /\ requested.bound = call[c].bound
      /\ requested.expires = call[c].expires
      /\ requested.aborted = call[c].aborted
  BY <1>3
<1>5. Sound(requested, lease, now)
  <2> HIDE DEF requested
  <2> QED
    BY <1>2, <1>3, <1>4, NextPhase DEF Bound, Granted
<1> QED
  BY <1>1, <1>5, EndedIsSound, OneCall DEF Forward, Ended

LEMMA AnswerCall ==
  ASSUME CallsInv, NEW c \in Calls, NEW ok \in BOOLEAN, Answer(c, ok)
  PROVE  CallsInv'
<1> DEFINE delivered == [phase |-> "ended", outcome |-> "delivered", bound |-> call[c].bound]
<1>1. \/ \E outcome : call' = [call EXCEPT ![c] = Ended(outcome)]
      \/ call' = [call EXCEPT ![c] = delivered]
  BY DEF Answer
<1> QED
  BY <1>1, EndedIsSound, OneCall DEF Answer, Ended

(***************************************************************************)
(* Aborting a call, which the timer and the end of a run do, keeps it.     *)
(***************************************************************************)
LEMMA AbortedIsSound ==
  ASSUME NEW k, NEW l, NEW time, Sound(k, l, time), k.phase \in Bound
  PROVE  LET aborted == [k EXCEPT !.aborted = TRUE]
         IN  Sound(aborted, l, time) /\ aborted.aborted
<1> DEFINE aborted == [k EXCEPT !.aborted = TRUE]
<1>1. {"phase", "bound", "aborted"} \subseteq DOMAIN k
  BY DEF Sound
<1>2. /\ DOMAIN aborted = DOMAIN k
      /\ aborted.phase = k.phase
      /\ aborted.bound = k.bound
      /\ aborted.aborted = TRUE
  BY <1>1
<1>3. k.phase \in Granted => "expires" \in DOMAIN k /\ aborted.expires = k.expires
  BY DEF Sound
<1> HIDE DEF aborted
<1>4. Sound(aborted, l, time) /\ aborted.aborted
  BY <1>1, <1>2, <1>3 DEF Sound, Granted
<1> QED
  BY <1>4 DEF aborted

LEMMA FireTimerCall ==
  ASSUME CallsInv, NEW c \in Calls, FireTimer(c)
  PROVE  CallsInv'
<1> DEFINE aborted == [call[c] EXCEPT !.aborted = TRUE]
<1>1. call' = [call EXCEPT ![c] = aborted]
  BY DEF FireTimer, CallsInv
<1>2. Sound(aborted, lease, now)
  BY AbortedIsSound DEF FireTimer, CallsInv, Bound
<1> QED
  BY <1>1, <1>2, OneCall DEF FireTimer

(***************************************************************************)
(* Time, a renewal and a later grant do not disturb the calls.             *)
(***************************************************************************)
LEMMA TickCall ==
  ASSUME CallsInv, Tick
  PROVE  CallsInv'
<1>1. now' = now + 1 /\ lease' = lease /\ call' = call /\ now \in Nat
  BY DEF Tick, CallsInv
<1>2. ASSUME NEW c \in Calls PROVE Sound(call[c], lease, now + 1)
  BY <1>1 DEF CallsInv, Sound
<1> QED
  BY <1>1, <1>2, GatewayAssumption DEF CallsInv

LEMMA RenewCall ==
  ASSUME CallsInv, Renew
  PROVE  CallsInv'
<1>1. /\ lease'.generation = lease.generation
      /\ lease'.held = lease.held
      /\ lease'.expires = now + LeaseDuration
      /\ lease' \in [generation : Nat, held : BOOLEAN, expires : Int]
      /\ now' = now /\ call' = call
  <2>1. /\ lease \in [generation : Nat, held : BOOLEAN, expires : Int]
        /\ now + LeaseDuration \in Int
    BY GatewayAssumption DEF CallsInv
  <2>2. lease' = [lease EXCEPT !.expires = now + LeaseDuration]
    BY DEF Renew
  <2> QED
    BY <2>1, <2>2 DEF Renew
<1>2. ASSUME NEW c \in Calls PROVE Sound(call[c], lease', now)
  BY <1>1, GatewayAssumption DEF CallsInv, Sound
<1> QED
  BY <1>1, <1>2, GatewayAssumption DEF CallsInv

LEMMA ReleaseCall ==
  ASSUME CallsInv, Release
  PROVE  CallsInv'
<1>1. /\ lease'.generation = lease.generation
      /\ lease'.held = FALSE
      /\ lease'.expires = lease.expires
      /\ lease' \in [generation : Nat, held : BOOLEAN, expires : Int]
      /\ now' = now
  BY DEF Release, CallsInv
<1>2. ASSUME NEW c \in Calls PROVE Sound(call'[c], lease', now)
  <2>1. Sound(call[c], lease, now)
    BY DEF CallsInv
  <2>2. CASE Active(c) /\ call[c].bound = lease.generation
    <3> DEFINE aborted == [call[c] EXCEPT !.aborted = TRUE]
    <3>1. call'[c] = aborted
      BY <2>2 DEF Release
    <3>2. call[c].phase \in Bound
      BY <2>1, <2>2 DEF Active, Sound
    <3>3. Sound(aborted, lease, now) /\ aborted.aborted
      BY <2>1, <3>2, AbortedIsSound
    <3> HIDE DEF aborted
    <3> QED
      BY <1>1, <3>1, <3>3 DEF Sound
  <2>3. CASE ~(Active(c) /\ call[c].bound = lease.generation)
    <3>1. call'[c] = call[c]
      BY <2>3 DEF Release
    <3>2. call[c].phase \in Bound => call[c].bound # lease.generation
      BY <2>3 DEF Active, Bound
    <3> QED
      BY <1>1, <2>1, <3>1, <3>2 DEF Sound, Granted
  <2> QED
    BY <2>2, <2>3
<1>3. call' = [c \in Calls |-> call'[c]]
  BY DEF Release
<1> QED
  BY <1>1, <1>2, <1>3 DEF CallsInv

LEMMA ClaimCall ==
  ASSUME CallsInv, Claim
  PROVE  CallsInv'
<1>1. /\ lease'.generation = lease.generation + 1
      /\ lease'.held = TRUE
      /\ lease'.expires = now + LeaseDuration
      /\ lease' \in [generation : Nat, held : BOOLEAN, expires : Int]
      /\ now' = now /\ call' = call
  BY GatewayAssumption DEF Claim, CallsInv
<1>2. ASSUME NEW c \in Calls PROVE Sound(call[c], lease', now)
  <2>1. Sound(call[c], lease, now) /\ lease.generation \in Nat /\ lease.expires \in Int /\ now \in Nat
    BY DEF CallsInv
  <2>2. ~lease.held \/ lease.expires <= now
    BY DEF Claim
  <2> QED
    BY <1>1, <2>1, <2>2 DEF Sound, Granted
<1> QED
  BY <1>1, <1>2, GatewayAssumption DEF CallsInv

LEMMA NextCalls == CallsInv /\ [AgentNext]_avars => CallsInv'
<1> SUFFICES ASSUME CallsInv, [AgentNext]_avars
             PROVE  CallsInv'
  OBVIOUS
<1>1. ASSUME NEW c \in Calls, NEW invocation \in Invocations, Invoke(c, invocation) PROVE CallsInv'
  BY <1>1, InvokeCall
<1>2. ASSUME NEW c \in Calls, Resolve(c) PROVE CallsInv'
  BY <1>2, ResolveCall
<1>3. ASSUME NEW c \in Calls, Start(c) PROVE CallsInv'
  BY <1>3, StartCall
<1>4. ASSUME NEW c \in Calls, Authorize(c) PROVE CallsInv'
  BY <1>4, AuthorizeCall
<1>5. ASSUME NEW c \in Calls, FireTimer(c) PROVE CallsInv'
  BY <1>5, FireTimerCall
<1>6. ASSUME NEW c \in Calls, NEW ok \in BOOLEAN, Forward(c, ok) PROVE CallsInv'
  BY <1>6, ForwardCall
<1>7. ASSUME NEW c \in Calls, NEW ok \in BOOLEAN, Answer(c, ok) PROVE CallsInv'
  BY <1>7, AnswerCall
<1>8. CASE UNCHANGED avars
  BY <1>8 DEF avars, CallsInv, Sound
<1> QED
  BY <1>1, <1>2, <1>3, <1>4, <1>5, <1>6, <1>7, <1>8,
     TickCall, RenewCall, ReleaseCall, ClaimCall DEF AgentNext

(***************************************************************************)
(* Every call knows an expiry its lease has not gone back behind, and a    *)
(* call whose lease was given up or replaced is aborted or past its expiry *)
(* (gateway.ts:98-177 with the leases of the scheduler).                   *)
(***************************************************************************)
THEOREM CallsKnowTheirLease == AgentSpec => []CallsInv
BY InitCalls, NextCalls, PTL DEF AgentSpec

Delivers(c) == /\ call'[c] # call[c]
               /\ call'[c].phase = "ended"
               /\ call'[c].outcome = "delivered"

(***************************************************************************)
(* Only the answer to a call that has not lapsed hands over a result: the  *)
(* other ends of a call have outcomes of their own.                        *)
(***************************************************************************)
LEMMA OnlyOthersEnd ==
  ASSUME CallsInv, NEW d \in Calls, Delivers(d), NEW c \in Calls,
         NEW k, call' = [call EXCEPT ![c] = k],
         k.phase = "ended" => k.outcome # "delivered"
  PROVE  FALSE
<1>1. call'[d] = IF d = c THEN k ELSE call[d]
  BY DEF CallsInv
<1> QED
  BY <1>1 DEF Delivers

LEMMA DeliveredByAnswer ==
  ASSUME CallsInv, [AgentNext]_avars, NEW d \in Calls, Delivers(d)
  PROVE  Answer(d, TRUE) /\ ~Lapsed(call[d], now) /\ call'[d].bound = call[d].bound
<1>1. ASSUME NEW c \in Calls, NEW invocation \in Invocations, Invoke(c, invocation) PROVE FALSE
  <2>1. PICK generation \in 1..lease.generation :
          call' = [call EXCEPT ![c] = [phase |-> "resolving", ask |-> invocation, bound |-> generation, aborted |-> FALSE]]
    BY <1>1 DEF Invoke
  <2> QED
    BY <2>1, OnlyOthersEnd
<1>2. ASSUME NEW c \in Calls, Resolve(c) PROVE FALSE
  BY <1>2, OnlyOthersEnd DEF Resolve, Ended
<1>3. ASSUME NEW c \in Calls, Start(c) PROVE FALSE
  BY <1>3, OnlyOthersEnd DEF Start, Ended
<1>4. ASSUME NEW c \in Calls, Authorize(c) PROVE FALSE
  <2>1. Refusal(call[c].ask) # "delivered"
    BY DEF Refusal
  <2> QED
    BY <1>4, <2>1, OnlyOthersEnd DEF Authorize, Ended
<1>5. ASSUME NEW c \in Calls, FireTimer(c) PROVE FALSE
  <2>1. call' = [call EXCEPT ![c] = [call[c] EXCEPT !.aborted = TRUE]]
    BY <1>5 DEF FireTimer, CallsInv
  <2>2. Sound(call[c], lease, now) /\ call[c].phase \in {"checking", "requested"}
    BY <1>5 DEF FireTimer, CallsInv
  <2>3. [call[c] EXCEPT !.aborted = TRUE].phase = call[c].phase
    BY <2>2 DEF Sound, Bound
  <2> QED
    BY <2>1, <2>2, <2>3, OnlyOthersEnd
<1>6. ASSUME NEW c \in Calls, NEW ok \in BOOLEAN, Forward(c, ok) PROVE FALSE
  <2>1. Sound(call[c], lease, now) /\ call[c].phase = "checking"
    BY <1>6 DEF Forward, CallsInv
  <2>2. [call[c] EXCEPT !.phase = "requested"].phase = "requested"
    BY <2>1 DEF Sound, Bound
  <2> QED
    BY <1>6, <2>2, OnlyOthersEnd DEF Forward, Ended
<1>7. ASSUME Tick \/ Renew \/ Claim \/ UNCHANGED avars PROVE FALSE
  BY <1>7 DEF Tick, Renew, Claim, avars, Delivers
<1>8. ASSUME Release PROVE FALSE
  <2>1. CASE Active(d) /\ call[d].bound = lease.generation
    <3>1. call'[d] = [call[d] EXCEPT !.aborted = TRUE]
      BY <1>8, <2>1 DEF Release
    <3>2. Sound(call[d], lease, now) /\ call[d].phase # "ended"
      BY <2>1 DEF CallsInv, Active
    <3>3. call'[d].phase = call[d].phase
      BY <2>1, <3>1, <3>2 DEF Sound, Bound, Active
    <3> QED
      BY <3>2, <3>3 DEF Delivers
  <2>2. CASE ~(Active(d) /\ call[d].bound = lease.generation)
    BY <1>8, <2>2 DEF Release, Delivers
  <2> QED
    BY <2>1, <2>2
<1>9. ASSUME NEW c \in Calls, NEW ok \in BOOLEAN, Answer(c, ok)
      PROVE  Answer(d, TRUE) /\ ~Lapsed(call[d], now) /\ call'[d].bound = call[d].bound
  <2>1. CASE ~ok \/ Lapsed(call[c], now)
    BY <1>9, <2>1, OnlyOthersEnd DEF Answer, Ended
  <2>2. CASE ok /\ ~Lapsed(call[c], now)
    <3>1. call' = [call EXCEPT ![c] = [phase |-> "ended", outcome |-> "delivered", bound |-> call[c].bound]]
      BY <1>9, <2>2 DEF Answer
    <3>2. d = c
      BY <3>1 DEF Delivers, CallsInv
    <3>3. call'[d].bound = call[d].bound
      BY <3>1, <3>2 DEF CallsInv
    <3> QED
      BY <1>9, <2>2, <3>2, <3>3
  <2> QED
    BY <2>1, <2>2
<1> QED
  BY <1>1, <1>2, <1>3, <1>4, <1>5, <1>6, <1>7, <1>8, <1>9 DEF AgentNext

LEMMA DeliveredUnderLease ==
  ASSUME CallsInv, [AgentNext]_avars, NEW d \in Calls, Delivers(d)
  PROVE  lease.held /\ call'[d].bound = lease.generation /\ now < lease.expires
<1>1. Answer(d, TRUE) /\ ~Lapsed(call[d], now) /\ call'[d].bound = call[d].bound
  BY DeliveredByAnswer
<1>2. /\ Sound(call[d], lease, now) /\ call[d].phase = "requested"
      /\ lease.generation \in Nat /\ lease.held \in BOOLEAN /\ lease.expires \in Int /\ now \in Nat
  BY <1>1 DEF CallsInv, Answer
<1>3. /\ call[d].bound \in Nat /\ call[d].expires \in Int /\ call[d].bound <= lease.generation
      /\ ~call[d].aborted /\ now < call[d].expires
  BY <1>1, <1>2 DEF Sound, Bound, Granted, Lapsed
<1>4. call[d].bound = lease.generation
  BY <1>2, <1>3 DEF Sound, Bound, Granted
<1> QED
  BY <1>1, <1>2, <1>3, <1>4 DEF Sound, Bound, Granted

(***************************************************************************)
(* A tool's result reaches the agent only while the lease its call was     *)
(* made under is still the job's (ToolGateway.execute, gateway.ts:98-177). *)
(***************************************************************************)
THEOREM ResultsStayWithGrant == AgentSpec => ResultsBelongToTheGrant
<1>1. CallsInv /\ [AgentNext]_avars =>
        [\A c \in Calls : call'[c] # call[c] /\ call'[c].phase = "ended" /\ call'[c].outcome = "delivered"
            => lease.held /\ call'[c].bound = lease.generation /\ now < lease.expires]_avars
  BY DeliveredUnderLease DEF Delivers
<1> QED
  BY <1>1, CallsKnowTheirLease, PTL DEF AgentSpec, ResultsBelongToTheGrant

-----------------------------------------------------------------------------
(***************************************************************************)
(* Memory: MemoryPages.                                                    *)
(***************************************************************************)
Known == FirstPostings \cup LaterPostings
Placed(x) == x.id \in Nat /\ x.at \in Int

(* One posting of an identifier. *)
Distinct(set) == \A p, q \in set : p.id = q.id => p = q

Ordered(s) == \A i, j \in DOMAIN s : i < j => Follows(s[j], s[i])

(* A sequence that ends at a place or before it. *)
Upto(s, x) == \A i \in DOMAIN s : s[i] = x \/ Follows(x, s[i])

Holds(s, p) == \E i \in DOMAIN s : s[i] = p

LEMMA KnownArePlaced == \A p \in Known : Placed(p)
BY PagesAssumption DEF Known, Placed

LEMMA FollowsIsAnOrder ==
  ASSUME NEW p, NEW q, NEW r, Placed(p), Placed(q), Placed(r)
  PROVE  /\ ~Follows(p, p)
         /\ Follows(p, q) /\ Follows(q, r) => Follows(p, r)
         /\ ~Follows(p, q) /\ ~Follows(q, p) => p.id = q.id
BY DEF Follows, Placed

(***************************************************************************)
(* Sorting by rank: a finite set with one posting of an identifier is       *)
(* listed in full, latest first.                                            *)
(***************************************************************************)
LEMMA SortedIs ==
  ASSUME NEW S \in SUBSET Known, IsFiniteSet(S), Distinct(S)
  PROVE  /\ Sorted(S) \in Seq(S) /\ Sorted(S) \in Seq(Known) /\ Len(Sorted(S)) = Cardinality(S)
         /\ Ordered(Sorted(S))
         /\ \A p \in S : Holds(Sorted(S), p)
<1> DEFINE n == Cardinality(S)
           before(p) == {q \in S : Follows(p, q)}
           rank(p) == Cardinality(before(p))
           at(i) == CHOOSE p \in S : rank(p) = i - 1
<1>1. n \in Nat
  BY FS_CardinalityType
<1>2. \A p \in S : Placed(p)
  BY KnownArePlaced
<1>3. ASSUME NEW p \in S PROVE IsFiniteSet(before(p)) /\ rank(p) \in 0 .. n - 1
  <2>1. before(p) \in SUBSET (S \ {p})
    BY <1>2, FollowsIsAnOrder
  <2>2. IsFiniteSet(S \ {p}) /\ Cardinality(S \ {p}) = n - 1
    BY FS_RemoveElement
  <2>3. IsFiniteSet(before(p)) /\ rank(p) <= n - 1
    BY <2>1, <2>2, FS_Subset
  <2>4. rank(p) \in Nat
    BY <2>3, FS_CardinalityType
  <2> QED
    BY <1>1, <2>3, <2>4
<1>4. \A p \in S : rank(p) \in 0 .. n - 1
  BY <1>3
<1>5. ASSUME NEW p \in S, NEW q \in S, Follows(p, q) PROVE rank(q) < rank(p)
  <2>1. q \in before(p)
    BY <1>5
  <2>2. before(q) \in SUBSET (before(p) \ {q})
    <3>1. ASSUME NEW r \in before(q) PROVE Follows(p, r) /\ r # q
      BY <1>2, <1>5, FollowsIsAnOrder
    <3> QED
      BY <3>1
  <2>3. IsFiniteSet(before(p) \ {q}) /\ Cardinality(before(p) \ {q}) = rank(p) - 1
    BY <1>3, <2>1, FS_RemoveElement
  <2>4. rank(q) <= rank(p) - 1
    <3>1. Cardinality(before(q)) <= Cardinality(before(p) \ {q})
      <4> HIDE DEF before
      <4> QED
        BY <2>2, <2>3, FS_Subset
    <3> QED
      BY <2>3, <3>1
  <2>5. rank(p) \in Int /\ rank(q) \in Int
    <3> HIDE DEF n, rank
    <3> QED
      BY <1>1, <1>4
  <2> HIDE DEF rank
  <2> QED
    BY <2>4, <2>5
<1>6. ASSUME NEW p \in S, NEW q \in S, rank(p) = rank(q) PROVE p = q
  <2>1. ~Follows(p, q) /\ ~Follows(q, p)
    <3>1. ASSUME NEW r \in S, NEW t \in S, rank(r) = rank(t) PROVE ~Follows(r, t)
      <4>1. rank(r) \in Int /\ ~(rank(t) < rank(r))
        <5> HIDE DEF n, rank
        <5> QED  BY <1>1, <1>4, <3>1
      <4> HIDE DEF rank
      <4> QED  BY <1>5, <4>1
    <3> HIDE DEF rank
    <3> QED  BY <1>6, <3>1
  <2>2. p.id = q.id
    BY <1>2, <2>1, FollowsIsAnOrder
  <2> QED
    BY <2>2 DEF Distinct
<1>7. ASSUME NEW i \in 1 .. n PROVE \E p \in S : rank(p) = i - 1
  <2>1. SUFFICES ASSUME \A p \in S : rank(p) # i - 1 PROVE FALSE
    OBVIOUS
  <2> DEFINE others == (0 .. n - 1) \ {i - 1}
             f == [p \in S |-> rank(p)]
  <2>2. IsFiniteSet(0 .. n - 1) /\ Cardinality(0 .. n - 1) = n
    <3>1. 0 \in Int /\ n - 1 \in Int
      BY <1>1
    <3>2. IsFiniteSet(0 .. n - 1) /\ Cardinality(0 .. n - 1) = IF 0 > n - 1 THEN 0 ELSE (n - 1) - 0 + 1
      BY <3>1, FS_Interval
    <3> QED
      BY <1>1, <1>7, <3>2
  <2>3. i - 1 \in 0 .. n - 1
    BY <1>1, <1>7
  <2>4. IsFiniteSet(others) /\ Cardinality(others) = n - 1
    <3> DEFINE all == 0 .. n - 1
               k == i - 1
    <3>1. IsFiniteSet(all) /\ Cardinality(all) = n /\ k \in all
      BY <2>2, <2>3
    <3> HIDE DEF n, all, k
    <3>2. IsFiniteSet(all \ {k}) /\ Cardinality(all \ {k}) = n - 1
      BY <3>1, FS_RemoveElement
    <3> QED
      BY <3>2 DEF all, k
  <2>5. f \in [S -> others]
    BY <1>3, <2>1
  <2>6. Cardinality(others) < Cardinality(S)
    BY <1>1, <2>4
  <2>7. \E p, q \in S : p # q /\ f[p] = f[q]
    <3> HIDE DEF f, others
    <3> QED
      BY <2>4, <2>5, <2>6, FS_PigeonHole
  <2> QED
    BY <1>6, <2>7
<1>8. ASSUME NEW i \in 1 .. n PROVE at(i) \in S /\ rank(at(i)) = i - 1
  BY <1>7
<1>9. Sorted(S) = [i \in 1 .. n |-> at(i)]
  BY DEF Sorted
<1> HIDE DEF n, before, rank, at
<1>10. Sorted(S) \in [1 .. n -> S]
  BY <1>8, <1>9
<1>11. Sorted(S) \in Seq(S) /\ Len(Sorted(S)) = n /\ DOMAIN Sorted(S) = 1 .. n
  BY <1>1, <1>10
<1>12. \A p \in S : Holds(Sorted(S), p)
  <2>1. ASSUME NEW p \in S PROVE Holds(Sorted(S), p)
    <3> DEFINE k == rank(p) + 1
    <3>1. k \in 1 .. n /\ k - 1 = rank(p)
      BY <1>1, <1>4
    <3> HIDE DEF k
    <3>2. Sorted(S)[k] = at(k)
      BY <1>9, <3>1
    <3>3. at(k) \in S /\ rank(at(k)) = rank(p)
      BY <1>8, <3>1
    <3>4. at(k) = p
      BY <1>6, <3>3
    <3> QED
      BY <1>11, <3>1, <3>2, <3>4 DEF Holds
  <2> QED
    BY <2>1
<1>13. Ordered(Sorted(S))
  <2>1. ASSUME NEW i \in 1 .. n, NEW j \in 1 .. n, i < j PROVE Follows(at(j), at(i))
    <3>1. at(i) \in S /\ at(j) \in S /\ rank(at(i)) < rank(at(j))
      BY <1>1, <1>8, <2>1
    <3>2. rank(at(i)) \in Int /\ rank(at(j)) \in Int
      BY <1>1, <1>8, <2>1
    <3>3. ~Follows(at(i), at(j))
      BY <1>5, <3>1, <3>2
    <3>4. at(i) # at(j)
      BY <3>1, <3>2
    <3> QED
      BY <1>2, <3>1, <3>3, <3>4, FollowsIsAnOrder DEF Distinct
  <2> QED
    BY <1>9, <1>11, <2>1 DEF Ordered
<1>14. Sorted(S) \in Seq(Known)
  BY <1>1, <1>10
<1> QED
  BY <1>11, <1>12, <1>13, <1>14 DEF n

(***************************************************************************)
(* The invariant.  What a reader was shown is ordered and ends where it    *)
(* reads on, and a steady posting was shown or is yet to come.             *)
(***************************************************************************)
ImportsInv ==
  /\ currentPostings \subseteq Known /\ IsFiniteSet(currentPostings) /\ Distinct(currentPostings)
  /\ steady \subseteq {p \in currentPostings : Answers(p, restricted)}

Turning == /\ reader.limit \in PageLimits
           /\ reader.given \in Seq(Known)

Scanning == /\ Turning
            /\ Placed(reader.scan)
            /\ reader.visible \in Seq(Known)
            /\ Ordered(reader.given \o reader.visible)
            /\ Upto(reader.given \o reader.visible, reader.scan)

Shown(p) == Holds(reader.given \o reader.visible, p)

Finding == /\ Scanning
           /\ \A p \in steady : Shown(p) \/ Follows(p, reader.scan)

Filtering ==
  /\ Scanning
  /\ reader.batch \in Seq(Known)
  /\ Ordered(reader.batch)
  /\ \A i \in DOMAIN reader.batch : Follows(reader.batch[i], reader.scan)
  /\ \A i, j \in DOMAIN reader.batch : reader.batch[i].id = reader.batch[j].id => reader.batch[i] = reader.batch[j]
  /\ \A p \in steady : \/ Shown(p)
                       \/ Holds(reader.batch, p)
                       \/ Len(reader.batch) > reader.limit /\ Follows(p, Last(reader.batch))

Given == /\ Ordered(reader.given)
         /\ \A p \in steady : \/ Holds(reader.given, p)
                              \/ reader.at = "page" /\ Follows(p, Last(reader.given))

ReaderInv ==
  /\ reader.at \in {"idle", "finding", "filtering", "page", "end"}
  /\ reader.at = "finding" => Finding
  /\ reader.at = "filtering" => Filtering
  /\ reader.at \in {"page", "end"} => Turning /\ Given
  /\ reader.at = "page" => reader.given # <<>>

PagesInv == ImportsInv /\ ReaderInv

LEMMA InitPages == PagesInit => PagesInv
BY PagesAssumption DEF PagesInit, PagesInv, ImportsInv, ReaderInv, Known, Distinct

(***************************************************************************)
(* Sequences joined and cut.                                               *)
(***************************************************************************)
LEMMA Joined ==
  ASSUME NEW s \in Seq(Known), NEW t \in Seq(Known)
  PROVE  /\ s \o t \in Seq(Known) /\ Len(s \o t) = Len(s) + Len(t)
         /\ \A i \in DOMAIN s : i \in DOMAIN (s \o t) /\ (s \o t)[i] = s[i]
         /\ \A i \in DOMAIN t : Len(s) + i \in DOMAIN (s \o t) /\ (s \o t)[Len(s) + i] = t[i]
         /\ \A i \in DOMAIN (s \o t) : \/ i \in DOMAIN s /\ (s \o t)[i] = s[i]
                                       \/ i - Len(s) \in DOMAIN t /\ (s \o t)[i] = t[i - Len(s)] /\ i > Len(s)
OBVIOUS

LEMMA JoinedHolds ==
  ASSUME NEW s \in Seq(Known), NEW t \in Seq(Known), NEW p
  PROVE  Holds(s \o t, p) <=> Holds(s, p) \/ Holds(t, p)
<1>1. ASSUME Holds(s \o t, p) PROVE Holds(s, p) \/ Holds(t, p)
  <2>1. PICK i \in DOMAIN (s \o t) : (s \o t)[i] = p
    BY <1>1 DEF Holds
  <2> QED
    BY <2>1, Joined DEF Holds
<1>2. Holds(s, p) => Holds(s \o t, p)
  BY Joined DEF Holds
<1>3. ASSUME Holds(t, p) PROVE Holds(s \o t, p)
  <2>1. PICK i \in DOMAIN t : t[i] = p
    BY <1>3 DEF Holds
  <2>2. Len(s) + i \in DOMAIN (s \o t) /\ (s \o t)[Len(s) + i] = p
    BY <2>1, Joined
  <2> QED
    BY <2>2 DEF Holds
<1> QED
  BY <1>1, <1>2, <1>3

\* What follows the end of an ordered sequence extends it.
LEMMA JoinedOrdered ==
  ASSUME NEW s \in Seq(Known), NEW t \in Seq(Known), NEW x, Placed(x),
         Ordered(s), Upto(s, x), Ordered(t), \A i \in DOMAIN t : Follows(t[i], x)
  PROVE  Ordered(s \o t)
<1>1. ASSUME NEW i \in DOMAIN s, NEW j \in DOMAIN t PROVE Follows(t[j], s[i])
  <2>1. Placed(s[i]) /\ Placed(t[j])
    BY KnownArePlaced
  <2> QED
    BY <2>1, FollowsIsAnOrder DEF Upto
<1>2. ASSUME NEW i \in DOMAIN (s \o t), NEW j \in DOMAIN (s \o t), i < j
      PROVE  Follows((s \o t)[j], (s \o t)[i])
  <2>1. CASE j \in DOMAIN s /\ (s \o t)[j] = s[j]
    <3>1. i \in DOMAIN s /\ (s \o t)[i] = s[i]
      BY <1>2, <2>1, Joined
    <3> QED
      BY <1>2, <2>1, <3>1 DEF Ordered
  <2>2. CASE j - Len(s) \in DOMAIN t /\ (s \o t)[j] = t[j - Len(s)]
    <3>1. CASE i \in DOMAIN s /\ (s \o t)[i] = s[i]
      BY <1>1, <2>2, <3>1
    <3>2. CASE i - Len(s) \in DOMAIN t /\ (s \o t)[i] = t[i - Len(s)]
      <4>1. i - Len(s) < j - Len(s)
        BY <1>2
      <4> QED
        BY <2>2, <3>2, <4>1 DEF Ordered
    <3> QED
      BY <3>1, <3>2, Joined
  <2> QED
    BY <2>1, <2>2, Joined
<1> QED
  BY <1>2 DEF Ordered

LEMMA JoinedUpto ==
  ASSUME NEW s \in Seq(Known), NEW t \in Seq(Known), NEW x, Upto(s, x), Upto(t, x)
  PROVE  Upto(s \o t, x)
<1>1. ASSUME NEW i \in DOMAIN (s \o t) PROVE (s \o t)[i] = x \/ Follows(x, (s \o t)[i])
  <2>1. CASE i \in DOMAIN s /\ (s \o t)[i] = s[i]
    BY <2>1 DEF Upto
  <2>2. CASE i - Len(s) \in DOMAIN t /\ (s \o t)[i] = t[i - Len(s)]
    BY <2>2 DEF Upto
  <2> QED
    BY <2>1, <2>2, Joined
<1> QED
  BY <1>1 DEF Upto

LEMMA SameSequence ==
  ASSUME NEW S, NEW s \in Seq(S), NEW t \in Seq(S), Len(s) = Len(t),
         \A i \in 1 .. Len(s) : s[i] = t[i]
  PROVE  s = t
<1>1. s = [i \in 1 .. Len(s) |-> s[i]] /\ t = [i \in 1 .. Len(t) |-> t[i]]
  OBVIOUS
<1> QED
  BY <1>1

LEMMA Regrouped ==
  ASSUME NEW s \in Seq(Known), NEW t \in Seq(Known), NEW u \in Seq(Known)
  PROVE  s \o (t \o u) = (s \o t) \o u
<1> DEFINE a == s \o (t \o u)
           b == (s \o t) \o u
<1>1. t \o u \in Seq(Known) /\ s \o t \in Seq(Known) /\ a \in Seq(Known) /\ b \in Seq(Known)
  OBVIOUS
<1>2. Len(a) = Len(b)
  OBVIOUS
<1>3. ASSUME NEW i \in 1 .. Len(a) PROVE a[i] = b[i]
  OBVIOUS
<1> HIDE DEF a, b
<1>4. a = b
  BY <1>1, <1>2, <1>3, SameSequence
<1> QED
  BY <1>4 DEF a, b

LEMMA FirstIs ==
  ASSUME NEW s \in Seq(Known), NEW n \in Nat
  PROVE  /\ FirstOf(s, n) \in Seq(Known)
         /\ Len(FirstOf(s, n)) = IF n < Len(s) THEN n ELSE Len(s)
         /\ \A i \in DOMAIN FirstOf(s, n) : i \in DOMAIN s /\ FirstOf(s, n)[i] = s[i]
         /\ Len(s) <= n => FirstOf(s, n) = s
<1> DEFINE m == IF n < Len(s) THEN n ELSE Len(s)
<1>1. m \in 0 .. Len(s)
  OBVIOUS
<1>2. FirstOf(s, n) = [i \in 1 .. m |-> s[i]]
  BY <1>1 DEF FirstOf
<1> QED
  BY <1>1, <1>2

\* A sequence cut off keeps its order, and what is cut off follows what is kept.
LEMMA FirstKeeps ==
  ASSUME NEW s \in Seq(Known), NEW n \in Nat, Ordered(s)
  PROVE  /\ Ordered(FirstOf(s, n))
         /\ \A p : Holds(FirstOf(s, n), p) => Holds(s, p)
         /\ n > 0 /\ n < Len(s) =>
              \A i \in DOMAIN s : Holds(FirstOf(s, n), s[i]) \/ Follows(s[i], Last(FirstOf(s, n)))
<1> DEFINE f == FirstOf(s, n)
<1>1. /\ f \in Seq(Known) /\ Len(f) = IF n < Len(s) THEN n ELSE Len(s)
      /\ \A i \in DOMAIN f : i \in DOMAIN s /\ f[i] = s[i]
  BY FirstIs
<1> HIDE DEF f
<1>2. Ordered(f)
  BY <1>1 DEF Ordered
<1>3. \A p : Holds(f, p) => Holds(s, p)
  BY <1>1 DEF Holds
<1>4. ASSUME n > 0, n < Len(s), NEW i \in DOMAIN s
      PROVE  Holds(f, s[i]) \/ Follows(s[i], Last(f))
  <2>1. Len(f) = n /\ n \in DOMAIN f /\ n \in DOMAIN s /\ Last(f) = s[n]
    BY <1>1, <1>4 DEF Last
  <2>2. CASE i <= n
    BY <1>1, <2>1, <2>2 DEF Holds
  <2>3. CASE i > n
    BY <2>1, <2>3 DEF Ordered
  <2> QED
    BY <2>2, <2>3
<1> QED
  BY <1>2, <1>3, <1>4 DEF f

LEMMA FirstJoined ==
  ASSUME NEW s \in Seq(Known), NEW t \in Seq(Known), NEW n \in Nat
  PROVE  s \o FirstOf(t, n) = FirstOf(s \o t, Len(s) + Len(FirstOf(t, n)))
<1> DEFINE f == FirstOf(t, n)
           m == Len(s) + Len(f)
           a == s \o f
           b == FirstOf(s \o t, m)
<1>1. /\ f \in Seq(Known) /\ Len(f) = IF n < Len(t) THEN n ELSE Len(t)
      /\ \A i \in DOMAIN f : i \in DOMAIN t /\ f[i] = t[i]
  BY FirstIs
<1> HIDE DEF f
<1>2. m \in Nat /\ s \o t \in Seq(Known) /\ Len(s \o t) = Len(s) + Len(t) /\ Len(f) <= Len(t)
  BY <1>1
<1>3. a \in Seq(Known) /\ Len(a) = m
  BY <1>1
<1> HIDE DEF m
<1>4. /\ b \in Seq(Known) /\ Len(b) = IF m < Len(s \o t) THEN m ELSE Len(s \o t)
      /\ \A i \in DOMAIN b : i \in DOMAIN (s \o t) /\ b[i] = (s \o t)[i]
  BY <1>2, FirstIs
<1>5. Len(b) = m
  BY <1>1, <1>2, <1>4 DEF m
<1>6. ASSUME NEW i \in 1 .. m PROVE a[i] = b[i]
  <2>1. b[i] = (s \o t)[i]
    BY <1>4, <1>5
  <2>2. a[i] = (s \o t)[i]
    BY <1>1, <1>2 DEF m
  <2> QED
    BY <2>1, <2>2
<1> HIDE DEF a, b
<1>7. a = b
  BY <1>3, <1>4, <1>5, <1>6
<1> QED
  BY <1>7 DEF a, b, m, f

LEMMA LastIs ==
  ASSUME NEW s \in Seq(Known), s # <<>>
  PROVE  /\ Last(s) \in Known /\ Len(s) \in DOMAIN s /\ Last(s) = s[Len(s)]
         /\ Ordered(s) => Upto(s, Last(s))
<1>1. Len(s) \in DOMAIN s /\ Last(s) = s[Len(s)]
  BY DEF Last
<1> QED
  BY <1>1 DEF Ordered, Upto

-----------------------------------------------------------------------------
LEMMA ReaderWaits ==
  ASSUME ReaderInv, reader' = reader, steady' \subseteq steady
  PROVE  ReaderInv'
BY DEF ReaderInv, Finding, Filtering, Scanning, Turning, Given, Shown

LEMMA AskKeeps == ASSUME PagesInv, AskPage PROVE PagesInv'
<1>1. CASE /\ \E limit \in PageLimits :
                 reader' = [at |-> "finding", limit |-> limit, scan |-> AtStart, visible |-> <<>>, given |-> <<>>]
           /\ steady' = {p \in currentPostings : Answers(p, restricted)}
  <2>1. PICK limit \in PageLimits :
          reader' = [at |-> "finding", limit |-> limit, scan |-> AtStart, visible |-> <<>>, given |-> <<>>]
    BY <1>1
  <2>2. /\ reader'.at = "finding" /\ reader'.limit \in PageLimits
        /\ reader'.scan = AtStart /\ reader'.visible = <<>> /\ reader'.given = <<>>
    BY <2>1
  <2>3. <<>> \in Seq(Known) /\ <<>> \o <<>> = <<>>
    OBVIOUS
  <2>4. Placed(AtStart)
    BY PagesAssumption DEF Placed, AtStart
  <2>5. Scanning'
    BY <2>2, <2>3, <2>4 DEF Scanning, Turning, Ordered, Upto
  <2>6. \A p \in steady' : Follows(p, AtStart)
    <3>1. \A p \in steady' : p.at <= AnswerTime /\ p \in Known
      BY <1>1 DEF Answers, PagesInv, ImportsInv
    <3>2. \A p \in steady' : Placed(p)
      BY <3>1, KnownArePlaced
    <3> QED
      BY <3>1, <3>2, PagesAssumption DEF Follows, AtStart, Placed
  <2>7. Finding'
    BY <2>2, <2>5, <2>6 DEF Finding
  <2> QED
    BY <1>1, <2>2, <2>7 DEF PagesInv, ReaderInv, ImportsInv, AskPage
<1>2. CASE /\ reader.at = "page"
           /\ reader' = [at |-> "finding", limit |-> reader.limit, scan |-> Last(reader.given), visible |-> <<>>,
                         given |-> reader.given]
           /\ UNCHANGED steady
  <2>1. Turning /\ Given /\ reader.given # <<>>
    BY <1>2 DEF PagesInv, ReaderInv
  <2>2. /\ reader'.at = "finding" /\ reader'.limit = reader.limit /\ reader'.scan = Last(reader.given)
        /\ reader'.visible = <<>> /\ reader'.given = reader.given
    BY <1>2
  <2>3. /\ reader.given \in Seq(Known) /\ reader.given \o <<>> = reader.given /\ <<>> \in Seq(Known)
    BY <2>1 DEF Turning
  <2>4. Placed(Last(reader.given)) /\ Upto(reader.given, Last(reader.given))
    BY <2>1, <2>3, LastIs, KnownArePlaced DEF Given
  <2>5. Scanning'
    BY <2>1, <2>2, <2>3, <2>4 DEF Scanning, Turning, Given
  <2>6. \A p \in steady' : Shown(p)' \/ Follows(p, reader'.scan)
    BY <1>2, <2>1, <2>2, <2>3 DEF Given, Shown
  <2>7. Finding'
    BY <2>5, <2>6 DEF Finding, Shown
  <2> QED
    BY <1>2, <2>2, <2>7 DEF PagesInv, ReaderInv, ImportsInv, AskPage
<1> QED
  BY <1>1, <1>2 DEF AskPage

LEMMA ImportKeeps == ASSUME PagesInv, ImportPosting PROVE PagesInv'
<1>1. PICK p \in LaterPostings :
         /\ currentPostings' = {q \in currentPostings : q.id # p.id} \cup {p}
         /\ steady' = {q \in steady : q.id # p.id}
  BY DEF ImportPosting
<1>2. IsFiniteSet(currentPostings')
  <2>1. IsFiniteSet({q \in currentPostings : q.id # p.id})
    BY FS_Subset DEF PagesInv, ImportsInv
  <2> QED
    BY <1>1, <2>1, FS_AddElement
<1>3. ImportsInv'
  <2>1. currentPostings' \subseteq Known
    BY <1>1 DEF PagesInv, ImportsInv, Known
  <2>2. Distinct(currentPostings')
    BY <1>1 DEF PagesInv, ImportsInv, Distinct
  <2>3. steady' \subseteq {q \in currentPostings' : Answers(q, restricted')}
    BY <1>1 DEF PagesInv, ImportsInv, ImportPosting
  <2> QED
    BY <1>2, <2>1, <2>2, <2>3 DEF ImportsInv
<1>4. ReaderInv'
  BY <1>1, ReaderWaits DEF PagesInv, ImportPosting
<1> QED
  BY <1>3, <1>4 DEF PagesInv

LEMMA AccessKeeps == ASSUME PagesInv, SeedAccess PROVE PagesInv'
<1>1. steady' = {p \in steady : Answers(p, restricted')} /\ reader' = reader /\ currentPostings' = currentPostings
  BY DEF SeedAccess
<1>2. ReaderInv'
  BY <1>1, ReaderWaits DEF PagesInv
<1> QED
  BY <1>1, <1>2 DEF PagesInv, ImportsInv

LEMMA FindKeeps == ASSUME PagesInv, FindPostings PROVE PagesInv'
<1> DEFINE candidates == {p \in currentPostings : p.at <= AnswerTime /\ InScope(p) /\ After(p, reader.scan)}
           all == Sorted(candidates)
           n == reader.limit + 1
           batch == FirstOf(all, n)
<1>1. Finding /\ n \in Nat /\ n > 0 /\ reader.limit \in Nat
  <2>1. Finding
    BY DEF FindPostings, PagesInv, ReaderInv
  <2>2. reader.limit \in Nat
    BY <2>1, PagesAssumption DEF Finding, Scanning, Turning
  <2> QED
    BY <2>1, <2>2
<1>2. /\ reader'.at = "filtering" /\ reader'.limit = reader.limit /\ reader'.scan = reader.scan
      /\ reader'.visible = reader.visible /\ reader'.given = reader.given /\ reader'.batch = batch
      /\ currentPostings' = currentPostings /\ restricted' = restricted /\ steady' = steady
  BY DEF FindPostings
<1>3. candidates \in SUBSET Known /\ IsFiniteSet(candidates) /\ Distinct(candidates)
  <2>1. candidates \in SUBSET currentPostings
    OBVIOUS
  <2>2. IsFiniteSet(candidates)
    BY <2>1, FS_Subset DEF PagesInv, ImportsInv
  <2> QED
    BY <2>1, <2>2 DEF PagesInv, ImportsInv, Distinct
<1>4. \A p \in candidates : Follows(p, reader.scan)
  BY DEF After
<1>5. \A p \in steady : Shown(p) \/ p \in candidates
  BY <1>1 DEF Finding, PagesInv, ImportsInv, Answers, After
<1> HIDE DEF candidates
<1>6. /\ all \in Seq(candidates) /\ all \in Seq(Known) /\ Ordered(all)
      /\ \A p \in candidates : Holds(all, p)
  BY <1>3, SortedIs
<1> HIDE DEF all, n
<1>7. /\ batch \in Seq(Known) /\ Len(batch) = IF n < Len(all) THEN n ELSE Len(all)
      /\ \A i \in DOMAIN batch : i \in DOMAIN all /\ batch[i] = all[i]
      /\ Len(all) <= n => batch = all
  BY <1>1, <1>6, FirstIs
<1>8. /\ Ordered(batch)
      /\ n < Len(all) => \A i \in DOMAIN all : Holds(batch, all[i]) \/ Follows(all[i], Last(batch))
  BY <1>1, <1>6, FirstKeeps
<1> HIDE DEF batch
<1>9. \A i \in DOMAIN batch : batch[i] \in candidates
  BY <1>6, <1>7
<1>10. \A p \in candidates : Holds(batch, p) \/ (Len(batch) > reader.limit /\ Follows(p, Last(batch)))
  <2>1. CASE n < Len(all)
    <3>1. Len(batch) > reader.limit
      BY <1>1, <1>7, <2>1 DEF n
    <3> QED
      BY <1>6, <1>8, <2>1, <3>1 DEF Holds
  <2>2. CASE ~(n < Len(all))
    BY <1>1, <1>6, <1>7, <2>2
  <2> QED
    BY <2>1, <2>2
<1>11. Filtering'
  <2>1. Scanning'
    BY <1>1, <1>2 DEF Finding, Scanning, Turning
  <2>2. \A i \in DOMAIN batch : Follows(batch[i], reader.scan)
    BY <1>4, <1>9
  <2>3. \A i, j \in DOMAIN batch : batch[i].id = batch[j].id => batch[i] = batch[j]
    BY <1>3, <1>9 DEF Distinct
  <2>4. \A p \in steady : \/ Shown(p)
                          \/ Holds(batch, p)
                          \/ Len(batch) > reader.limit /\ Follows(p, Last(batch))
    BY <1>5, <1>10
  <2>5. \A p : Shown(p)' = Shown(p)
    BY <1>2 DEF Shown
  <2> QED
    BY <1>2, <1>7, <1>8, <2>1, <2>2, <2>3, <2>4, <2>5 DEF Filtering
<1> QED
  BY <1>2, <1>11 DEF PagesInv, ReaderInv, ImportsInv

LEMMA ListedAreFinite == ASSUME NEW s \in Seq(Known) PROVE IsFiniteSet(ToSet(s))
<1>1. IsFiniteSet(1 .. Len(s))
  BY FS_Interval
<1>2. s \in Surjection(1 .. Len(s), ToSet(s))
  BY DEF Surjection, ToSet
<1> QED
  BY <1>1, <1>2, FS_Surjection DEF ExistsSurjection

LEMMA FilterKeeps == ASSUME PagesInv, FilterBatch PROVE PagesInv'
<1> DEFINE r == reader
           kept == {p \in ToSet(r.batch) : p.found /\ MayBeSeen(p, restricted)}
           new == Sorted(kept)
           visible == r.visible \o new
           shown == r.given \o visible
           full == Len(visible) > r.limit
<1>1. /\ Filtering /\ r.limit \in Nat /\ r.limit > 0
      /\ r.given \in Seq(Known) /\ r.visible \in Seq(Known) /\ r.batch \in Seq(Known) /\ Placed(r.scan)
  <2>1. Filtering
    BY DEF FilterBatch, PagesInv, ReaderInv
  <2>2. r.limit \in Nat \ {0}
    BY <2>1, PagesAssumption DEF Filtering, Scanning, Turning
  <2> QED
    BY <2>1, <2>2 DEF Filtering, Scanning, Turning
<1>2. /\ reader' = IF r.batch # <<>> /\ Len(r.batch) > r.limit /\ ~full
                   THEN [at |-> "finding", limit |-> r.limit, scan |-> Last(r.batch), visible |-> visible, given |-> r.given]
                   ELSE [at |-> IF full THEN "page" ELSE "end", limit |-> r.limit,
                         given |-> r.given \o FirstOf(visible, r.limit)]
      /\ currentPostings' = currentPostings /\ restricted' = restricted /\ steady' = steady
  BY DEF FilterBatch
<1>3. kept \in SUBSET Known /\ IsFiniteSet(kept) /\ Distinct(kept)
  <2>1. kept \in SUBSET ToSet(r.batch) /\ ToSet(r.batch) \in SUBSET Known
    BY <1>1 DEF ToSet
  <2>2. IsFiniteSet(kept)
    BY <1>1, <2>1, ListedAreFinite, FS_Subset
  <2>3. Distinct(ToSet(r.batch))
    BY <1>1 DEF Filtering, ToSet, Distinct
  <2> QED
    BY <2>1, <2>2, <2>3 DEF Distinct
<1>4. \A p \in kept : Holds(r.batch, p)
  BY DEF ToSet, Holds
<1>5. \A p \in steady : Holds(r.batch, p) => p \in kept
  BY DEF PagesInv, ImportsInv, Answers, Holds, ToSet
<1> HIDE DEF kept
<1>6. /\ new \in Seq(kept) /\ new \in Seq(Known) /\ Ordered(new)
      /\ \A p \in kept : Holds(new, p)
  BY <1>3, SortedIs
<1> HIDE DEF new
<1>7. \A i \in DOMAIN new : Holds(r.batch, new[i]) /\ Follows(new[i], r.scan)
  BY <1>1, <1>4, <1>6 DEF Filtering, Holds
<1>8. /\ visible \in Seq(Known) /\ shown \in Seq(Known)
      /\ shown = (r.given \o r.visible) \o new /\ r.given \o r.visible \in Seq(Known)
  <2>1. r.given \o r.visible \in Seq(Known) /\ visible \in Seq(Known)
    BY <1>1, <1>6, Joined
  <2>2. shown \in Seq(Known)
    <3> HIDE DEF visible
    <3> QED
      BY <1>1, <2>1, Joined
  <2>3. shown = (r.given \o r.visible) \o new
    BY <1>1, <1>6, Regrouped
  <2> QED
    BY <2>1, <2>2, <2>3
<1>9. Ordered(shown)
  BY <1>1, <1>6, <1>7, <1>8, JoinedOrdered DEF Filtering, Scanning
<1>10. \A p \in steady : \/ Holds(shown, p)
                         \/ Len(r.batch) > r.limit /\ Follows(p, Last(r.batch))
  <2>1. \A p \in steady : \/ Shown(p)
                          \/ Holds(r.batch, p)
                          \/ Len(r.batch) > r.limit /\ Follows(p, Last(r.batch))
    BY <1>1 DEF Filtering
  <2>2. \A p : Shown(p) => Holds(shown, p)
    BY <1>6, <1>8, JoinedHolds DEF Shown
  <2>3. \A p \in kept : Holds(shown, p)
    BY <1>6, <1>8, JoinedHolds
  <2> QED
    BY <1>5, <2>1, <2>2, <2>3
<1>11. r.batch # <<>> => Last(r.batch) \in Known /\ Upto(shown, Last(r.batch))
  <2>1. ASSUME r.batch # <<>> PROVE Last(r.batch) \in Known /\ Upto(shown, Last(r.batch))
    <3> DEFINE last == Last(r.batch)
    <3>1. /\ last \in Known /\ Upto(r.batch, last) /\ Placed(last) /\ Follows(last, r.scan)
      BY <1>1, <2>1, LastIs, KnownArePlaced DEF Filtering
    <3> HIDE DEF last
    <3>2. ASSUME NEW i \in DOMAIN (r.given \o r.visible) PROVE Follows(last, (r.given \o r.visible)[i])
      <4> DEFINE y == (r.given \o r.visible)[i]
      <4>1. Placed(y) /\ (y = r.scan \/ Follows(r.scan, y))
        <5>1. Upto(r.given \o r.visible, r.scan)
          BY <1>1 DEF Filtering, Scanning
        <5>2. y \in Known
          <6> DEFINE s == r.given \o r.visible
          <6>1. s \in Seq(Known) /\ i \in DOMAIN s
            BY <1>8, <3>2
          <6> HIDE DEF s
          <6>2. s[i] \in Known
            BY <6>1
          <6> QED
            BY <6>2 DEF s
        <5> QED
          BY <3>2, <5>1, <5>2, KnownArePlaced DEF Upto
      <4> HIDE DEF y
      <4>2. Follows(last, y)
        BY <1>1, <3>1, <4>1, FollowsIsAnOrder
      <4> QED
        BY <4>2 DEF y
    <3>3. ASSUME NEW i \in DOMAIN new PROVE new[i] = last \/ Follows(last, new[i])
      BY <1>7, <3>1 DEF Holds, Upto
    <3>4. Upto(shown, last)
      <4>1. Upto(r.given \o r.visible, last)
        BY <3>2 DEF Upto
      <4>2. Upto(new, last)
        BY <3>3 DEF Upto
      <4>3. Upto((r.given \o r.visible) \o new, last)
        BY <1>6, <1>8, <4>1, <4>2, JoinedUpto
      <4> QED
        BY <1>8, <4>3
    <3> QED
      BY <3>1, <3>4 DEF last
  <2> QED
    BY <2>1
<1>12. CASE r.batch # <<>> /\ Len(r.batch) > r.limit /\ ~full
  <2>1. /\ reader'.at = "finding" /\ reader'.limit = r.limit /\ reader'.scan = Last(r.batch)
        /\ reader'.visible = visible /\ reader'.given = r.given
    BY <1>2, <1>12
  <2>2. Placed(Last(r.batch)) /\ Upto(shown, Last(r.batch))
    BY <1>11, <1>12, KnownArePlaced
  <2> HIDE DEF full, visible
  <2>3. Scanning'
    BY <1>1, <1>8, <1>9, <2>1, <2>2 DEF Scanning, Turning, Filtering
  <2>4. \A p : Shown(p)' = Holds(shown, p)
    BY <2>1 DEF Shown
  <2>5. Finding'
    BY <1>2, <1>10, <2>1, <2>3, <2>4 DEF Finding
  <2> QED
    BY <1>2, <2>1, <2>5 DEF PagesInv, ReaderInv, ImportsInv
<1>13. CASE ~(r.batch # <<>> /\ Len(r.batch) > r.limit /\ ~full)
  <2> DEFINE page == FirstOf(visible, r.limit)
             given == r.given \o page
  <2>1. /\ reader'.at = (IF full THEN "page" ELSE "end") /\ reader'.limit = r.limit /\ reader'.given = given
    BY <1>2, <1>13
  <2> HIDE DEF visible
  <2>2. /\ page \in Seq(Known) /\ Len(page) = IF r.limit < Len(visible) THEN r.limit ELSE Len(visible)
        /\ \A i \in DOMAIN page : i \in DOMAIN visible /\ page[i] = visible[i]
        /\ Len(visible) <= r.limit => page = visible
    BY <1>1, <1>8, FirstIs
  <2>3. given \in Seq(Known)
    BY <1>1, <2>2
  <2>4. given = FirstOf(shown, Len(r.given) + Len(page))
    BY <1>1, <1>8, FirstJoined DEF page
  <2> HIDE DEF page
  <2>5. Len(r.given) + Len(page) \in Nat
    BY <1>1, <2>2
  <2>6. Ordered(given)
    BY <1>8, <1>9, <2>4, <2>5, FirstKeeps
  <2>7. CASE full
    <3>1. Len(r.given) \in Nat /\ Len(visible) \in Nat /\ Len(shown) = Len(r.given) + Len(visible)
      <4>1. Len(r.given) \in Nat /\ Len(visible) \in Nat
        BY <1>1, <1>8
      <4>2. Len(r.given \o visible) = Len(r.given) + Len(visible)
        BY <1>1, <1>8, Joined
      <4> QED
        BY <4>1, <4>2
    <3>2. /\ Len(page) = r.limit /\ Len(r.given) + Len(page) > 0
          /\ Len(r.given) + Len(page) < Len(shown) /\ given # <<>>
      <4>1. Len(page) = r.limit
        BY <1>1, <2>2, <2>7
      <4>2. Len(given) = Len(r.given) + Len(page)
        BY <1>1, <2>2, Joined
      <4> HIDE DEF shown, given
      <4> QED
        BY <1>1, <2>7, <3>1, <4>1, <4>2
    <3>3. \A i \in DOMAIN shown : Holds(given, shown[i]) \/ Follows(shown[i], Last(given))
      BY <1>8, <1>9, <2>4, <2>5, <3>2, FirstKeeps
    <3>4. \A p \in steady : Holds(shown, p) => Holds(given, p) \/ Follows(p, Last(given))
      BY <3>3 DEF Holds
    <3>5. ASSUME NEW p \in steady, Len(r.batch) > r.limit, Follows(p, Last(r.batch))
          PROVE  Follows(p, Last(given))
      <4> DEFINE last == Last(r.batch)
                 end == Last(given)
      <4>1. r.batch # <<>>
        BY <1>1, <3>5
      <4>2. Placed(last) /\ Placed(p) /\ Upto(shown, last)
        BY <1>11, <4>1, KnownArePlaced DEF PagesInv, ImportsInv
      <4>3. end \in Known /\ Holds(given, end)
        BY <2>3, <3>2, LastIs DEF Holds
      <4>4. Holds(shown, end)
        BY <1>8, <1>9, <2>4, <2>5, <4>3, FirstKeeps
      <4>5. Placed(end) /\ (end = last \/ Follows(last, end))
        BY <4>2, <4>3, <4>4, KnownArePlaced DEF Holds, Upto
      <4> HIDE DEF last, end
      <4>6. Follows(p, last)
        BY <3>5 DEF last
      <4>7. Follows(p, end)
        BY <4>2, <4>5, <4>6, FollowsIsAnOrder
      <4> QED
        BY <4>7 DEF end
    <3>6. \A p \in steady : Holds(given, p) \/ Follows(p, Last(given))
      BY <1>10, <3>4, <3>5
    <3>7. reader'.at = "page"
      BY <2>1, <2>7
    <3> HIDE DEF given
    <3> QED
      BY <1>1, <1>2, <2>1, <2>3, <2>6, <3>2, <3>6, <3>7
         DEF PagesInv, ReaderInv, ImportsInv, Turning, Given, Filtering, Scanning
  <2>8. CASE ~full
    <3>1. page = visible /\ given = shown
      <4>1. Len(visible) <= r.limit
        BY <1>1, <1>8, <2>8
      <4> QED
        BY <2>2, <4>1
    <3>2. ~(Len(r.batch) > r.limit)
      BY <1>1, <1>13, <2>8
    <3>3. \A p \in steady : Holds(given, p)
      BY <1>10, <3>1, <3>2
    <3>4. reader'.at = "end"
      BY <2>1, <2>8
    <3> HIDE DEF given
    <3> QED
      BY <1>1, <1>2, <2>1, <2>3, <2>6, <3>3, <3>4
         DEF PagesInv, ReaderInv, ImportsInv, Turning, Given, Filtering, Scanning
  <2> QED
    BY <2>7, <2>8
<1> QED
  BY <1>12, <1>13

LEMMA NextPages == PagesInv /\ [PagesNext]_pvars => PagesInv'
<1>1. ASSUME PagesInv, UNCHANGED pvars PROVE PagesInv'
  <2>1. ReaderInv'
    BY <1>1, ReaderWaits DEF PagesInv, pvars
  <2> QED
    BY <1>1, <2>1 DEF PagesInv, ImportsInv, pvars
<1> QED
  BY <1>1, AskKeeps, FindKeeps, FilterKeeps, ImportKeeps, AccessKeeps DEF PagesNext

(***************************************************************************)
(* For any postings, pages, restrictions and imports: who follows the      *)
(* cursors is given each posting that was there and visible all along, and *)
(* no revision of one twice, latest first (repository.ts:22-48).           *)
(***************************************************************************)
THEOREM PagesAreComplete == PagesSpec => []PagesMissNothing
<1>1. PagesInv => PagesMissNothing
  <2>1. ASSUME PagesInv, reader.at \in {"page", "end"}
        PROVE  \A p : Holds(reader.given, p) => p \in ToSet(reader.given)
    BY DEF Holds, ToSet
  <2> QED
    BY <2>1 DEF PagesInv, ReaderInv, Given, Ordered, PagesMissNothing
<1> QED
  BY <1>1, InitPages, NextPages, PTL DEF PagesSpec

-----------------------------------------------------------------------------
(***************************************************************************)
(* Graph: GraphContext.                                                    *)
(*                                                                         *)
(* What the fold of a hop computes, by induction over the part of the list *)
(* it has visited: the function that the library's fold chooses is the one *)
(* that visits the relationships in their order.                           *)
(***************************************************************************)
Taking(k, a, F, l, z, S, g) ==
  [s \in SUBSET S |-> IF s = {} THEN z ELSE Visit(k, a, F, g[s \ {Max(s)}], l[Max(s)])]
Taken(k, a, F, l, z, S) == (CHOOSE g : g = Taking(k, a, F, l, z, S, g))[S]
TakenLast(k, a, F, l, z, S) ==
  IF S = {} THEN z ELSE Visit(k, a, F, Taken(k, a, F, l, z, S \ {Max(S)}), l[Max(S)])

LEMMA HopIsTaken ==
  ASSUME NEW k, NEW a, NEW l, NEW w
  PROVE  Hop(k, a, l, w) = Taken(k, a, w.frontier, l, [w EXCEPT !.frontier = {}], DOMAIN l)
BY DEF Hop, FoldLeft, MapThenFoldSet, Taking, Taken

LEMMA PlacesAreFinite ==
  ASSUME NEW n \in Nat, NEW S \in SUBSET (1..n)
  PROVE  IsFiniteSet(1..n) /\ IsFiniteSet(S)
<1>1. 1 \in Int /\ n \in Int
  OBVIOUS
<1>2. IsFiniteSet(1..n)
  BY <1>1, FS_Interval, Zenon
<1> QED
  BY <1>2, FS_Subset, Zenon

LEMMA LastIsElement ==
  ASSUME NEW n \in Nat, NEW S \in SUBSET (1..n), S # {}
  PROVE  Max(S) \in S
<1> DEFINE N == 1..n
           Q == {T \in SUBSET N : T = {} \/ \E x \in T : \A y \in T : x >= y}
<1>1. ASSUME NEW T \in SUBSET N, \A x \in T : T \ {x} \in Q PROVE T \in Q
  <2> SUFFICES ASSUME T # {} PROVE \E x \in T : \A y \in T : x >= y
    OBVIOUS
  <2>1. PICK x \in T : TRUE
    OBVIOUS
  <2>2. CASE T \ {x} = {}
    <3>1. \A y \in T : y = x
      BY <2>2
    <3> QED
      BY <3>1
  <2>3. CASE T \ {x} # {}
    <3>1. PICK z \in T \ {x} : \A y \in T \ {x} : z >= y
      BY <1>1, <2>3
    <3>2. x \in Int /\ z \in Int /\ \A y \in T : y \in Int
      OBVIOUS
    <3>3. CASE x >= z
      BY <3>1, <3>2, <3>3
    <3>4. CASE ~(x >= z)
      <4>1. z >= x
        BY <3>2, <3>4
      <4>2. \A y \in T : z >= y
        BY <3>1, <4>1
      <4> QED
        BY <4>2
    <3> QED
      BY <3>3, <3>4
  <2> QED
    BY <2>2, <2>3
<1>2. IsFiniteSet(N)
  BY PlacesAreFinite
<1>3. SUBSET N \subseteq Q
  <2> HIDE DEF Q, N
  <2> QED
    BY <1>1, <1>2, SubsetInduction
<1>4. \E x \in S : \A y \in S : x >= y
  BY <1>3
<1> QED
  BY <1>4 DEF Max

LEMMA TakingIsUnique ==
  ASSUME NEW n \in Nat, NEW S \in SUBSET (1..n), NEW k, NEW a, NEW F, NEW l, NEW z,
         NEW g, g = Taking(k, a, F, l, z, S, g), NEW h, h = Taking(k, a, F, l, z, S, h)
  PROVE  g = h
<1> DEFINE Q == {T \in SUBSET S : g[T] = h[T]}
<1>1. ASSUME NEW T \in SUBSET S, \A x \in T : T \ {x} \in Q PROVE T \in Q
  <2>1. T = {} => g[T] = z /\ h[T] = z
    BY DEF Taking
  <2>2. CASE T # {}
    <3>1. Max(T) \in T
      BY <2>2, LastIsElement
    <3>2. g[T \ {Max(T)}] = h[T \ {Max(T)}]
      BY <1>1, <3>1
    <3>3. g[T] = Visit(k, a, F, g[T \ {Max(T)}], l[Max(T)])
      BY <2>2 DEF Taking
    <3>4. h[T] = Visit(k, a, F, h[T \ {Max(T)}], l[Max(T)])
      BY <2>2 DEF Taking
    <3> QED
      BY <3>2, <3>3, <3>4
  <2> QED
    BY <2>1, <2>2
<1>2. IsFiniteSet(S)
  BY PlacesAreFinite
<1>3. SUBSET S \subseteq Q
  <2> HIDE DEF Q
  <2> QED
    BY <1>1, <1>2, SubsetInduction
<1>4. g = [T \in SUBSET S |-> g[T]] /\ h = [T \in SUBSET S |-> h[T]]
  BY DEF Taking
<1> QED
  BY <1>3, <1>4

LEMMA TakenRecursion ==
  ASSUME NEW n \in Nat, NEW S \in SUBSET (1..n), NEW k, NEW a, NEW F, NEW l, NEW z
  PROVE  Taken(k, a, F, l, z, S) = TakenLast(k, a, F, l, z, S)
<1> DEFINE At(T) == Taken(k, a, F, l, z, T)
           Step(T) == IF T = {} THEN z ELSE Visit(k, a, F, At(T \ {Max(T)}), l[Max(T)])
           Q == {T \in SUBSET S : \A U \in SUBSET T : At(U) = Step(U)}
<1> HIDE DEF At
<1>1. ASSUME NEW T \in SUBSET S, \A x \in T : T \ {x} \in Q PROVE T \in Q
  <2>1. \A U \in SUBSET T : U # T => At(U) = Step(U)
    <3> SUFFICES ASSUME NEW U \in SUBSET T, U # T PROVE At(U) = Step(U)
      OBVIOUS
    <3>1. PICK x \in T : x \notin U
      OBVIOUS
    <3>2. U \in SUBSET (T \ {x})
      BY <3>1
    <3> QED
      BY <1>1, <3>2
  <2> DEFINE h == [U \in SUBSET T |-> Step(U)]
             g == CHOOSE e : e = Taking(k, a, F, l, z, T, e)
  <2>2. h = Taking(k, a, F, l, z, T, h)
    <3>1. ASSUME NEW U \in SUBSET T, U # {} PROVE At(U \ {Max(U)}) = h[U \ {Max(U)}]
      <4>1. Max(U) \in U
        BY <3>1, LastIsElement
      <4>2. U \ {Max(U)} # T /\ U \ {Max(U)} \in SUBSET T
        BY <4>1
      <4>3. h[U \ {Max(U)}] = Step(U \ {Max(U)})
        BY <4>2
      <4> HIDE DEF h, Step
      <4> QED
        BY <2>1, <4>2, <4>3
    <3>2. \A U \in SUBSET T : h[U] = IF U = {} THEN z ELSE Visit(k, a, F, h[U \ {Max(U)}], l[Max(U)])
      BY <3>1
    <3> HIDE DEF h
    <3>3. h = [U \in SUBSET T |-> h[U]]
      BY DEF h
    <3> QED
      BY <3>2, <3>3 DEF Taking
  <2>3. g = Taking(k, a, F, l, z, T, g)
    <3> HIDE DEF h
    <3>1. \E e : e = Taking(k, a, F, l, z, T, e)
      BY <2>2
    <3> QED
      BY <3>1
  <2>4. g = h
    <3> HIDE DEF g, h
    <3> QED
      BY <2>2, <2>3, TakingIsUnique
  <2>5. At(T) = Step(T)
    <3>1. At(T) = g[T]
      BY DEF At, Taken
    <3>2. h[T] = Step(T)
      OBVIOUS
    <3> HIDE DEF g, h
    <3> QED
      BY <3>1, <3>2, <2>4
  <2> HIDE DEF Step
  <2> QED
    BY <2>1, <2>5
<1>2. IsFiniteSet(S)
  BY PlacesAreFinite
<1>3. SUBSET S \subseteq Q
  <2> HIDE DEF Q
  <2> QED
    BY <1>1, <1>2, SubsetInduction
<1>4. At(S) = Step(S)
  <2>1. S \in Q
    BY <1>3
  <2> HIDE DEF Step
  <2> QED
    BY <2>1
<1> QED
  BY <1>4 DEF At, TakenLast

(***************************************************************************)
(* What a hop has done after some places of the list: it has gone along    *)
(* usable relationships that touch the frontier it started from, along all *)
(* of those it has visited unless the cap stopped it.                      *)
(***************************************************************************)
Joins(k, a, F, e) == Usable(k, a, e) /\ {e.from, e.to} \cap F # {}

Capped(a, w) == /\ w = [visited |-> w.visited, selected |-> w.selected, cut |-> w.cut, frontier |-> w.frontier]
                /\ w.cut \in BOOLEAN
                /\ IsFiniteSet(w.visited) /\ Cardinality(w.visited) <= a.max
                /\ w.cut = TRUE => Cardinality(w.visited) = a.max

Hopped(k, a, l, w, S, v) ==
  /\ Capped(a, v)
  /\ w.visited \subseteq v.visited /\ v.frontier = v.visited \ w.visited
  /\ w.selected \subseteq v.selected
  /\ \A e \in v.selected \ w.selected : e \in ToSet(l) /\ Joins(k, a, w.frontier, e) /\ {e.from, e.to} \subseteq v.visited
  /\ \A x \in v.frontier : \E e \in ToSet(l) : Joins(k, a, w.frontier, e) /\ x \in {e.from, e.to}
  /\ v.cut = FALSE => \A i \in S : Joins(k, a, w.frontier, l[i]) => l[i] \in v.selected

LEMMA VisitKeeps ==
  ASSUME NEW n \in Nat, NEW l, DOMAIN l = 1..n, NEW S \in SUBSET (1..n), NEW i \in S,
         NEW k, NEW a, a.max \in Nat, NEW w, w.frontier \subseteq w.visited,
         NEW v, Hopped(k, a, l, w, S \ {i}, v)
  PROVE  Hopped(k, a, l, w, S, Visit(k, a, w.frontier, v, l[i]))
<1> DEFINE r == l[i]
           F == w.frontier
           other == IF r.from \in F THEN r.to ELSE r.from
           u == Visit(k, a, F, v, r)
<1> SUFFICES Hopped(k, a, l, w, S, u)
  OBVIOUS
<1>1. r \in ToSet(l) /\ \A j \in S : j = i \/ j \in S \ {i}
  BY DEF ToSet
<1>2. CASE r \in v.selected \/ ~Joins(k, a, F, r)
  <2>1. u = v
    BY <1>2 DEF Visit, Joins
  <2>2. v.cut = FALSE => \A j \in S : Joins(k, a, F, l[j]) => l[j] \in v.selected
    BY <1>1, <1>2 DEF Hopped
  <2> QED
    BY <2>1, <2>2 DEF Hopped
<1>3. CASE r \notin v.selected /\ Joins(k, a, F, r) /\ other \notin v.visited /\ Cardinality(v.visited) = a.max
  <2>1. u = [v EXCEPT !.cut = TRUE]
    BY <1>3 DEF Visit, Joins
  <2>2. u = [visited |-> v.visited, selected |-> v.selected, cut |-> TRUE, frontier |-> v.frontier]
    BY <2>1 DEF Hopped, Capped
  <2> HIDE DEF u, other
  <2>3. /\ u.visited = v.visited /\ u.selected = v.selected /\ u.cut = TRUE /\ u.frontier = v.frontier
        /\ u = [visited |-> u.visited, selected |-> u.selected, cut |-> u.cut, frontier |-> u.frontier]
    BY <2>2
  <2>4. Capped(a, u)
    BY <1>3, <2>3 DEF Hopped, Capped
  <2> QED
    BY <2>3, <2>4 DEF Hopped
<1>4. CASE r \notin v.selected /\ Joins(k, a, F, r) /\ ~(other \notin v.visited /\ Cardinality(v.visited) = a.max)
  <2>1. u = [v EXCEPT !.selected = v.selected \cup {r}, !.visited = v.visited \cup {other},
                       !.frontier = IF other \in v.visited THEN v.frontier ELSE v.frontier \cup {other}]
    BY <1>4 DEF Visit, Joins
  <2>2. /\ u.visited = v.visited \cup {other} /\ u.selected = v.selected \cup {r} /\ u.cut = v.cut
        /\ u.frontier = IF other \in v.visited THEN v.frontier ELSE v.frontier \cup {other}
        /\ u = [visited |-> u.visited, selected |-> u.selected, cut |-> u.cut, frontier |-> u.frontier]
    BY <2>1 DEF Hopped, Capped
  <2>3. {r.from, r.to} \subseteq F \cup {other} /\ other \in {r.from, r.to}
    BY <1>4 DEF Joins
  <2>4. Cardinality(v.visited) \in Nat
    BY FS_CardinalityType DEF Hopped, Capped
  <2>5. /\ IsFiniteSet(u.visited)
        /\ Cardinality(u.visited) = IF other \in v.visited THEN Cardinality(v.visited) ELSE Cardinality(v.visited) + 1
    <3>1. IsFiniteSet(v.visited)
      BY DEF Hopped, Capped
    <3>2. /\ IsFiniteSet(v.visited \cup {other})
          /\ Cardinality(v.visited \cup {other}) =
               IF other \in v.visited THEN Cardinality(v.visited) ELSE Cardinality(v.visited) + 1
      <4> HIDE DEF other, u
      <4> QED
        BY <3>1, FS_AddElement
    <3> HIDE DEF other, u
    <3> QED
      BY <2>2, <3>2
  <2> HIDE DEF u, other
  <2>6. Capped(a, u)
    <3>1. other \notin v.visited => Cardinality(v.visited) < a.max
      BY <1>4, <2>4 DEF Hopped, Capped
    <3>2. v.cut = TRUE => other \in v.visited
      BY <1>4 DEF Hopped, Capped
    <3>3. Cardinality(v.visited) <= a.max /\ (v.cut = TRUE => Cardinality(v.visited) = a.max) /\ v.cut \in BOOLEAN
      BY DEF Hopped, Capped
    <3>4. Cardinality(u.visited) <= a.max /\ (u.cut = TRUE => Cardinality(u.visited) = a.max)
      BY <2>2, <2>4, <2>5, <3>1, <3>2, <3>3
    <3> QED
      BY <2>2, <2>5, <3>3, <3>4 DEF Capped
  <2>7. w.visited \subseteq u.visited /\ u.frontier = u.visited \ w.visited /\ w.selected \subseteq u.selected
    BY <2>2 DEF Hopped
  <2>8. \A e \in u.selected \ w.selected : e \in ToSet(l) /\ Joins(k, a, F, e) /\ {e.from, e.to} \subseteq u.visited
    <3>1. {r.from, r.to} \subseteq u.visited
      BY <2>2, <2>3 DEF Hopped
    <3> QED
      BY <1>1, <1>4, <2>2, <3>1 DEF Hopped
  <2>9. \A x \in u.frontier : \E e \in ToSet(l) : Joins(k, a, F, e) /\ x \in {e.from, e.to}
    <3> SUFFICES ASSUME NEW x \in u.frontier
                 PROVE  \E e \in ToSet(l) : Joins(k, a, F, e) /\ x \in {e.from, e.to}
      OBVIOUS
    <3>1. CASE x \in v.frontier
      BY <3>1 DEF Hopped
    <3>2. CASE x = other
      BY <1>1, <1>4, <2>3, <3>2
    <3> QED
      BY <2>2, <3>1, <3>2
  <2>10. u.cut = FALSE => \A j \in S : Joins(k, a, F, l[j]) => l[j] \in u.selected
    BY <1>1, <2>2 DEF Hopped
  <2> QED
    BY <2>6, <2>7, <2>8, <2>9, <2>10 DEF Hopped
<1> HIDE DEF other, u
<1> QED
  BY <1>2, <1>3, <1>4

LEMMA Started ==
  ASSUME NEW a, NEW w, Capped(a, w)
  PROVE  [w EXCEPT !.frontier = {}] =
           [visited |-> w.visited, selected |-> w.selected, cut |-> w.cut, frontier |-> {}]
BY DEF Capped

LEMMA HopKeeps ==
  ASSUME NEW l, l \in Seq(ToSet(l)), NEW k, NEW a, a.max \in Nat,
         NEW w, Capped(a, w), w.cut = FALSE, w.frontier \subseteq w.visited
  PROVE  Hopped(k, a, l, w, DOMAIN l, Hop(k, a, l, w))
<1>1. PICK n \in Nat : DOMAIN l = 1..n
  OBVIOUS
<1> DEFINE z == [w EXCEPT !.frontier = {}]
           At(S) == Taken(k, a, w.frontier, l, z, S)
           N == 1..n
           Q == {S \in SUBSET N : Hopped(k, a, l, w, S, At(S))}
<1>2. Hopped(k, a, l, w, {}, z)
  <2>1. z = [visited |-> w.visited, selected |-> w.selected, cut |-> w.cut, frontier |-> {}]
    BY Started
  <2> HIDE DEF z
  <2> QED
    BY <2>1 DEF Hopped, Capped
<1> HIDE DEF z
<1>3. ASSUME NEW S \in SUBSET N, \A x \in S : S \ {x} \in Q PROVE S \in Q
  <2>1. At(S) = IF S = {} THEN z ELSE Visit(k, a, w.frontier, At(S \ {Max(S)}), l[Max(S)])
    <3>1. S \in SUBSET (1..n)
      OBVIOUS
    <3>2. Taken(k, a, w.frontier, l, z, S) =
            TakenLast(k, a, w.frontier, l, z, S)
      <4>1. n \in Nat
        BY <1>1
      <4> HIDE DEF N, Q
      <4> QED
        BY <3>1, <4>1, TakenRecursion, Zenon
    <3> QED
      BY <3>2 DEF TakenLast
  <2> HIDE DEF At
  <2>2. CASE S = {}
    BY <1>2, <2>1, <2>2
  <2>3. CASE S # {}
    <3>1. Max(S) \in S
      BY <2>3, LastIsElement
    <3>2. Hopped(k, a, l, w, S \ {Max(S)}, At(S \ {Max(S)}))
      BY <1>3, <3>1
    <3>3. Hopped(k, a, l, w, S, Visit(k, a, w.frontier, At(S \ {Max(S)}), l[Max(S)]))
      BY <1>1, <3>1, <3>2, VisitKeeps
    <3> QED
      BY <2>1, <2>3, <3>3
  <2> QED
    BY <2>2, <2>3
<1>4. IsFiniteSet(N)
  BY PlacesAreFinite
<1>5. SUBSET N \subseteq Q
  <2> HIDE DEF Q, N
  <2> QED
    BY <1>3, <1>4, SubsetInduction
<1>6. Hop(k, a, l, w) = At(DOMAIN l)
  BY HopIsTaken DEF z
<1> QED
  BY <1>1, <1>5, <1>6

(***************************************************************************)
(* The walk, hop by hop: everything within reach is visited, or as many    *)
(* entities as the cap allows.                                             *)
(***************************************************************************)
Subject(a) == [visited |-> {a.subject}, selected |-> {}, cut |-> FALSE, frontier |-> {a.subject}]
Onward(k, a, l, w) == IF w.frontier # {} /\ Cardinality(w.visited) < a.max THEN Hop(k, a, l, w) ELSE w

LEMMA WalkIsHops ==
  ASSUME NEW k, NEW a, NEW l, a.hops \in 0..2
  PROVE  /\ a.hops = 0 => Walk(k, a, l) = Subject(a)
         /\ a.hops = 1 => Walk(k, a, l) = Onward(k, a, l, Subject(a))
         /\ a.hops = 2 => Walk(k, a, l) = Onward(k, a, l, Onward(k, a, l, Subject(a)))
<1> DEFINE One == Onward(k, a, l, Subject(a))
           Two == Onward(k, a, l, One)
           Further(w) == Onward(k, a, l, w)
           Chain(g) == [n \in 0..a.hops |-> IF n = 0 THEN Subject(a) ELSE Further(g[n - 1])]
           h == [n \in 0..a.hops |-> IF n = 0 THEN Subject(a) ELSE IF n = 1 THEN One ELSE Two]
           g == CHOOSE e : e = Chain(e)
<1>1. Walk(k, a, l) = g[a.hops]
  BY DEF Walk, Subject, Onward
<1>2. h = Chain(h)
  <2> HIDE DEF Further
  <2>1. Further(Subject(a)) = One /\ Further(One) = Two
    BY DEF Further
  <2> HIDE DEF One, Two
  <2> QED
    BY <2>1
<1>3. g = Chain(g)
  <2> HIDE DEF h, Chain
  <2> QED
    BY <1>2
<1> HIDE DEF g
<1>4. \A n \in 0..a.hops : g[n] = IF n = 0 THEN Subject(a) ELSE Further(g[n - 1])
  <2> HIDE DEF Further
  <2> QED
    BY <1>3
<1>5. Further(Subject(a)) = One /\ Further(One) = Two
  OBVIOUS
<1> HIDE DEF Further, One, Two
<1>6. a.hops = 0 => g[0] = Subject(a)
  BY <1>4
<1>7. a.hops = 1 => g[1] = One
  <2> SUFFICES ASSUME a.hops = 1 PROVE g[1] = One
    OBVIOUS
  <2>1. g[0] = Subject(a) /\ g[1] = Further(g[0])
    BY <1>4
  <2> QED
    BY <1>5, <2>1
<1>8. a.hops = 2 => g[2] = Two
  <2> SUFFICES ASSUME a.hops = 2 PROVE g[2] = Two
    OBVIOUS
  <2>1. g[0] = Subject(a) /\ g[1] = Further(g[0]) /\ g[2] = Further(g[1])
    BY <1>4
  <2> QED
    BY <1>5, <2>1
<1> QED
  BY <1>1, <1>6, <1>7, <1>8 DEF One, Two

Reached(q, R, w) ==
  /\ Capped(q.ask, w)
  /\ w.frontier \subseteq w.visited /\ w.visited \subseteq R
  /\ w.selected \subseteq Touching(q, w.visited)
  /\ \A e \in w.selected : {e.from, e.to} \subseteq w.visited
  /\ w.cut = FALSE => Touching(q, w.visited \ w.frontier) \subseteq w.selected
  /\ Cardinality(w.visited) = q.ask.max \/ w.visited = R

LEMMA OnwardKeeps ==
  ASSUME NEW q, q.list \in Seq(ToSet(q.list)), q.ask.max \in Nat, NEW R, NEW w, Reached(q, R, w)
  PROVE  Reached(q, Beside(q, R), Onward(q.known, q.ask, q.list, w))
<1> DEFINE v == Onward(q.known, q.ask, q.list, w)
           B == Beside(q, R)
<1> SUFFICES Reached(q, B, v)
  OBVIOUS
<1>1. /\ Capped(q.ask, w)
      /\ w.frontier \subseteq w.visited /\ w.visited \subseteq R
      /\ w.selected \subseteq Touching(q, w.visited)
      /\ \A e \in w.selected : {e.from, e.to} \subseteq w.visited
      /\ w.cut = FALSE => Touching(q, w.visited \ w.frontier) \subseteq w.selected
      /\ Cardinality(w.visited) = q.ask.max \/ w.visited = R
  BY DEF Reached
<1>2. Cardinality(w.visited) \in Nat
  BY <1>1, FS_CardinalityType DEF Capped
<1>3. R \subseteq B
  BY DEF Beside
<1>4. CASE ~(w.frontier # {} /\ Cardinality(w.visited) < q.ask.max)
  <2>1. v = w
    BY <1>4 DEF Onward
  <2>2. CASE Cardinality(w.visited) = q.ask.max
    <3> HIDE DEF v, B
    <3>1. w.visited \subseteq B
      BY <1>1, <1>3
    <3> QED
      BY <1>1, <2>1, <2>2, <3>1 DEF Reached
  <2>3. CASE Cardinality(w.visited) # q.ask.max
    <3>1. w.visited = R /\ w.frontier = {} /\ w.cut = FALSE
      <4>1. Cardinality(w.visited) < q.ask.max
        BY <1>1, <1>2, <2>3 DEF Capped
      <4> QED
        BY <1>1, <1>4, <2>3, <4>1 DEF Capped
    <3>2. Touching(q, R) \subseteq w.selected
      <4>1. w.visited \ w.frontier = R
        BY <3>1
      <4> QED
        BY <1>1, <3>1, <4>1
    <3>3. B = R
      BY <1>1, <3>1, <3>2 DEF Beside
    <3> HIDE DEF v, B
    <3> QED
      BY <1>1, <2>1, <3>3 DEF Reached
  <2> QED
    BY <2>2, <2>3
<1>5. CASE w.frontier # {} /\ Cardinality(w.visited) < q.ask.max
  <2>1. w.cut = FALSE /\ w.visited = R
    BY <1>1, <1>2, <1>5 DEF Capped
  <2>2. Hopped(q.known, q.ask, q.list, w, DOMAIN q.list, v)
    <3>1. v = Hop(q.known, q.ask, q.list, w)
      BY <1>5 DEF Onward
    <3>2. Hopped(q.known, q.ask, q.list, w, DOMAIN q.list, Hop(q.known, q.ask, q.list, w))
      BY <1>1, <2>1, HopKeeps
    <3> QED
      BY <3>1, <3>2
  <2> HIDE DEF v
  <2> DEFINE F == w.frontier
             J(e) == Joins(q.known, q.ask, F, e)
  <2>3. /\ Capped(q.ask, v)
        /\ w.visited \subseteq v.visited /\ v.frontier = v.visited \ w.visited
        /\ w.selected \subseteq v.selected
        /\ \A e \in v.selected \ w.selected : e \in ToSet(q.list) /\ J(e) /\ {e.from, e.to} \subseteq v.visited
        /\ \A x \in v.frontier : \E e \in ToSet(q.list) : J(e) /\ x \in {e.from, e.to}
        /\ v.cut = FALSE => \A i \in DOMAIN q.list : J(q.list[i]) => q.list[i] \in v.selected
    BY <2>2 DEF Hopped
  <2>4. \A e \in ToSet(q.list) : J(e) => e \in Touching(q, R) /\ e \in Touching(q, v.visited)
    BY <1>1, <2>1, <2>3 DEF Joins, Touching
  <2>5. v.visited \subseteq B
    <3> SUFFICES ASSUME NEW x \in v.visited, x \notin R PROVE x \in B
      BY <1>3
    <3>1. PICK e \in ToSet(q.list) : J(e) /\ x \in {e.from, e.to}
      BY <2>1, <2>3
    <3>2. e \in Touching(q, R)
      BY <2>4, <3>1
    <3> QED
      BY <3>1, <3>2 DEF Beside
  <2>6. \A e \in v.selected : e \in Touching(q, v.visited) /\ {e.from, e.to} \subseteq v.visited
    <3> SUFFICES ASSUME NEW e \in v.selected
                 PROVE  e \in Touching(q, v.visited) /\ {e.from, e.to} \subseteq v.visited
      OBVIOUS
    <3>1. CASE e \in w.selected
      <4>1. e \in Touching(q, w.visited) /\ {e.from, e.to} \subseteq w.visited
        BY <1>1, <3>1
      <4> QED
        BY <2>3, <4>1 DEF Touching
    <3>2. CASE e \notin w.selected
      BY <2>3, <2>4, <3>2
    <3> QED
      BY <3>1, <3>2
  <2>7. v.cut = FALSE => Touching(q, R) \subseteq v.selected
    <3> SUFFICES ASSUME v.cut = FALSE, NEW e \in Touching(q, R) PROVE e \in v.selected
      OBVIOUS
    <3>1. e \in ToSet(q.list) /\ Usable(q.known, q.ask, e) /\ {e.from, e.to} \cap R # {}
      BY DEF Touching
    <3>2. CASE {e.from, e.to} \cap F # {}
      <4>1. PICK i \in DOMAIN q.list : e = q.list[i]
        BY <3>1 DEF ToSet
      <4>2. J(e)
        BY <3>1, <3>2 DEF Joins
      <4> QED
        BY <2>3, <4>1, <4>2
    <3>3. CASE {e.from, e.to} \cap F = {}
      <4>1. {e.from, e.to} \cap (w.visited \ w.frontier) # {}
        BY <2>1, <3>1, <3>3
      <4>2. e \in Touching(q, w.visited \ w.frontier)
        BY <3>1, <4>1 DEF Touching
      <4> QED
        BY <1>1, <2>1, <2>3, <4>2
    <3> QED
      BY <3>2, <3>3
  <2>8. v.visited \ v.frontier = R
    BY <2>1, <2>3
  <2>9. Cardinality(v.visited) = q.ask.max \/ v.visited = B
    <3> SUFFICES ASSUME Cardinality(v.visited) # q.ask.max PROVE v.visited = B
      OBVIOUS
    <3>1. v.cut = FALSE
      BY <2>3 DEF Capped
    <3>2. \A e \in Touching(q, R) : {e.from, e.to} \subseteq v.visited
      BY <2>6, <2>7, <3>1
    <3>3. B \subseteq v.visited
      BY <2>1, <2>3, <3>2 DEF Beside
    <3> QED
      BY <2>5, <3>3
  <2> HIDE DEF J, F, B
  <2>10. v.cut = FALSE => Touching(q, v.visited \ v.frontier) \subseteq v.selected
    BY <2>7, <2>8
  <2>11. v.frontier \subseteq v.visited
    BY <2>3
  <2> QED
    BY <2>3, <2>5, <2>6, <2>9, <2>10, <2>11 DEF Reached
<1> QED
  BY <1>4, <1>5

LEMMA AskBounds ==
  ASSUME NEW a \in Asks
  PROVE  /\ a.hops = 0 \/ a.hops = 1 \/ a.hops = 2
         /\ a.max \in Nat /\ 1 <= a.max
<1>1. a.hops \in 0..2 /\ a.max \in 1..50
  BY AskAssumption, Zenon
<1> QED
  BY <1>1

LEMMA WithinHops ==
  ASSUME NEW q
  PROVE  LET here == {q.ask.subject}
         IN  /\ q.ask.hops = 0 => Within(q) = here
             /\ q.ask.hops = 1 => Within(q) = Beside(q, here)
             /\ q.ask.hops = 2 => Within(q) = Beside(q, Beside(q, here))
<1> DEFINE here == {q.ask.subject}
           one == Beside(q, here)
           two == Beside(q, one)
<1>1. Within(q) = <<here, one, two>>[q.ask.hops + 1]
  BY DEF Within
<1> HIDE DEF here, one, two
<1>2. /\ q.ask.hops = 0 => Within(q) = here
      /\ q.ask.hops = 1 => Within(q) = one
      /\ q.ask.hops = 2 => Within(q) = two
  BY <1>1
<1> QED
  BY <1>2 DEF here, one, two

\* The answer of a walk is what is in reach, as far as the cap allows it.
LEMMA WalkReaches ==
  ASSUME NEW q, q.list \in Seq(ToSet(q.list)), q.ask \in Asks
  PROVE  Reached(q, Within(q), Walk(q.known, q.ask, q.list))
<1> DEFINE here == {q.ask.subject}
           One == Onward(q.known, q.ask, q.list, Subject(q.ask))
           Two == Onward(q.known, q.ask, q.list, One)
<1>1. q.ask.hops \in 0..2 /\ q.ask.max \in Nat /\ 1 <= q.ask.max
  BY AskBounds
<1>2. Reached(q, here, Subject(q.ask))
  <2>1. IsFiniteSet(here) /\ Cardinality(here) = 1
    BY FS_Singleton
  <2>2. Capped(q.ask, Subject(q.ask))
    BY <1>1, <2>1 DEF Capped, Subject
  <2>3. Touching(q, {}) = {}
    BY DEF Touching
  <2> QED
    BY <2>2, <2>3 DEF Reached, Subject
<1>3. Reached(q, Beside(q, here), One)
  BY <1>1, <1>2, OnwardKeeps
<1>4. Reached(q, Beside(q, Beside(q, here)), Two)
  <2> HIDE DEF One
  <2> QED
    BY <1>1, <1>3, OnwardKeeps
<1>5. /\ q.ask.hops = 0 => Within(q) = here
      /\ q.ask.hops = 1 => Within(q) = Beside(q, here)
      /\ q.ask.hops = 2 => Within(q) = Beside(q, Beside(q, here))
  BY WithinHops
<1>6. /\ q.ask.hops = 0 => Walk(q.known, q.ask, q.list) = Subject(q.ask)
      /\ q.ask.hops = 1 => Walk(q.known, q.ask, q.list) = One
      /\ q.ask.hops = 2 => Walk(q.known, q.ask, q.list) = Two
  BY <1>1, WalkIsHops
<1>7. q.ask.hops = 0 \/ q.ask.hops = 1 \/ q.ask.hops = 2
  BY <1>1
<1> HIDE DEF here, One, Two
<1> QED
  BY <1>2, <1>3, <1>4, <1>5, <1>6, <1>7

LEMMA ImageIsFinite ==
  ASSUME NEW S, IsFiniteSet(S), NEW f, DOMAIN f = S
  PROVE  IsFiniteSet({f[x] : x \in S})
<1> DEFINE T == {f[x] : x \in S}
           g == [x \in S |-> f[x]]
<1>1. g \in Surjection(S, T)
  BY DEF Surjection
<1> HIDE DEF g, T
<1>2. IsFiniteSet(T)
  BY <1>1, FS_Surjection
<1> QED
  BY <1>2 DEF T

LEMMA BesideIsFinite ==
  ASSUME NEW q, q.list \in Seq(ToSet(q.list)), NEW S, IsFiniteSet(S)
  PROVE  IsFiniteSet(Beside(q, S))
<1>1. IsFiniteSet(ToSet(q.list))
  <2>1. PICK n \in Nat : DOMAIN q.list = 1..n
    OBVIOUS
  <2>2. IsFiniteSet(1..n)
    BY <2>1, PlacesAreFinite
  <2>3. IsFiniteSet({q.list[i] : i \in 1..n})
    BY <2>1, <2>2, ImageIsFinite
  <2>4. ToSet(q.list) = {q.list[i] : i \in 1..n}
    BY <2>1 DEF ToSet
  <2> QED
    BY <2>3, <2>4
<1> DEFINE Ends(e) == {e.from, e.to}
           T == Touching(q, S)
<1>2. IsFiniteSet(T)
  <2>1. T \subseteq ToSet(q.list)
    BY DEF Touching
  <2> QED
    BY <1>1, <2>1, FS_Subset
<1>3. IsFiniteSet(UNION {Ends(e) : e \in T})
  <2> HIDE DEF T, Ends
  <2> DEFINE f == [e \in T |-> Ends(e)]
  <2>1. IsFiniteSet({Ends(e) : e \in T})
    <3>1. DOMAIN f = T /\ {f[e] : e \in T} = {Ends(e) : e \in T}
      OBVIOUS
    <3>2. IsFiniteSet({f[e] : e \in T})
      <4> HIDE DEF f
      <4> QED
        BY <1>2, <3>1, ImageIsFinite
    <3> HIDE DEF f
    <3> QED
      BY <3>1, <3>2, Zenon
  <2>2. \A E \in {Ends(e) : e \in T} : IsFiniteSet(E)
    <3>1. \A e : IsFiniteSet(Ends(e))
      <4> SUFFICES ASSUME NEW e PROVE IsFiniteSet({e.from, e.to})
        BY DEF Ends
      <4>1. IsFiniteSet({e.from}) /\ IsFiniteSet({e.to})
        BY FS_Singleton
      <4>2. IsFiniteSet({e.from} \cup {e.to})
        BY <4>1, FS_Union
      <4>3. {e.from} \cup {e.to} = {e.from, e.to}
        OBVIOUS
      <4> QED
        BY <4>2, <4>3, Zenon
    <3> QED
      BY <3>1
  <2> QED
    BY <2>1, <2>2, FS_UNION
<1>4. IsFiniteSet(S \cup UNION {Ends(e) : e \in T})
  <2> HIDE DEF T, Ends
  <2> QED
    BY <1>3, FS_Union
<1> QED
  BY <1>4 DEF Beside

LEMMA WithinIsFinite ==
  ASSUME NEW q, q.list \in Seq(ToSet(q.list)), q.ask \in Asks
  PROVE  IsFiniteSet(Within(q))
<1>1. IsFiniteSet({q.ask.subject})
  BY FS_Singleton
<1>2. IsFiniteSet(Beside(q, {q.ask.subject}))
  BY <1>1, BesideIsFinite
<1>3. IsFiniteSet(Beside(q, Beside(q, {q.ask.subject})))
  BY <1>2, BesideIsFinite
<1>4. q.ask.hops = 0 \/ q.ask.hops = 1 \/ q.ask.hops = 2
  BY AskBounds
<1> QED
  BY <1>1, <1>2, <1>3, <1>4, WithinHops

(***************************************************************************)
(* The inductive invariant: a query keeps what it has read, its walk is    *)
(* the walk over that, and a cached summary counts what its key names.     *)
(***************************************************************************)
Counted(key) == <<Cardinality(key.watermark[2]), Cardinality({pair[1] : pair \in key.watermark[1]})>>

QuerySound(q) ==
  /\ q.at \in {"entities", "walked", "missed", "answered"} => q.ask \in Asks
  /\ q.at \in {"walked", "missed", "answered"} =>
       q.list \in Seq(ToSet(q.list)) /\ q.walk = Walk(q.known, q.ask, q.list)
  /\ q.at \in {"missed", "answered"} =>
       q.truncated = Truncated(q.walk, q.ask) /\ q.summary = Summary(q.walk)

GraphInv ==
  /\ edges \in Seq(ToSet(edges))
  /\ DOMAIN query = GraphReaders
  /\ \A s \in summaries : s.summary = Counted(s.key)
  /\ \A r \in GraphReaders : QuerySound(query[r])

LEMMA KeyCounts ==
  ASSUME NEW k, NEW a, NEW w
  PROVE  Counted(CacheKey(k, a, w)) = Summary(w)
<1> DEFINE V == w.visited
           P == {<<e, k[e]>> : e \in V}
<1>1. {pair[1] : pair \in P} = V
  <2>1. \A e \in V : <<e, k[e]>> \in P /\ <<e, k[e]>>[1] = e
    OBVIOUS
  <2>2. \A pair \in P : pair[1] \in V
    OBVIOUS
  <2> HIDE DEF P
  <2> QED
    BY <2>1, <2>2
<1>2. CacheKey(k, a, w).watermark = <<P, w.selected>>
  BY DEF CacheKey
<1> HIDE DEF P
<1>3. CacheKey(k, a, w).watermark[1] = P /\ CacheKey(k, a, w).watermark[2] = w.selected
  BY <1>2
<1>4. Counted(CacheKey(k, a, w)) = <<Cardinality(w.selected), Cardinality({pair[1] : pair \in P})>>
  BY <1>3 DEF Counted
<1> QED
  BY <1>1, <1>4 DEF Summary

LEMMA AnswerIsHonest == GraphInv => GraphAnswersAreHonest
<1> SUFFICES ASSUME GraphInv, NEW r \in GraphReaders, query[r].at = "answered"
             PROVE  LET q == query[r]
                        w == q.walk
                    IN  /\ w.visited \subseteq Within(q)
                        /\ Cardinality(w.visited) <= q.ask.max
                        /\ w.selected \subseteq Touching(q, w.visited)
                        /\ \A e \in w.selected : {e.from, e.to} \subseteq w.visited
                        /\ ~q.truncated /\ q.ask.hops > 0 =>
                             w.selected = Touching(q, w.visited) /\ Beside(q, w.visited) = w.visited
                        /\ Cardinality(Within(q)) <= q.ask.max => w.visited = Within(q)
                        /\ q.summary = <<Cardinality(w.selected), Cardinality(w.visited)>>
  BY DEF GraphAnswersAreHonest
<1> DEFINE q == query[r]
           w == q.walk
           R == Within(q)
<1>1. /\ q.ask \in Asks /\ q.list \in Seq(ToSet(q.list)) /\ w = Walk(q.known, q.ask, q.list)
      /\ q.truncated = Truncated(w, q.ask) /\ q.summary = Summary(w)
  BY DEF GraphInv, QuerySound
<1> HIDE DEF q
<1>2. Reached(q, R, w)
  BY <1>1, WalkReaches
<1>3. IsFiniteSet(R)
  BY <1>1, WithinIsFinite
<1>4. q.ask.max \in Nat
  BY <1>1, AskBounds
<1> HIDE DEF w, R
<1>5. /\ w.visited \subseteq R /\ Cardinality(w.visited) <= q.ask.max
      /\ w.selected \subseteq Touching(q, w.visited)
      /\ \A e \in w.selected : {e.from, e.to} \subseteq w.visited
  BY <1>2 DEF Reached, Capped
<1>6. ~q.truncated /\ q.ask.hops > 0 =>
        w.selected = Touching(q, w.visited) /\ Beside(q, w.visited) = w.visited
  <2> SUFFICES ASSUME ~q.truncated, q.ask.hops > 0
               PROVE  w.selected = Touching(q, w.visited) /\ Beside(q, w.visited) = w.visited
    OBVIOUS
  <2>1. ~(w.cut \/ (w.frontier # {} /\ q.ask.hops > 0))
    BY <1>1 DEF Truncated
  <2>2. w.cut = FALSE /\ w.frontier = {}
    BY <1>2, <2>1 DEF Reached, Capped
  <2>3. w.visited \ w.frontier = w.visited
    BY <2>2
  <2>4. Touching(q, w.visited) \subseteq w.selected
    BY <1>2, <2>2, <2>3 DEF Reached
  <2>5. w.selected = Touching(q, w.visited)
    BY <1>5, <2>4
  <2>6. Beside(q, w.visited) = w.visited
    BY <1>5, <2>5 DEF Beside
  <2> QED
    BY <2>5, <2>6
<1>7. Cardinality(R) <= q.ask.max => w.visited = R
  <2> SUFFICES ASSUME Cardinality(R) <= q.ask.max, w.visited # R PROVE FALSE
    OBVIOUS
  <2>1. Cardinality(w.visited) = q.ask.max
    BY <1>2 DEF Reached
  <2>2. Cardinality(w.visited) < Cardinality(R)
    <3>1. w.visited \in SUBSET R
      BY <1>5
    <3>2. Cardinality(w.visited) <= Cardinality(R) /\ Cardinality(w.visited) # Cardinality(R)
      BY <1>3, <3>1, FS_Subset
    <3>3. Cardinality(R) \in Nat /\ Cardinality(w.visited) \in Nat
      BY <1>3, <3>1, FS_Subset, FS_CardinalityType
    <3> QED
      BY <3>2, <3>3
  <2>3. Cardinality(R) \in Nat
    BY <1>3, FS_CardinalityType
  <2> QED
    BY <1>4, <2>1, <2>2, <2>3
<1>8. q.summary = <<Cardinality(w.selected), Cardinality(w.visited)>>
  BY <1>1 DEF Summary
<1> QED
  BY <1>5, <1>6, <1>7, <1>8 DEF w, R, q

LEMMA InitGraph == GraphInit => GraphInv
BY EdgesAssumption DEF GraphInit, GraphInv, QuerySound, Resting

LEMMA SeedKeepsList ==
  ASSUME GraphInv, SeedRelationship
  PROVE  edges' \in Seq(ToSet(edges'))
<1>1. PICK n \in Nat : edges \in [1..n -> ToSet(edges)]
  BY DEF GraphInv
<1>2. PICK r \in Relationships :
        edges' = IF \E i \in DOMAIN edges : edges[i].id = r.id
                 THEN [i \in DOMAIN edges |-> IF edges[i].id = r.id THEN r ELSE edges[i]]
                 ELSE Append(edges, r)
  BY DEF SeedRelationship
<1>3. CASE \E i \in DOMAIN edges : edges[i].id = r.id
  <2>1. edges' = [i \in 1..n |-> IF edges[i].id = r.id THEN r ELSE edges[i]]
    BY <1>1, <1>2, <1>3
  <2>2. DOMAIN edges' = 1..n /\ edges' = [i \in 1..n |-> edges'[i]]
    BY <2>1
  <2>3. edges' \in [1..n -> ToSet(edges')]
    BY <2>2 DEF ToSet
  <2> QED
    BY <1>1, <2>3
<1>4. CASE ~\E i \in DOMAIN edges : edges[i].id = r.id
  <2> DEFINE U == ToSet(edges) \cup {r}
  <2>1. edges \in Seq(U)
    BY DEF GraphInv
  <2>2. edges' = Append(edges, r) /\ r \in U
    BY <1>2, <1>4
  <2> HIDE DEF U
  <2>3. edges' \in Seq(U)
    BY <2>1, <2>2
  <2>4. PICK m \in Nat : edges' \in [1..m -> U]
    BY <2>3
  <2>5. DOMAIN edges' = 1..m /\ edges' = [i \in 1..m |-> edges'[i]]
    BY <2>4
  <2>6. edges' \in [1..m -> ToSet(edges')]
    BY <2>5 DEF ToSet
  <2> QED
    BY <2>4, <2>6
<1> QED
  BY <1>3, <1>4

LEMMA QueryMoves ==
  ASSUME GraphInv, NEW r \in GraphReaders, NEW v, QuerySound(v), query' = [query EXCEPT ![r] = v]
  PROVE  DOMAIN query' = GraphReaders /\ \A x \in GraphReaders : QuerySound(query'[x])
BY DEF GraphInv

LEMMA NextGraph == GraphInv /\ [GraphNext]_gvars => GraphInv'
<1> SUFFICES ASSUME GraphInv, [GraphNext]_gvars PROVE GraphInv'
  OBVIOUS
<1>1. CASE SeedEntity
  BY <1>1 DEF SeedEntity, GraphInv
<1>2. CASE SeedRelationship
  <2>1. query' = query /\ summaries' = summaries
    BY <1>2 DEF SeedRelationship
  <2> QED
    BY <1>2, <2>1, SeedKeepsList DEF GraphInv
<1>3. ASSUME NEW r \in GraphReaders, NEW ask \in Asks, ReadEntities(r, ask) PROVE GraphInv'
  <2> DEFINE v == IF Sees(access, ask.subject, ask.principal)
                  THEN [at |-> "entities", ask |-> ask, known |-> access]
                  ELSE [at |-> "denied"]
  <2>1. edges' = edges /\ summaries' = summaries /\ query' = [query EXCEPT ![r] = v]
    BY <1>3 DEF ReadEntities
  <2>2. QuerySound(v)
    BY DEF QuerySound
  <2> HIDE DEF v
  <2>3. DOMAIN query' = GraphReaders /\ \A x \in GraphReaders : QuerySound(query'[x])
    BY <2>1, <2>2, QueryMoves
  <2> QED
    BY <2>1, <2>3 DEF GraphInv
<1>4. ASSUME NEW r \in GraphReaders, ReadRelationships(r) PROVE GraphInv'
  <2> DEFINE q == query[r]
             v == [at |-> "walked", ask |-> q.ask, known |-> q.known, list |-> edges,
                   walk |-> Walk(q.known, q.ask, edges)]
  <2>1. edges' = edges /\ summaries' = summaries /\ query' = [query EXCEPT ![r] = v] /\ q.at = "entities"
    BY <1>4 DEF ReadRelationships
  <2>2. q.ask \in Asks /\ edges \in Seq(ToSet(edges))
    BY <2>1 DEF GraphInv, QuerySound
  <2>3. QuerySound(v)
    BY <2>2 DEF QuerySound
  <2> HIDE DEF v
  <2>4. DOMAIN query' = GraphReaders /\ \A x \in GraphReaders : QuerySound(query'[x])
    BY <2>1, <2>3, QueryMoves
  <2> QED
    BY <2>1, <2>4 DEF GraphInv
<1>5. ASSUME NEW r \in GraphReaders, ReadCache(r) PROVE GraphInv'
  <2> DEFINE q == query[r]
             key == CacheKey(q.known, q.ask, q.walk)
             cached == {s \in summaries : s.key = key}
             v == [at |-> IF cached = {} THEN "missed" ELSE "answered", ask |-> q.ask, known |-> q.known,
                   list |-> q.list, walk |-> q.walk, truncated |-> Truncated(q.walk, q.ask),
                   summary |-> IF cached = {} THEN Summary(q.walk) ELSE (CHOOSE s \in cached : TRUE).summary]
  <2>1. edges' = edges /\ summaries' = summaries /\ query' = [query EXCEPT ![r] = v] /\ q.at = "walked"
    BY <1>5 DEF ReadCache
  <2>2. q.ask \in Asks /\ q.list \in Seq(ToSet(q.list)) /\ q.walk = Walk(q.known, q.ask, q.list)
    BY <2>1 DEF GraphInv, QuerySound
  <2>3. cached # {} => (CHOOSE s \in cached : TRUE).summary = Summary(q.walk)
    <3> SUFFICES ASSUME cached # {} PROVE (CHOOSE s \in cached : TRUE).summary = Summary(q.walk)
      OBVIOUS
    <3> DEFINE one == CHOOSE s \in cached : TRUE
    <3>1. one \in cached
      OBVIOUS
    <3> HIDE DEF one
    <3>2. one.key = key /\ one.summary = Counted(one.key)
      BY <3>1 DEF GraphInv
    <3> QED
      BY <3>2, KeyCounts DEF one
  <2> DEFINE told == IF cached = {} THEN Summary(q.walk) ELSE (CHOOSE s \in cached : TRUE).summary
  <2>4. told = Summary(q.walk)
    BY <2>3
  <2> HIDE DEF q, cached, told
  <2>5. QuerySound(v)
    BY <2>2, <2>4 DEF QuerySound, told
  <2> HIDE DEF v
  <2>6. DOMAIN query' = GraphReaders /\ \A x \in GraphReaders : QuerySound(query'[x])
    BY <2>1, <2>5, QueryMoves
  <2> QED
    BY <2>1, <2>6 DEF GraphInv
<1>6. ASSUME NEW r \in GraphReaders, CacheSummary(r) PROVE GraphInv'
  <2> DEFINE q == query[r]
             key == CacheKey(q.known, q.ask, q.walk)
             taken == \E s \in summaries : s.key = key
             v == IF taken THEN [at |-> "failed"] ELSE [q EXCEPT !.at = "answered"]
  <2>1. /\ edges' = edges /\ query' = [query EXCEPT ![r] = v] /\ q.at = "missed"
        /\ summaries' = IF taken THEN summaries ELSE summaries \cup {[key |-> key, summary |-> q.summary]}
    BY <1>6 DEF CacheSummary
  <2>2. /\ q.ask \in Asks /\ q.list \in Seq(ToSet(q.list)) /\ q.walk = Walk(q.known, q.ask, q.list)
        /\ q.truncated = Truncated(q.walk, q.ask) /\ q.summary = Summary(q.walk)
    BY <2>1 DEF GraphInv, QuerySound
  <2>3. q.summary = Counted(key)
    BY <2>2, KeyCounts
  <2> HIDE DEF key
  <2>4. \A s \in summaries' : s.summary = Counted(s.key)
    BY <2>1, <2>3 DEF GraphInv
  <2>5. QuerySound(v)
    BY <2>2 DEF QuerySound
  <2> HIDE DEF v
  <2>6. DOMAIN query' = GraphReaders /\ \A x \in GraphReaders : QuerySound(query'[x])
    BY <2>1, <2>5, QueryMoves
  <2> QED
    BY <2>1, <2>4, <2>6 DEF GraphInv
<1>7. CASE UNCHANGED gvars
  BY <1>7 DEF gvars, GraphInv
<1> QED
  BY <1>1, <1>2, <1>3, <1>4, <1>5, <1>6, <1>7 DEF GraphNext

\* GraphAnswersAreHonest for any entities, relationships, questions and readers, however
\* seeding and caching fall between the reads of a query: what it shows is what its
\* principal may reach in what it has read, and what it leaves out it owns up to.
THEOREM AnswersAreHonest == GraphSpec => []GraphAnswersAreHonest
<1>1. GraphInit => GraphInv
  BY InitGraph
<1>2. GraphInv /\ [GraphNext]_gvars => GraphInv'
  BY NextGraph
<1>3. GraphInv => GraphAnswersAreHonest
  BY AnswerIsHonest
<1> QED
  BY <1>1, <1>2, <1>3, PTL DEF GraphSpec
=============================================================================
