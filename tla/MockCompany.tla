---------------------------- MODULE MockCompany ----------------------------
(***************************************************************************)
(* One company of the mock store (packages/mock-api/src): the handlers of  *)
(* the command operations as functions from a company state to a result,   *)
(* and the router, which answers a command it has seen from its memo.      *)
(* Handlers are synchronous, so a result is the whole effect of a command. *)
(* A payload names what the code compares: amounts, revisions, scopes and  *)
(* times; labels, summaries and provenance are left out. A commitment is   *)
(* named by its request, which has at most one. The field "by" names the   *)
(* command a record comes from and is kept for the properties alone.       *)
(***************************************************************************)
EXTENDS Integers, FiniteSets, SequencesExt

CONSTANTS Authorized, SeedSpend, SeedAmount,    \* the seeded budget and request
          AutoApproveMax, CumulativeIncreaseMax, HardDeny,
          HardCap                               \* TRUE in every seeded pack

ASSUME BudgetAssumption ==
    /\ {Authorized, SeedSpend, SeedAmount, AutoApproveMax, CumulativeIncreaseMax, HardDeny} \subseteq Nat
    /\ SeedSpend + SeedAmount <= Authorized
    /\ HardCap \in BOOLEAN

Registered == {"organization", "department", "project"}
SeedRequest == 0
NoRequest == -1
Put(f, k, v) == [x \in DOMAIN f \cup {k} |-> IF x = k THEN v ELSE f[x]]
Total(items, Amount(_)) == SumFunction([i \in DOMAIN items |-> Amount(items[i])])
AmountOf(item) == item.amount

(* The state a pack seeds. The clock and the id counter belong to the store *)
(* and outlive a reset.                                                     *)
Seed(clock, ids) ==
    [requests |-> [r \in {SeedRequest} |-> <<[amount |-> SeedAmount, cumulative |-> 0, state |-> "approved", scopes |-> Registered]>>],
     decisions |-> <<[request |-> SeedRequest, revision |-> 1, outcome |-> "approved", human |-> FALSE, at |-> 0, by |-> 0]>>,
     commitments |-> [r \in {SeedRequest} |-> [amount |-> SeedAmount, outstanding |-> SeedAmount, revision |-> 1,
                                                state |-> "outstanding", created |-> 0]],
     postings |-> <<[id |-> 0, amount |-> SeedSpend, request |-> NoRequest, at |-> 0, revision |-> 1,
                     scopes |-> {"organization", "department"}, by |-> 0]>>,
     corrections |-> <<>>,
     budget |-> [recognized |-> SeedSpend, outstanding |-> SeedAmount,
                 available |-> Authorized - SeedSpend - SeedAmount, revision |-> 1],
     ledger |-> {}, memo |-> <<>>,
     forecasts |-> [f \in {"department"} |-> <<[revision |-> 1, kind |-> "baseline", total |-> SeedSpend + SeedAmount, by |-> 0]>>],
     clock |-> clock, ids |-> ids]

Reset(s) == Seed(s.clock, s.ids)

Result(code, s, data) == [code |-> code, state |-> s, data |-> data]
Fail(code, s) == Result(code, s, <<>>)

Current(s, r) == Last(s.requests[r])
CommitmentAmount(s, r) == IF r \in DOMAIN s.commitments THEN s.commitments[r].amount ELSE 0

(* Exactly one expectation, for the named record. *)
RequireExpectation(expected, type, id) ==
    Cardinality(expected) = 1 /\ \A e \in expected : e.type = type /\ e.id = id
RevisionMatches(expected, actual) == \A e \in expected : e.revision = actual

HasCapacity(s, delta) == ~HardCap \/ delta <= s.budget.available

(* A plausible slip: the policy does not look at the budget. *)
PolicyWithoutCapacity(full, cumulative, delta, available) ==
    IF full > HardDeny THEN "denied"
    ELSE IF full > AutoApproveMax \/ cumulative > CumulativeIncreaseMax THEN "review_required"
    ELSE "approved"

EvaluateMockPolicy(full, cumulative, delta, available) ==
    IF full > HardDeny THEN "denied"
    ELSE IF full > AutoApproveMax \/ cumulative > CumulativeIncreaseMax THEN "review_required"
    ELSE IF HardCap /\ delta > available THEN "review_required"
    ELSE "approved"

RefreshBudget(s, recognized, outstanding) ==
    [s EXCEPT !.budget = [recognized |-> recognized, outstanding |-> outstanding,
                          available |-> Authorized - recognized - outstanding, revision |-> @.revision + 1]]

RefreshCommitmentState(c) ==
    [c EXCEPT !.state = CASE c.outstanding = 0 -> "posted"
                          [] c.outstanding # 0 /\ c.outstanding < c.amount -> "partially_posted"
                          [] OTHER -> "outstanding"]

(* A plausible slip: an existing commitment gets its new amount, and its    *)
(* outstanding part is left as it was.                                      *)
ReserveAmountOnly(s, r, amount) ==
    LET delta == amount - CommitmentAmount(s, r)
    IN  RefreshBudget([s EXCEPT !.commitments =
            Put(@, r, IF r \in DOMAIN @ THEN [@[r] EXCEPT !.amount = amount, !.revision = @ + 1]
                      ELSE [amount |-> amount, outstanding |-> amount, revision |-> 1,
                            state |-> "outstanding", created |-> s.clock])],
            s.budget.recognized, s.budget.outstanding + delta)

(* Sets the request's commitment to the amount and reserves the difference. *)
ApplyCommitmentReserve(s, r, amount) ==
    LET delta == amount - CommitmentAmount(s, r)
        commitment == IF r \in DOMAIN s.commitments
                      THEN [s.commitments[r] EXCEPT !.amount = amount, !.outstanding = @ + delta, !.revision = @ + 1]
                      ELSE [amount |-> amount, outstanding |-> amount, revision |-> 1,
                            state |-> "outstanding", created |-> s.clock]
    IN  RefreshBudget([s EXCEPT !.commitments = Put(@, r, RefreshCommitmentState(commitment))],
                      s.budget.recognized, s.budget.outstanding + delta)

BuildDecision(s, r, outcome, human, by) ==
    [request |-> r, revision |-> Len(s.requests[r]), outcome |-> outcome, human |-> human, at |-> s.clock, by |-> by]

(* What requests.create and requests.amend do once the policy has answered: *)
(* the revision and its decision are recorded, and then an approved one     *)
(* reserves its whole amount after delta has been found to fit.             *)
Decided(s, r, revision, delta, by) ==
    LET revised == [s EXCEPT !.clock = @ + 1,
                    !.requests = Put(@, r, IF r \in DOMAIN @ THEN Append(@[r], revision) ELSE <<revision>>)]
        recorded == [revised EXCEPT !.decisions = Append(@, BuildDecision(revised, r, revision.state, FALSE, by))]
        data == [request |-> r, revision |-> Len(revised.requests[r]), outcome |-> revision.state]
    IN  IF revision.state # "approved" THEN Result("ok", recorded, data)
        ELSE IF ~HasCapacity(s, delta) THEN Fail("CAPACITY_EXCEEDED", recorded)
        ELSE Result("ok", ApplyCommitmentReserve(recorded, r, revision.amount), data)

CreateRequest(s, p, m) ==
    IF m.expected # {} \/ ~(p.scopes \subseteq Registered) \/ ~p.entitiesKnown
    THEN Fail("VALIDATION_FAILED", s)
    ELSE LET outcome == EvaluateMockPolicy(p.amount, 0, p.amount, s.budget.available)
             revision == [amount |-> p.amount, cumulative |-> 0, state |-> outcome, scopes |-> p.scopes]
         IN  Decided([s EXCEPT !.ids = @ + 1], s.ids, revision, p.amount, m.id)

AmendRequest(s, p, m) ==
    IF ~RequireExpectation(m.expected, "request", p.request) THEN Fail("VALIDATION_FAILED", s)
    ELSE IF p.request \notin DOMAIN s.requests THEN Fail("NOT_FOUND", s)
    ELSE
           LET request == Current(s, p.request)
               increase == p.amount - request.amount
               cumulative == request.cumulative + increase
               outcome == EvaluateMockPolicy(p.amount, cumulative, increase, s.budget.available)
           IN  IF ~RevisionMatches(m.expected, Len(s.requests[p.request])) THEN Fail("STALE_VERSION", s)
               ELSE IF request.state = "denied" THEN Fail("POLICY_DENIED", s)
               ELSE IF increase <= 0 THEN Fail("VALIDATION_FAILED", s)
               ELSE Decided(s, p.request, [request EXCEPT !.amount = p.amount, !.cumulative = cumulative,
                                                                   !.state = outcome], increase, m.id)

HumanDecided(s, r) ==
    \E i \in DOMAIN s.decisions : /\ s.decisions[i].request = r
                                  /\ s.decisions[i].revision = Len(s.requests[r])
                                  /\ s.decisions[i].human

(* Authority comes from the principal. The request keeps the state          *)
(* review_required; only the decision says that it was reviewed.            *)
DecideReview(s, p, m) ==
    IF m.principal # "finance_manager" THEN Fail("AUTHORITY_DENIED", s)
    ELSE IF p.request \notin DOMAIN s.requests THEN Fail("NOT_FOUND", s)
    ELSE
           LET request == Current(s, p.request)
               decided == [s EXCEPT !.decisions = Append(@, BuildDecision(s, p.request, p.outcome, TRUE, m.id))]
               data == [request |-> p.request, revision |-> p.revision, outcome |-> p.outcome]
           IN  IF "department" \notin request.scopes THEN Fail("AUTHORITY_DENIED", s)
               ELSE IF p.revision # Len(s.requests[p.request]) THEN Fail("STALE_VERSION", s)
               ELSE IF request.state # "review_required" \/ HumanDecided(s, p.request) THEN Fail("POLICY_DENIED", s)
               ELSE IF p.outcome = "approved" /\ ~HasCapacity(s, request.amount - CommitmentAmount(s, p.request)) THEN
                      Fail("CAPACITY_EXCEEDED", s)
               ELSE IF p.outcome = "approved" THEN Result("ok", ApplyCommitmentReserve(decided, p.request, request.amount), data)
               ELSE Result("ok", decided, data)

HasId(items, id) == \E i \in DOMAIN items : items[i].id = id

RecordPosting(s, p, m) ==
    LET linked == p.request # NoRequest
        posting == [id |-> p.posting, amount |-> p.amount, request |-> p.request, at |-> p.at, revision |-> 1,
                    scopes |-> p.scopes, by |-> m.id]
        spent == [s.commitments[p.request] EXCEPT !.outstanding = @ - p.amount, !.revision = @ + 1]
        posted == [s EXCEPT !.postings = Append(@, posting),
                            !.commitments = IF linked THEN [@ EXCEPT ![p.request] = RefreshCommitmentState(spent)]
                                            ELSE @]
    IN  IF HasId(s.postings, p.posting) THEN Fail("IDEMPOTENCY_CONFLICT", s)
        ELSE IF ~(p.scopes \subseteq Registered) \/ (linked /\ ~RequireExpectation(m.expected, "commitment", p.request)) THEN
               Fail("VALIDATION_FAILED", s)
        ELSE IF linked /\ p.request \notin DOMAIN s.commitments THEN Fail("NOT_FOUND", s)
        ELSE IF linked /\ ~RevisionMatches(m.expected, s.commitments[p.request].revision) THEN Fail("STALE_VERSION", s)
        ELSE IF linked /\ p.amount > s.commitments[p.request].outstanding THEN Fail("VALIDATION_FAILED", s)
        ELSE Result("ok", RefreshBudget(posted, s.budget.recognized + p.amount,
                                       s.budget.outstanding - IF linked THEN p.amount ELSE 0), p.posting)

(* A correction moves recognized spend alone; it releases no commitment. *)
CorrectPosting(s, p, m) ==
    LET original == s.postings[SelectInSeq(s.postings, LAMBDA q : q.id = p.posting)]
        correction == [id |-> p.correction, posting |-> p.posting, amount |-> p.amount, at |-> p.at, by |-> m.id]
    IN  IF HasId(s.corrections, p.correction) THEN Fail("IDEMPOTENCY_CONFLICT", s)
        ELSE IF ~RequireExpectation(m.expected, "posting", p.posting) THEN Fail("VALIDATION_FAILED", s)
        ELSE IF ~HasId(s.postings, p.posting) THEN Fail("NOT_FOUND", s)
        ELSE IF ~RevisionMatches(m.expected, original.revision) THEN Fail("STALE_VERSION", s)
        ELSE IF p.amount > original.amount \/ -p.amount > original.amount \/ s.budget.recognized + p.amount < 0 THEN
               Fail("VALIDATION_FAILED", s)
        ELSE Result("ok", RefreshBudget([s EXCEPT !.corrections = Append(@, correction)],
                                       s.budget.recognized + p.amount, s.budget.outstanding), p.correction)

(* A delivery is remembered by object and revision, accepted or quarantined. *)
IngestSource(s, p, m) ==
    IF \E seen \in s.ledger : seen.key = p.key THEN Result("ok", s, "duplicate")
    ELSE LET disposition == IF p.simulated THEN "accepted" ELSE "quarantined"
         IN  Result("ok", [s EXCEPT !.ledger = @ \cup {[key |-> p.key, disposition |-> disposition]}], disposition)

(***************************************************************************)
(* The forecast the mock calculates from the records up to a cutoff.       *)
(***************************************************************************)
PostingsAt(s, scope, cutoff) ==
    {i \in DOMAIN s.postings : scope \in s.postings[i].scopes /\ s.postings[i].at <= cutoff}
CorrectionsAt(s, scope, cutoff) ==
    {i \in DOMAIN s.corrections :
       /\ s.corrections[i].at <= cutoff
       /\ \E j \in PostingsAt(s, scope, cutoff) : s.postings[j].id = s.corrections[i].posting}

AmountOfThose(items, I) == SumFunction([i \in I |-> items[i].amount])

Actual(s, scope, cutoff) ==
    AmountOfThose(s.postings, PostingsAt(s, scope, cutoff)) + AmountOfThose(s.corrections, CorrectionsAt(s, scope, cutoff))

ApprovedAt(s, r, cutoff) ==
    {i \in DOMAIN s.decisions :
       s.decisions[i].request = r /\ s.decisions[i].outcome = "approved" /\ s.decisions[i].at <= cutoff}
SpentAt(s, r, scope, cutoff) ==
    AmountOfThose(s.postings, {i \in PostingsAt(s, scope, cutoff) : s.postings[i].request = r})

(* A plausible slip: the amount of the request's latest revision is taken,  *)
(* whether or not that revision was approved.                               *)
OutstandingOfLatest(s, r, scope, cutoff) ==
    IF r \notin DOMAIN s.commitments \/ s.commitments[r].created > cutoff \/ ApprovedAt(s, r, cutoff) = {} THEN 0
    ELSE Max({0, Current(s, r).amount - SpentAt(s, r, scope, cutoff)})

(* What an approved request still has to spend: the amount of the revision  *)
(* approved last, less the postings made against its commitment.            *)
OutstandingOf(s, r, scope, cutoff) ==
    IF r \notin DOMAIN s.commitments \/ s.commitments[r].created > cutoff \/ ApprovedAt(s, r, cutoff) = {} THEN 0
    ELSE LET approved == s.requests[r][s.decisions[Max(ApprovedAt(s, r, cutoff))].revision]
         IN  IF scope \notin approved.scopes THEN 0
             ELSE Max({0, approved.amount - SpentAt(s, r, scope, cutoff)})

Outstanding(s, scope, cutoff) == SumFunction([r \in DOMAIN s.requests |-> OutstandingOf(s, r, scope, cutoff)])

(* Math.round of basisPoints * base / 10000; other kinds adjust nothing. *)
Adjustment(a, base) ==
    CASE a.kind = "fixed_adjustment" -> a.value
      [] a.kind = "percentage_change" -> (2 * a.value * base + 10000) \div 20000
      [] OTHER -> 0

RunForecast(s, p, m) ==
    IF p.scope \notin Registered \/ p.horizon <= p.cutoff THEN Fail("VALIDATION_FAILED", s)
    ELSE LET history == IF p.scope \in DOMAIN s.forecasts THEN s.forecasts[p.scope] ELSE <<>>
             base == Actual(s, p.scope, p.cutoff) + Outstanding(s, p.scope, p.cutoff)
             snapshot == [revision |-> IF history = <<>> THEN 1 ELSE Last(history).revision + 1,
                          kind |-> IF p.assumptions = <<>> THEN "baseline" ELSE "scenario",
                          total |-> Max({0, base + Total(p.assumptions, LAMBDA a : Adjustment(a, base))}), by |-> m.id]
         IN  Result("ok", [s EXCEPT !.forecasts = Put(@, p.scope, Append(history, snapshot)), !.clock = @ + 1],
                    snapshot.revision)

Execute(s, p, m) ==
    CASE p.op = "requests.create" -> CreateRequest(s, p, m)
      [] p.op = "requests.amend" -> AmendRequest(s, p, m)
      [] p.op = "reviews.decide" -> DecideReview(s, p, m)
      [] p.op = "postings.record" -> RecordPosting(s, p, m)
      [] p.op = "postings.correct" -> CorrectPosting(s, p, m)
      [] p.op = "imports.ingest" -> IngestSource(s, p, m)
      [] p.op = "forecasts.run" -> RunForecast(s, p, m)

Reply(code, s) == [code |-> code, state |-> s]

(* A plausible slip: the result of a command is never memoized. *)
DispatchUnmemoized(s, m) ==
    IF m.principal = "unknown" THEN Reply("ACCESS_DENIED", s)
    ELSE IF m.fault # "none" THEN Reply(m.fault, s)
    ELSE LET r == Execute(s, m.p, m) IN Reply(r.code, r.state)

(* A command id seen with the same payload replays, with another conflicts; *)
(* the expected versions are no part of the payload, and a failure is not   *)
(* memoized.                                                                *)
Dispatch(s, m) ==
    IF m.principal = "unknown" THEN Reply("ACCESS_DENIED", s)
    ELSE IF m.fault # "none" THEN Reply(m.fault, s)
    ELSE IF m.id \in DOMAIN s.memo THEN
           Reply(IF s.memo[m.id].payload = m.p THEN "ok" ELSE "IDEMPOTENCY_CONFLICT", s)
    ELSE LET r == Execute(s, m.p, m)
         IN  Reply(r.code, IF r.code = "ok"
                           THEN [r.state EXCEPT !.memo = Put(@, m.id, [payload |-> m.p, data |-> r.data])]
                           ELSE r.state)

IsRetryable(code) == code \in {"INTERNAL_ERROR", "DEPENDENCY_UNAVAILABLE"}
=============================================================================
