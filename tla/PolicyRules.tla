----------------------------- MODULE PolicyRules -----------------------------
(***************************************************************************)
(* packages/financial-rules as operators: the applicability of a policy,   *)
(* the conditions of its rules, the validation of an approval grant and    *)
(* the outcome, with the inputs that are refused instead of decided.       *)
(* Amounts are minor units of one currency, instants are numbers, a field  *)
(* that a record leaves out is None, and reason codes are strings.         *)
(***************************************************************************)
EXTENDS Integers, FiniteSets

CONSTANTS None, MaxSafeInteger

ASSUME SafeAssumption == MaxSafeInteger \in Nat

\* money.ts: a result outside the safe integers throws, it never wraps.
Safe(n) == n \in -MaxSafeInteger .. MaxSafeInteger
NonNegative(n) == Safe(n) /\ n >= 0
Positive(n) == Safe(n) /\ n > 0

\* deriveAmendment: increases only, and the cumulative increase never shrinks.
Amendable(previous, amount) ==
  /\ Positive(amount) /\ amount > previous.amount
  /\ Safe(previous.cumulative + (amount - previous.amount))
  /\ Safe(previous.revision + 1)

DeriveAmendment(previous, amount) ==
  [previous EXCEPT !.revision = @ + 1, !.previous = previous.revision, !.amount = amount,
                   !.increase = amount - previous.amount,
                   !.cumulative = @ + (amount - previous.amount)]

\* A scope is a pair of a type and an identifier.
Covers(scope, r) == scope = <<"organization", r.organization>> \/ scope \in r.scopes

PolicyApplicability(p, r, now) ==
  {c \in {"not_yet_effective", "expired", "scope_mismatch"} :
     \/ c = "not_yet_effective" /\ now < p.from
     \/ c = "expired" /\ p.to # None /\ now >= p.to
     \/ c = "scope_mismatch" /\ ~Covers(p.scope, r)}

MatchesCategory(rule, r) == r.category \in rule.categories
MatchesRequesterRole(rule, roles) == rule.roles \cap roles # {}

ApproverRoles(rules) == {rule.approverRole : rule \in rules} \ {None}

RequiredApproverRole(rules) ==
  IF ApproverRoles(rules) = {} THEN None ELSE CHOOSE role \in ApproverRoles(rules) : TRUE

OwnDimensionId(dimension, r) ==
  [employee |-> r.requester, purpose |-> r.purpose, project |-> r.project][dimension]

TotalsOf(dimension, i) ==
  {t \in i.totals : t.dimension = dimension /\ t.id = OwnDimensionId(dimension, i.request)}

EvidenceOf(kind, i) ==
  {e \in i.evidence : e.kind = kind /\ e.organization = i.request.organization}

Fresh(e, rule, now) == rule.maxAge = None \/ now - e.observed \in 0 .. rule.maxAge

\* evaluateRule: the conditions of a matching rule that fail.
FailureOf(c, rule, i) ==
  \/ c = "vendor_not_eligible" /\ rule.vendors # None /\ i.request.vendor \notin rule.vendors
  \/ c = "missing_facts" /\ rule.activePurpose
       /\ (i.purpose = None \/ i.purpose.name # i.request.purpose)
  \/ c = "missing_facts" /\ rule.maxCumulative # None /\ TotalsOf(rule.dimension, i) = {}
  \/ c = "purpose_inactive" /\ rule.activePurpose
       /\ i.purpose # None /\ i.purpose.name = i.request.purpose /\ ~i.purpose.active
  \/ c = "evidence_missing" /\ \E k \in rule.evidence : EvidenceOf(k, i) = {}
  \/ c = "evidence_stale"
       /\ \E k \in rule.evidence : /\ EvidenceOf(k, i) # {}
                                   /\ \A e \in EvidenceOf(k, i) : ~Fresh(e, rule, i.now)
  \/ c = "amount_limit" /\ rule.maxFull # None /\ i.request.amount > rule.maxFull
  \/ c = "cumulative_limit" /\ rule.maxCumulative # None
       /\ \E t \in TotalsOf(rule.dimension, i) : t.increase > rule.maxCumulative

RuleFailures(rule, i) ==
  {c \in {"vendor_not_eligible", "missing_facts", "purpose_inactive", "evidence_missing",
          "evidence_stale", "amount_limit", "cumulative_limit"} : FailureOf(c, rule, i)}

CategoryRules(i) ==
  IF PolicyApplicability(i.policy, i.request, i.now) = {}
  THEN {rule \in i.policy.rules : MatchesCategory(rule, i.request)} ELSE {}

Candidates(i) == {rule \in CategoryRules(i) : MatchesRequesterRole(rule, i.roles)}

Met(effect, i) == {rule \in Candidates(i) : rule.effect = effect /\ RuleFailures(rule, i) = {}}

\* Mutant: only the conditions of the rules that permit are looked at.
FailuresOfPermits(i) ==
  UNION {RuleFailures(rule, i) : rule \in {x \in Candidates(i) : x.effect = "permit"}}

Failures(i) == UNION {RuleFailures(rule, i) : rule \in Candidates(i)}

Short(i, hard) == {b \in i.budgets : b.hard = hard /\ b.delta > b.authorized - b.recognized - b.outstanding}

(***************************************************************************)
(* validateApprovalGrant: every binding of the grant that no longer holds. *)
(***************************************************************************)
ActionTypeFor(r) == IF r.previous = None THEN "approve_request" ELSE "approve_amendment"

GrantCandidates(i) ==
  {rule \in i.policy.rules : MatchesCategory(rule, i.request) /\ MatchesRequesterRole(rule, i.roles)}

GrantFailureOf(c, g, a, i) ==
  LET r == i.request
      p == i.policy
      rules == GrantCandidates(i)
  IN \/ c = "organization" /\ {g.organization, a.organization} # {r.organization}
     \/ c = "request" /\ (g.request # r.id \/ g.revision # r.revision)
     \/ c = "amount" /\ g.amount # r.amount
     \/ c = "action" /\ g.action # ActionTypeFor(r)
     \/ c = "policy" /\ (g.policy # <<p.id, p.revision>> \/ PolicyApplicability(p, r, i.now) # {})
     \/ c = "epoch" /\ g.epoch # p.epoch
     \/ c = "period" /\ (i.now < g.granted \/ i.now >= g.expires)
     \/ c = "revoked" /\ a.revoked
     \/ c = "identity" /\ a.approver # g.approver
     \/ c = "role" /\ \/ ApproverRoles(rules) \notin {{}, {g.role}}
                      \/ g.role \notin a.roles
     \/ c = "authority_scope" /\ a.scopes \cap {g.scope, <<"organization", r.organization>>} = {}
     \/ c = "scope" /\ ~Covers(g.scope, r)
     \/ c = "self_approval" /\ g.approver = r.requester /\ \E rule \in rules : rule.noSelfApproval
     \/ c = "hard_cap" /\ Short(i, TRUE) # {}

GrantFailures(i) ==
  {c \in {"organization", "request", "amount", "action", "policy", "epoch", "period", "revoked",
          "identity", "role", "authority_scope", "scope", "self_approval", "hard_cap"} :
     GrantFailureOf(c, i.grant.grant, i.grant.approver, i)}

(***************************************************************************)
(* Inputs that throw: they are neither approved nor denied.                *)
(***************************************************************************)
BudgetConsistent(b, i) ==
  /\ b.organization = i.request.organization
  /\ NonNegative(b.delta) /\ NonNegative(b.authorized)
  /\ NonNegative(b.recognized) /\ NonNegative(b.outstanding)
  /\ b.available = b.authorized - b.recognized - b.outstanding
  /\ i.now \in b.start .. b.end

TotalsConsistent(i) ==
  /\ \A t, u \in i.totals : t.dimension = u.dimension /\ t.id = u.id => t = u
  /\ \A t \in i.totals :
       /\ NonNegative(t.increase)
       /\ t.id = OwnDimensionId(t.dimension, i.request) => t.increase >= i.request.cumulative

Denied(i) == Short(i, TRUE) # {} \/ Met("deny", i) # {}

Decidable(i) ==
  /\ i.request.organization = i.policy.organization
  /\ i.roles # {}
  /\ Positive(i.request.amount) /\ NonNegative(i.request.increase)
  /\ NonNegative(i.request.cumulative) /\ i.request.increase <= i.request.cumulative
  /\ TotalsConsistent(i)
  /\ \A b \in i.budgets : BudgetConsistent(b, i)
  /\ Denied(i) \/ Cardinality(ApproverRoles(Candidates(i))) <= 1

(***************************************************************************)
(* evaluateRequestPolicy: deny before review before permit; a valid grant  *)
(* lifts a review and nothing else.                                        *)
(***************************************************************************)
Coverage(i) ==
  IF Candidates(i) = {}
  THEN {IF CategoryRules(i) # {} THEN "role_not_eligible" ELSE "coverage_missing"}
  ELSE IF Met("permit", i) = {} /\ Failures(i) = {} THEN {"coverage_missing"} ELSE {}

ReviewReasons(i) ==
  LET applicability == PolicyApplicability(i.policy, i.request, i.now)
  IN  applicability
        \union (IF applicability = {} THEN Coverage(i) ELSE {})
        \union {c \in {"policy_requires_review"} : Met("require_review", i) # {}}
        \union {c \in {"soft_cap"} : Short(i, FALSE) # {}}
        \union Failures(i)

Verdict(outcome, reasons, i) ==
  [outcome |-> outcome, reasons |-> reasons, policy |-> <<i.policy.id, i.policy.revision>>,
   epoch |-> i.policy.epoch,
   role |-> IF outcome = "review_required" THEN RequiredApproverRole(Candidates(i)) ELSE None]

EvaluateRequestPolicy(i) ==
  CASE Denied(i) -> Verdict("denied",
         {c \in {"hard_cap", "explicit_deny"} : \/ c = "hard_cap" /\ Short(i, TRUE) # {}
                                                \/ c = "explicit_deny" /\ Met("deny", i) # {}}, i)
    [] ~Denied(i) /\ ReviewReasons(i) = {} -> Verdict("approved", {"allowance"}, i)
    [] ~Denied(i) /\ ReviewReasons(i) # {} /\ i.grant = None ->
         Verdict("review_required", ReviewReasons(i), i)
    [] OTHER -> IF GrantFailures(i) = {} THEN Verdict("approved", {"human_exception"}, i)
                ELSE Verdict("review_required", ReviewReasons(i) \union GrantFailures(i), i)

(***************************************************************************)
(* What makes an input more restrictive: a rule that reviews or denies     *)
(* more, less evidence or capacity, a larger total, no grant or a revoked  *)
(* approver.                                                               *)
(***************************************************************************)
Tightened(i, rules) ==
  {[i EXCEPT !.policy.rules = @ \union {rule}] : rule \in {r \in rules : r.effect # "permit"}}
    \union {[i EXCEPT !.budgets = {[b EXCEPT !.authorized = @ - 1, !.available = @ - 1] : b \in @}],
            [i EXCEPT !.totals = {[t EXCEPT !.increase = @ + 1] : t \in @}],
            [i EXCEPT !.grant = None]}
    \union (IF i.grant = None THEN {} ELSE {[i EXCEPT !.grant.approver.revoked = TRUE]})

Automatic(i) == Decidable(i) /\ EvaluateRequestPolicy(i).reasons = {"allowance"}

Rank(i) == [denied |-> 0, review_required |-> 1, approved |-> 2][EvaluateRequestPolicy(i).outcome]

NeverRelaxed(i, rules) ==
  Decidable(i) =>
    /\ \A j \in Tightened(i, rules) : Decidable(j) => Rank(j) <= Rank(i) \/ Denied(i)
    /\ \A j \in Tightened(i, rules) \union {[i EXCEPT !.evidence = {}]} : Automatic(j) => Automatic(i)
=============================================================================
