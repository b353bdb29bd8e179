--------------------------- MODULE FinanceCommands ---------------------------
(***************************************************************************)
(* The command store of the finance repository: commands that create,      *)
(* amend and decide requests, each once under its identifier, in snapshot  *)
(* transactions that race with one another, with the publication of        *)
(* policies and with the revocation of authority.  A transaction reads the *)
(* database as it was when it began and commits unless a document it       *)
(* writes was written since; then it runs again.                           *)
(* What budgets hold is BudgetLedger's: here their capacity is constant,   *)
(* and an approval only writes the accounts that its request binds.        *)
(***************************************************************************)
EXTENDS PolicyRules, Functions, TLC

CONSTANTS Servers,        \* concurrent callers
          Commands,       \* what clients send, and send again
          Requests, Principals, PolicyIds,  \* policy identifiers are numbers, in their order
          Publications,   \* policy revisions that may be published
          FirstDatabase,  \* the seeded records, and the requests made before
          Purposes, Evidence,               \* purpose records and evidence
          Accounts,       \* the budget accounts of an organization
          Now             \* the instant at which commands are evaluated

\* A revision of a request, as it is stored; its requester has an authority.
RequestFields == {"id", "organization", "requester", "purpose", "project", "category", "vendor",
                  "scopes", "revision", "previous", "amount", "increase", "cumulative", "evaluation"}

RequestRevision(q) ==
  /\ q = [f \in DOMAIN q |-> q[f]] /\ RequestFields \subseteq DOMAIN q
  /\ q.revision \in Nat /\ q.amount \in Nat /\ q.cumulative \in Nat
  /\ q.requester \in DOMAIN FirstDatabase.authorities

\* A command is a record of its kind; a create drafts the first revision of its request.
ASSUME CommandsAssumption ==
  \A cmd \in Commands :
    /\ {"id", "kind", "principal", "request", "expected"} \subseteq DOMAIN cmd
    /\ cmd.kind \in {"create", "amend", "approve", "refuse"}
    /\ cmd.request \in Requests
    /\ cmd.kind = "create" => /\ RequestRevision(cmd.draft) /\ cmd.draft.id = cmd.request
                              /\ cmd.draft.revision = 1 /\ cmd.draft.cumulative = 0
    /\ cmd.kind = "amend" => "amount" \in DOMAIN cmd /\ cmd.amount \in Nat

\* Requests and policies are stored under their identifiers, decisions under those of
\* commands that were claimed before.
ASSUME DatabaseAssumption ==
  /\ PolicyIds \subseteq Nat
  /\ \A p \in FirstDatabase.policies \union Publications : p.id \in PolicyIds
  /\ FirstDatabase.requests = [r \in Requests |-> FirstDatabase.requests[r]]
  /\ FirstDatabase.guards = [p \in PolicyIds |-> FirstDatabase.guards[p]]
  /\ \A p \in PolicyIds : FirstDatabase.guards[p] # None =>
       /\ {"revision", "epoch", "counter"} \subseteq DOMAIN FirstDatabase.guards[p]
       /\ FirstDatabase.guards[p].counter \in Nat
  /\ IsFiniteSet(Requests)
  /\ \A r \in Requests : LET q == FirstDatabase.requests[r]
                          IN  q # None => RequestRevision(q) /\ q.id = r
  /\ FirstDatabase.authorities =
       [a \in DOMAIN FirstDatabase.authorities |-> FirstDatabase.authorities[a]]
  /\ \A a \in DOMAIN FirstDatabase.authorities :
       "roles" \in DOMAIN FirstDatabase.authorities[a]
  /\ \A d, e \in FirstDatabase.decisions : d.command = e.command => d = e
  /\ \A d \in FirstDatabase.decisions, cmd \in Commands : d.command # cmd.id
  /\ \A d \in FirstDatabase.decisions :
       LET q == FirstDatabase.requests[d.request.id]
       IN  /\ d.request.id \in Requests /\ q # None
           /\ d.request.revision \in Nat /\ d.request.revision <= q.revision

\* Limits are amounts.
ASSUME LimitsAssumption ==
  \A p \in FirstDatabase.policies \union Publications : \A rule \in p.rules :
    rule.maxCumulative \in Nat \union {None}

\* One policy document per revision, and one authorization epoch for all its versions.
ASSUME EpochsAssumption ==
  /\ \A p, q \in FirstDatabase.policies : p.id = q.id /\ p.revision = q.revision => p = q
  /\ \A p, q \in FirstDatabase.policies \union Publications :
       p.id = q.id /\ p.revision = q.revision => p.epoch = q.epoch
  /\ \A p \in FirstDatabase.policies \union Publications :
       LET guard == FirstDatabase.guards[p.id]
       IN  guard # None /\ guard.revision = p.revision => guard.epoch = p.epoch

VARIABLES db,             \* claims, policies, guards, requests, decisions, authorities, and
                          \* how often each budget account was written
          calls,          \* per caller: idle, or the command and its snapshot
          publishing      \* a policy whose document is written and whose guard is not

vars == <<db, calls, publishing>>

Idle == [at |-> "idle"]

CommandIds == {c.id : c \in Commands}

Init ==
  /\ db = [claims |-> [i \in CommandIds |-> None], requests |-> FirstDatabase.requests,
           decisions |-> FirstDatabase.decisions, policies |-> FirstDatabase.policies,
           guards |-> FirstDatabase.guards, authorities |-> FirstDatabase.authorities,
           accounts |-> [a \in Accounts |-> 0]]
  /\ calls = [v \in Servers |-> Idle]
  /\ publishing = None

(***************************************************************************)
(* What a transaction reads, from its snapshot s.                          *)
(***************************************************************************)
ActivePolicies(r, s) ==
  {p \in s.policies : /\ s.guards[p.id] # None /\ p.revision = s.guards[p.id].revision
                      /\ Covers(p.scope, r)}

Specific(p) == p.scope[1] # "organization"

\* A policy of one of the request's scopes before those of the organization.
LoadActivePolicy(r, s) ==
  CHOOSE p \in ActivePolicies(r, s) :
    \A q \in ActivePolicies(r, s) \ {p} :
      \/ Specific(p) /\ ~Specific(q)
      \/ Specific(p) = Specific(q) /\ p.id < q.id

LoadPurpose(name) ==
  IF \E p \in Purposes : p.name = name THEN CHOOSE p \in Purposes : p.name = name ELSE None

LoadEvidence(p, r) ==
  {e \in Evidence : /\ \E rule \in p.rules : e.kind \in rule.evidence
                    /\ \E scope \in e.scopes : Covers(scope, r)}

\* Every other request that is not denied counts with the increases it has had.
Sharing(dimension, r, s) ==
  {q \in Requests \ {r.id} :
     /\ s.requests[q] # None /\ s.requests[q].evaluation # "denied"
     /\ OwnDimensionId(dimension, s.requests[q]) = OwnDimensionId(dimension, r)}

Consumed(dimension, r, s) ==
  SumFunction([q \in Sharing(dimension, r, s) |-> s.requests[q].cumulative])

CumulativeTotals(r, s) ==
  LET Dimensions == {"purpose", "employee"} \union (IF r.project = None THEN {} ELSE {"project"})
  IN  {[dimension |-> d, id |-> OwnDimensionId(d, r),
        increase |-> r.cumulative + Consumed(d, r, s)] : d \in Dimensions}

\* requestBudgetScopes and resolveBindingBudgets: the accounts a request binds.
BudgetScopes(r) ==
  r.scopes \union {<<"category", r.category>>, <<"employee", r.requester>>}
    \union {x \in {<<"vendor", r.vendor>>, <<"project", r.project>>} : x[2] # None}

BindingBudgets(r) == {a \in Accounts : a.scope \in BudgetScopes(r) /\ Now \in a.start .. a.end}

ReserveDelta(r) == IF r.previous = None THEN r.amount ELSE r.increase

EvaluationInput(r, grant, s) ==
  LET p == LoadActivePolicy(r, s)
  IN  [request |-> r, policy |-> p, roles |-> s.authorities[r.requester].roles,
       purpose |-> LoadPurpose(r.purpose), evidence |-> LoadEvidence(p, r),
       totals |-> CumulativeTotals(r, s), grant |-> grant, now |-> Now,
       budgets |-> {[delta |-> ReserveDelta(r)] @@ a : a \in BindingBudgets(r)}]

\* evaluate: an approval needs an account to bind.
Evaluate(i) ==
  LET v == EvaluateRequestPolicy(i)
  IN  IF v.outcome = "approved" /\ i.budgets = {}
      THEN [v EXCEPT !.outcome = "review_required", !.reasons = @ \union {"missing_facts"},
                     !.role = IF @ = None THEN "finance_manager" ELSE @]
      ELSE v

BuildGrant(cmd, r, p) ==
  LET own == r.scopes \ {<<"organization", r.organization>>}
  IN  [organization |-> r.organization, request |-> r.id, revision |-> r.revision,
       approver |-> cmd.principal, role |-> "finance_manager", action |-> ActionTypeFor(r),
       amount |-> r.amount, policy |-> <<p.id, p.revision>>, epoch |-> p.epoch,
       scope |-> IF own = {} THEN <<"organization", r.organization>>
                 ELSE CHOOSE x \in own : TRUE,
       granted |-> Now, expires |-> Now + 1]

GrantOf(cmd, r, s) ==
  IF cmd.kind # "approve" THEN None
  ELSE [grant |-> BuildGrant(cmd, r, LoadActivePolicy(r, s)),
        approver |-> [approver |-> cmd.principal, organization |-> r.organization]
                       @@ s.authorities[cmd.principal]]

CurrentRevisionOf(ref, s) ==
  CASE ref[1] = "request" -> IF s.requests[ref[2]] = None THEN None ELSE s.requests[ref[2]].revision
    [] ref[1] = "policy"  -> IF s.guards[ref[2]] = None THEN None ELSE s.guards[ref[2]].revision
    [] OTHER              -> None

AsExpected(cmd, s) ==
  \A x \in cmd.expected : CurrentRevisionOf(x.ref, s) = x.revision

Terminal(r, s) ==
  \E d \in s.decisions : /\ d.request.id = r.id /\ d.request.revision = r.revision
                         /\ d.verdict.reasons \cap {"human_exception", "human_denied"} # {}

IsManager(cmd, s) == "finance_manager" \in s.authorities[cmd.principal].roles

\* The guards of createRequest, amendRequest and decideReview before they evaluate,
\* without the intents of the request, which SpendAuthority looks at. A review is
\* not compared with the versions its client expects.
Admissible(cmd, s) ==
  LET r == s.requests[cmd.request] IN
  /\ ~s.authorities[cmd.principal].revoked
  /\ \/ /\ cmd.kind = "create"
        /\ AsExpected(cmd, s)
        /\ r = None
        /\ cmd.principal = cmd.draft.requester \/ IsManager(cmd, s)
        /\ <<"organization", cmd.draft.organization>> \in cmd.draft.scopes
     \/ /\ cmd.kind = "amend"
        /\ r # None
        /\ \E x \in cmd.expected : x.ref = <<"request", cmd.request>>
        /\ AsExpected(cmd, s)
        /\ cmd.principal = r.requester \/ IsManager(cmd, s)
        /\ r.evaluation # "denied"
        /\ Amendable(r, cmd.amount)
     \/ /\ cmd.kind \in {"approve", "refuse"}
        /\ IsManager(cmd, s)
        /\ r # None
        /\ r.revision = cmd.revision /\ r.evaluation = "review_required" /\ ~Terminal(r, s)

\* The revision a command is about: the one it inserts, or the one it decides.
Revision(cmd, s) ==
  CASE cmd.kind = "create" -> cmd.draft
    [] cmd.kind = "amend"  -> DeriveAmendment(s.requests[cmd.request], cmd.amount)
    [] OTHER               -> s.requests[cmd.request]

Input(cmd, s) ==
  LET r == Revision(cmd, s) IN EvaluationInput(r, GrantOf(cmd, r, s), s)

CommandVerdict(cmd, s) ==
  IF cmd.kind = "refuse"
  THEN Verdict("denied", {"human_denied"}, Input(cmd, s))
  ELSE Evaluate(Input(cmd, s))

\* The work ends without an error: what throws leaves no trace, its claim included.
Succeeds(cmd, s) ==
  /\ Admissible(cmd, s)
  /\ ActivePolicies(Revision(cmd, s), s) # {}
  /\ cmd.kind # "refuse" => Decidable(Input(cmd, s))
  /\ cmd.kind = "approve" => CommandVerdict(cmd, s).outcome = "approved"

Decision(cmd, s) ==
  LET v == CommandVerdict(cmd, s)
      r == Revision(cmd, s)
  IN  [command |-> cmd.id, verdict |-> v,
       request |-> IF cmd.kind \in {"create", "amend"} THEN [r EXCEPT !.evaluation = v.outcome] ELSE r]

(***************************************************************************)
(* An open transaction.  All it reads comes from its snapshot, so what it  *)
(* decides is fixed when it begins; of the snapshot the call keeps the     *)
(* documents it will write: the claim, the policy's guard, the request and *)
(* the budget accounts on which an approval reserves.                      *)
(***************************************************************************)
Fingerprint(cmd) == [cmd EXCEPT !.id = None, !.principal = None]

PolicyOfDecision(d) == d.verdict.policy[1]

AccountsOf(d) == IF d.verdict.outcome = "approved" THEN BindingBudgets(d.request) ELSE {}

Begin(cmd) ==
  LET runs == db.claims[cmd.id] = None /\ Succeeds(cmd, db)
      d == IF runs THEN Decision(cmd, db) ELSE None
  IN  [at |-> "open", cmd |-> cmd, decision |-> d, claim |-> db.claims[cmd.id],
       guard |-> IF runs THEN db.guards[PolicyOfDecision(d)] ELSE None,
       accounts |-> IF runs THEN [a \in AccountsOf(d) |-> db.accounts[a]] ELSE None,
       request |-> IF runs THEN db.requests[cmd.request] ELSE None]

Runs(t) == t.at = "open" /\ t.decision # None

Inserts(t) == t.cmd.kind \in {"create", "amend"}

\* applyExposure writes an account as long as it has the revision that was read.
AccountsMoved(t) == \E a \in AccountsOf(t.decision) : db.accounts[a] # t.accounts[a]

\* Mutant: the guard is neither checked nor written.
WriteConflictUnguarded(t) ==
  \/ db.claims[t.cmd.id] # t.claim
  \/ AccountsMoved(t)
  \/ Inserts(t) /\ db.requests[t.cmd.request] # t.request

\* Mutant: accounts are written whatever their revision.
WriteConflictUnbudgeted(t) ==
  \/ db.claims[t.cmd.id] # t.claim
  \/ db.guards[PolicyOfDecision(t.decision)] # t.guard
  \/ Inserts(t) /\ db.requests[t.cmd.request] # t.request

WriteConflict(t) ==
  \/ db.claims[t.cmd.id] # t.claim
  \/ db.guards[PolicyOfDecision(t.decision)] # t.guard
  \/ AccountsMoved(t)
  \/ Inserts(t) /\ db.requests[t.cmd.request] # t.request

Writes(t) ==
  [db EXCEPT !.claims[t.cmd.id] = [fingerprint |-> Fingerprint(t.cmd), response |-> t.decision],
             !.guards[PolicyOfDecision(t.decision)].counter = @ + 1,
             !.accounts = [a \in Accounts |->
                             IF a \in AccountsOf(t.decision) THEN db.accounts[a] + 1
                                                              ELSE db.accounts[a]],
             !.requests[t.cmd.request] = IF Inserts(t) THEN t.decision.request ELSE @,
             !.decisions = @ \union {t.decision}]

\* Mutant: a claim answers every command that carries its identifier.
ReplaysAnyPayload(t) == t.at = "open" /\ t.claim # None

Replays(t) ==
  t.at = "open" /\ t.claim # None /\ t.claim.fingerprint = Fingerprint(t.cmd)

(***************************************************************************)
(* Steps.                                                                  *)
(***************************************************************************)
Submit(v) ==
  /\ calls[v].at = "idle"
  /\ \E cmd \in Commands : calls' = [calls EXCEPT ![v] = Begin(cmd)]
  /\ UNCHANGED <<db, publishing>>

Replay(v) ==
  /\ Replays(calls[v])
  /\ calls' = [calls EXCEPT ![v] = Idle]
  /\ UNCHANGED <<db, publishing>>

\* An identifier reused for another payload, a refused command, or one given up
\* after the attempts a claim race is granted.
Fail(v) ==
  /\ calls[v].at = "open" /\ ~Replays(calls[v])
  /\ Runs(calls[v]) => WriteConflict(calls[v])
  /\ calls' = [calls EXCEPT ![v] = Idle]
  /\ UNCHANGED <<db, publishing>>

Commit(v) ==
  /\ Runs(calls[v]) /\ ~WriteConflict(calls[v])
  /\ db' = Writes(calls[v])
  /\ calls' = [calls EXCEPT ![v] = Idle]
  /\ UNCHANGED publishing

Retry(v) ==
  /\ Runs(calls[v]) /\ WriteConflict(calls[v])
  /\ calls' = [calls EXCEPT ![v] = Begin(calls[v].cmd)]
  /\ UNCHANGED <<db, publishing>>

\* seed: the policy's document first, its guard in a second write, no transaction.
PublishPolicy ==
  /\ publishing = None
  /\ \E p \in Publications :
       /\ p \notin db.policies
       /\ db' = [db EXCEPT !.policies = {q \in @ : q.id # p.id \/ q.revision # p.revision} \union {p}]
       /\ publishing' = p
  /\ UNCHANGED calls

ActivatePolicy ==
  /\ publishing # None
  /\ LET p == publishing
     IN  db' = [db EXCEPT !.guards[p.id] =
           [revision |-> p.revision, epoch |-> p.epoch, counter |-> IF @ = None THEN 0 ELSE @.counter]]
  /\ publishing' = None
  /\ UNCHANGED calls

RevokeAuthority ==
  \E a \in Principals :
    /\ ~db.authorities[a].revoked
    /\ db' = [db EXCEPT !.authorities[a].revoked = TRUE]
    /\ UNCHANGED <<calls, publishing>>

Next ==
  \/ \E v \in Servers : Submit(v) \/ Replay(v) \/ Fail(v) \/ Commit(v) \/ Retry(v)
  \/ PublishPolicy \/ ActivatePolicy \/ RevokeAuthority

CommandsSpec == Init /\ [][Next]_vars

(***************************************************************************)
(* Properties.                                                             *)
(***************************************************************************)

\* However often and on however many servers a command is sent, it decides once, and
\* every replay a client is given is the effect of the command it sent,
\* on its own request and for its own amount.
CommandsTakeEffectOnce ==
  /\ \A d, e \in db.decisions : d.command = e.command => d = e
  /\ \A v \in Servers : Replays(calls[v]) =>
       LET cmd == calls[v].cmd
           reply == calls[v].claim.response
       IN  /\ reply \in db.decisions
           /\ reply.request.id = cmd.request
           /\ cmd.kind = "amend" => reply.request.amount = cmd.amount

\* A command is never decided under a policy revision or an authorization epoch that
\* was replaced before it committed, whenever the publication falls.
DecidedUnderActivePolicy ==
  [][\A d \in db'.decisions \ db.decisions :
       LET guard == db.guards[d.verdict.policy[1]]
       IN  d.verdict.policy[2] = guard.revision /\ d.verdict.epoch = guard.epoch]_vars

(***************************************************************************)
(* An allowance is never shared twice: at the commit of an approval        *)
(* without a human, the increases that stand in the database are within    *)
(* the limits of its policy.  They are those of the requests that were     *)
(* decided under the same policy, whose guard every decision writes, or    *)
(* were approved under any policy on a budget account that the approval    *)
(* binds too.  A request that another policy has sent to review, or that   *)
(* shares no account, writes nothing this approval reads and may be        *)
(* committed after the snapshot: nobody counts it.                         *)
(***************************************************************************)
CountsWith(e, d) ==
  PolicyOfDecision(e) = PolicyOfDecision(d) \/ AccountsOf(e) \cap AccountsOf(d) # {}

Counting(s, d) ==
  [s EXCEPT !.requests = [q \in Requests |->
     IF \E e \in s.decisions : /\ e.request.id = q /\ CountsWith(e, d)
                               /\ e.request.revision = s.requests[q].revision
     THEN s.requests[q] ELSE None]]

WithinLimits(d, p, s) ==
  LET r == d.request
      i == [request |-> r, policy |-> p, roles |-> s.authorities[r.requester].roles, now |-> Now]
  IN  \A rule \in Candidates(i), t \in CumulativeTotals(r, Counting(s, d)) :
        rule.maxCumulative # None /\ t.dimension = rule.dimension => t.increase <= rule.maxCumulative

AllowanceIsSharedOnce ==
  [][\A d \in db'.decisions \ db.decisions : \A p \in db.policies :
       "allowance" \in d.verdict.reasons /\ d.verdict.policy = <<p.id, p.revision>>
         => WithinLimits(d, p, db)]_vars
=============================================================================
