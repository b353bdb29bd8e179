------------------------------ MODULE RuleCases ------------------------------
(***************************************************************************)
(* The evaluations of the financial rules that a state machine can be      *)
(* asked about: one input is picked, and decided as PolicyRules says.      *)
(***************************************************************************)
EXTENDS PolicyRules

CONSTANTS
  Cases,          \* the inputs of evaluateRequestPolicy
  CaseRules       \* the rules that a policy may be given besides its own

\* PolicyEvaluationInput, as far as rules read it.
PolicyEvaluationInput(i) ==
  /\ i = [request |-> i.request, policy |-> i.policy, roles |-> i.roles, purpose |-> i.purpose,
          evidence |-> i.evidence, totals |-> i.totals, grant |-> i.grant, now |-> i.now,
          budgets |-> i.budgets]
  /\ {"id", "revision", "epoch", "organization", "from", "to", "scope", "rules"}
       \subseteq DOMAIN i.policy
  /\ \A rule \in i.policy.rules : rule.maxCumulative # None => rule.maxCumulative \in Int
  /\ \A t \in i.totals : {"dimension", "id", "increase"} \subseteq DOMAIN t /\ t.increase \in Int
  /\ \A b \in i.budgets :
       /\ {"hard", "delta", "authorized", "recognized", "outstanding", "available"} \subseteq DOMAIN b
       /\ b.delta \in Int /\ b.authorized \in Int /\ b.recognized \in Int /\ b.outstanding \in Int
  /\ i.grant # None => "approver" \in DOMAIN i.grant /\ "revoked" \in DOMAIN i.grant.approver

ASSUME CasesAssumption == \A i \in Cases : i # None /\ PolicyEvaluationInput(i)

VARIABLE case     \* the input of a behaviour, None when it is about something else

CaseInit == case \in Cases \cup {None}
CaseSpec == CaseInit /\ [][UNCHANGED case]_case

(***************************************************************************)
(* No restriction makes the outcome milder: with another rule that reviews *)
(* or denies, with less evidence, capacity or authority, a request that    *)
(* was not approved without a human is not, and one that was not denied is *)
(* not decided in its favour (evaluateRequestPolicy).                      *)
(***************************************************************************)
RestrictionsNeverRelax == case # None => NeverRelaxed(case, CaseRules)
=============================================================================
