--------------------------- MODULE SpendAuthority ---------------------------
(***************************************************************************)
(* The authority to spend: requests and their amendments, policy           *)
(* decisions, human reviews, the reservations they make and the action     *)
(* intents they release (apps/api/src/finance/repository.ts and            *)
(* packages/financial-rules/src/policy.ts).                                *)
(*                                                                         *)
(* The commands write the ledger of BudgetLedger and insert and cancel     *)
(* intents; what becomes of a pending intent is what ActionSettlement      *)
(* promises of its delivery.  A command runs in one transaction that first *)
(* writes the guard of the policy that covers its request, so commands on  *)
(* a request follow one another, and each is a step.  A command repeated   *)
(* under its id returns its stored answer and is no step at all.           *)
(***************************************************************************)
EXTENDS BudgetLedger, Sequences

CONSTANTS
  MaxAmendments,     \* bound on the amendments of a request
  RequestAmounts,    \* what requests may amount to
  Rules              \* the effects that rules may have on each request and amount:
                     \* which one, every evaluation finds out again

Effects  == {"permit", "require_review", "deny"}
Outcomes == {"approved", "review_required", "denied"}

ASSUME AuthorityAssumption ==
  /\ MaxAmendments \in Nat
  /\ RequestAmounts \subseteq Nat \ {0}
  /\ Rules \in [Requests -> [RequestAmounts -> SUBSET Effects]]

\* The intents of a request are named after its revisions.
Intents == Requests \X (1 .. MaxAmendments + 1)

VARIABLES
  revisions,         \* the revisions of each request, the last one current
  decisions,         \* why each revision was decided in review: an authorized human
                     \* exception, within the allowance, or a human refusal
  stage, operation   \* ActionSettlement: the intents and the provider's ledger

Delivery == INSTANCE ActionSettlement

requests == <<revisions, decisions>>
vars     == <<ledger, requests, stage, operation>>

Init ==
  /\ LedgerInit /\ Delivery!Init
  /\ revisions = [r \in Requests |-> << >>]
  /\ decisions = [i \in Intents |-> {}]

Current(r) == Len(revisions[r])
Amount(r)  == IF Current(r) = 0 THEN 0 ELSE revisions[r][Current(r)].amount

-----------------------------------------------------------------------------
(***************************************************************************)
(* Policy evaluation: deny, then review, then permit.  Every evaluation    *)
(* reads the active policy, the purpose, the evidence, the roles and the   *)
(* cumulative totals again, so the effect its rules have on a request is   *)
(* not that of the evaluation before.                                      *)
(***************************************************************************)

\* evaluateRequestPolicy without a grant, and evaluate's demand for an account.
Evaluate(r, delta, effect) ==
  IF effect = "deny" \/ ~Absorbs(r, HardCaps, delta)
  THEN "denied"
  ELSE IF \/ effect = "require_review"
          \/ ~Absorbs(r, Accounts, delta)
          \/ RequestAccounts[r] = {}
       THEN "review_required"
       ELSE "approved"

-----------------------------------------------------------------------------
(* Intents.                                                                *)

IntentsOf(r)  == {i \in Intents : i[1] = r}
LockedStates  == {"dispatching", "succeeded", "failed", "outcome_unknown"}

\* Mutant: an amendment does not look at the intents.
AmendableAlways(r) == TRUE

\* assertIntentAmendable.
Amendable(r) == \A i \in IntentsOf(r) : stage[i] \notin LockedStates

\* syncActionIntent.
SyncIntent(r, revision) ==
  stage' = [i \in Intents |->
              IF i = <<r, revision>> /\ stage[i] = "absent" THEN "pending"
              ELSE IF i[1] = r /\ i[2] # revision /\ stage[i] = "pending" THEN "canceled"
              ELSE stage[i]]

\* What an approval of the current or the new revision does.
Approve(r, revision, amount, delta) ==
  /\ Reserve(r, revision, amount, delta)
  /\ SyncIntent(r, revision)

-----------------------------------------------------------------------------
(* Commands.                                                               *)

\* createRequest and amendRequest: record the revision, and act if it is approved.
Submit(r, amount, effect) ==
  LET delta   == Delta(amount, Amount(r))
      outcome == Evaluate(r, delta, effect)
  IN  /\ revisions' = [revisions EXCEPT ![r] =
                         Append(@, [amount |-> amount, evaluation |-> outcome])]
      /\ IF outcome = "approved" THEN Approve(r, Current(r) + 1, amount, delta)
                                 ELSE UNCHANGED <<ledger, stage>>
      /\ UNCHANGED <<decisions, operation>>

CreateRequest(r) ==
  /\ Current(r) = 0
  /\ \E amount \in RequestAmounts : \E effect \in Rules[r][amount] : Submit(r, amount, effect)

AmendRequest(r) ==
  /\ Current(r) \in 1 .. MaxAmendments
  /\ revisions[r][Current(r)].evaluation # "denied"
  /\ Amendable(r)
  /\ \E amount \in RequestAmounts : \E effect \in Rules[r][amount] :
       amount > Amount(r) /\ Submit(r, amount, effect)

\* Mutant: only a denial is terminal.
AwaitingReviewUnlessDenied(r) ==
  /\ Current(r) > 0
  /\ revisions[r][Current(r)].evaluation = "review_required"
  /\ "refusal" \notin decisions[<<r, Current(r)>>]

\* decideReview's conditions: what the current revision is, and that no human decided it.
AwaitingReview(r) ==
  /\ Current(r) > 0
  /\ revisions[r][Current(r)].evaluation = "review_required"
  /\ decisions[<<r, Current(r)>>] \cap {"exception", "refusal"} = {}

Decide(r, reason) ==
  decisions' = [decisions EXCEPT ![<<r, Current(r)>>] = @ \cup {reason}]

DenyReview(r) ==
  /\ AwaitingReview(r)
  /\ Decide(r, "refusal")
  /\ UNCHANGED <<ledger, revisions, stage, operation>>

(***************************************************************************)
(* An approval evaluates the revision again, with a grant that lifts a     *)
(* review but no denial.  When nothing asks for a review any more, the     *)
(* revision is approved as within its allowance and the grant is not used: *)
(* a decision that decideReview does not take for a human's.               *)
(***************************************************************************)
Approval(r, effect) ==
  LET k       == Current(r)
      delta   == Delta(Amount(r), IF k > 1 THEN revisions[r][k - 1].amount ELSE 0)
      outcome == Evaluate(r, delta, effect)
  IN  /\ AwaitingReview(r)
      /\ outcome # "denied" /\ RequestAccounts[r] # {}
      /\ Decide(r, IF outcome = "approved" THEN "allowance" ELSE "exception")
      /\ Approve(r, k, Amount(r), delta)
      /\ UNCHANGED <<revisions, operation>>

ApproveReview(r) ==
  AwaitingReview(r) /\ \E effect \in Rules[r][Amount(r)] : Approval(r, effect)

-----------------------------------------------------------------------------
Deliver ==
  /\ \E i \in Intents : Delivery!Progress(i) \/ Delivery!Effect(i) \/ Delivery!Settle(i)
  /\ UNCHANGED <<ledger, requests>>

Next ==
  \/ \E r \in Requests :
       CreateRequest(r) \/ AmendRequest(r) \/ DenyReview(r) \/ ApproveReview(r)
  \/ Book /\ UNCHANGED <<requests, stage, operation>>
  \/ Deliver

Spec == Init /\ [][Next]_vars

-----------------------------------------------------------------------------
\* An intent by itself, as ActionSettlement sees it: a command moves several in one step.
Single(i) == INSTANCE ActionSettlement
               WITH Intents <- {i}, stage <- [j \in {i} |-> stage[j]],
                    operation <- [j \in {i} |-> operation[j]]

-----------------------------------------------------------------------------
(* Properties.                                                             *)

\* A review was approved as within the allowance: the one human decision that
\* decideReview does not find when the revision is decided again.
Overlooked(r) == \E i \in IntentsOf(r) : "allowance" \in decisions[i]

(***************************************************************************)
(* A request never holds more of its budgets than it was approved for, in  *)
(* whatever order its revisions were amended and approved, and its         *)
(* postings matched, edited and moved to other commitments; except when a  *)
(* review was approved as within the allowance, which may then be approved *)
(* again.                                                                  *)
(***************************************************************************)
ReservedWithinApproval ==
  \A r \in Requests : Overlooked(r) \/ Reserved(r) <= commitment[r].amount

(***************************************************************************)
(* Money is reserved only under an approval: the revision a commitment     *)
(* stands for was approved by policy or by a human, the commitment carries *)
(* its amount, and no human refused it, unless another had approved it as  *)
(* within the allowance.  The reservation comes from one command, its      *)
(* decision from another, and both from evaluations of different ledgers   *)
(* and facts.                                                              *)
(***************************************************************************)
Approved(r, k) ==
  /\ \/ revisions[r][k].evaluation = "approved"
     \/ decisions[<<r, k>>] \cap {"exception", "allowance"} # {}
  /\ "refusal" \in decisions[<<r, k>>] => "allowance" \in decisions[<<r, k>>]

ReservedUnderApproval ==
  \A r \in Requests :
    commitment[r] # NoCommitment =>
      LET k == commitment[r].revision
      IN  k <= Current(r) /\ Approved(r, k) /\ commitment[r].amount = revisions[r][k].amount

(***************************************************************************)
(* What a human refused holds no money: "a human decision is terminal for  *)
(* its revision" (repository.ts).  It is not, when facts that had asked    *)
(* for a review have changed: the approval is then one of policy, and the  *)
(* refusal after it leaves what that reserved.                             *)
(***************************************************************************)
RefusalsReserveNothing ==
  \A r \in Requests : commitment[r] # NoCommitment =>
    "refusal" \notin decisions[<<r, commitment[r].revision>>]

(***************************************************************************)
(* An intent spends the full amount of its revision, so no two of a        *)
(* request's intents may both succeed.  That holds of what policy          *)
(* approves: an amendment waits for the intent it supersedes and cancels   *)
(* it.  Only a revision that a human approved succeeds beside another.     *)
(***************************************************************************)
PolicySpendsOnce ==
  \A i, j \in Intents :
    i[1] = j[1] /\ i[2] < j[2] /\ stage[i] = "succeeded" /\ stage[j] = "succeeded"
      => revisions[j[1]][j[2]].evaluation = "review_required"

(***************************************************************************)
(* Whatever is reserved fits the hard caps at that moment, of every        *)
(* account at once: when a request comes to hold more of its budgets, none *)
(* of its hard-capped accounts is left overspent, however much postings    *)
(* and corrections had already booked past the reservations.               *)
(***************************************************************************)
HardCapsBound ==
  [][\A r \in Requests : Reserved(r)' > Reserved(r) =>
       \A a \in RequestAccounts[r] \cap HardCaps :
         account'[a].recognized + account'[a].outstanding <= Authorized[a]]_vars
=============================================================================
