---------------------------- MODULE BudgetLedger ----------------------------
(***************************************************************************)
(* The canonical ledger: what budget accounts hold, what each request has  *)
(* reserved of them, and how postings turn reservations into spend         *)
(* (apps/api/src/finance/budgets.ts, postings.ts and commitReservation in  *)
(* repository.ts).                                                         *)
(*                                                                         *)
(* An operation here is the part of a transaction that touches the ledger. *)
(* Every document it writes is compared-and-swapped on the revision it     *)
(* read, so the transaction takes effect as one step, or throws and leaves *)
(* no trace: what throws is a guard.  Accounts are those of one accounting *)
(* period, and amounts are in minor units.                                 *)
(***************************************************************************)
EXTENDS Integers, FiniteSetsExt, Functions

CONSTANTS
  Requests, Accounts, Postings, Corrections,
  Authorized,       \* what each account may spend
  HardCaps,         \* the accounts with hardCap
  RequestAccounts,  \* resolveBindingBudgets of a request's scopes
  PostingScopes,    \* the sets of accounts a posting may bind
  Amounts,          \* what postings may amount to
  CorrectionAmounts,
  MaxRevision       \* bound on posting revisions

ASSUME LedgerAssumption ==
  /\ Authorized \in [Accounts -> Nat] /\ HardCaps \subseteq Accounts
  /\ RequestAccounts \in [Requests -> SUBSET Accounts]
  /\ PostingScopes \subseteq SUBSET Accounts
  /\ Amounts \subseteq Nat \ {0} /\ CorrectionAmounts \subseteq Int \ {0}
  /\ IsFiniteSet(Requests) /\ IsFiniteSet(Postings) /\ IsFiniteSet(Corrections)
  /\ "none" \notin Requests
  /\ MaxRevision \in Nat

VARIABLES
  account,          \* recognized spend and outstanding commitments
  commitment,       \* the one commitment of each request
  posting,          \* the latest revision of each posting and the effect it applied
  correction        \* the corrections applied

ledger == <<account, commitment, posting, correction>>

\* What is stored before anything is: revision 0, with no effect.
NoCommitment == [revision |-> 0, amount |-> 0, outstanding |-> 0]
NoPosting    == [revision |-> 0, amount |-> 0, matched |-> 0, against |-> "none", binds |-> {}]
NoCorrection == [amount |-> 0, binds |-> {}]

LedgerInit ==
  /\ account = [a \in Accounts |-> [recognized |-> 0, outstanding |-> 0]]
  /\ commitment = [r \in Requests |-> NoCommitment]
  /\ posting = [p \in Postings |-> NoPosting]
  /\ correction = [c \in Corrections |-> NoCorrection]

-----------------------------------------------------------------------------
(* Reservations.                                                           *)

\* applyExposure on the accounts it is given, and what it refuses.
Exposed(balance, binds, recognized, outstanding) ==
  [a \in Accounts |->
     IF a \in binds THEN [recognized  |-> balance[a].recognized + recognized,
                          outstanding |-> balance[a].outstanding + outstanding]
                    ELSE balance[a]]

NonNegative(balance) ==
  \A a \in Accounts : balance[a].recognized >= 0 /\ balance[a].outstanding >= 0

\* Mutant: commitments do not count until they are posted.
AvailableUnreserved(a) == Authorized[a] - account[a].recognized

Available(a) == Authorized[a] - account[a].recognized - account[a].outstanding

\* Whether these accounts of a request can absorb a delta.
Absorbs(r, accounts, delta) ==
  \A a \in RequestAccounts[r] \cap accounts : delta <= Available(a)

\* Mutant: an amendment reserves its full amount again.
DeltaFull(amount, previous) == amount

\* What a revision reserves: its full amount, or its increase over the previous one.
Delta(amount, previous) == amount - previous

\* commitReservation.
Reserve(r, revision, amount, delta) ==
  /\ Absorbs(r, HardCaps, delta)
  /\ account' = Exposed(account, RequestAccounts[r], 0, delta)
  /\ commitment' = [commitment EXCEPT ![r] =
                      [revision |-> revision, amount |-> amount,
                       outstanding |-> @.outstanding + delta]]
  /\ UNCHANGED <<posting, correction>>

-----------------------------------------------------------------------------
(* Postings.                                                               *)

Smaller(x, y) == IF x < y THEN x ELSE y

\* A commitment is matched when the posting names it, at its current revision or at none.
Matched(amount, r) == IF r = "none" THEN 0 ELSE Smaller(amount, commitment[r].outstanding)

\* Mutant: the match of the revision before is not restored.
RematchedOnce(prior, next) ==
  [r \in Requests |-> [commitment[r] EXCEPT
     !.outstanding = @ - (IF next.against = r THEN next.matched ELSE 0)]]

\* What the commitments hold once prior's match is restored, and that of next is taken.
Rematched(prior, next) ==
  [r \in Requests |-> [commitment[r] EXCEPT
     !.outstanding = @ + (IF prior.against = r THEN prior.matched ELSE 0)
                       - (IF next.against = r THEN next.matched ELSE 0)]]

(***************************************************************************)
(* Reversing the revision before, then applying the new one.  The new      *)
(* commitment was read before the reversal: if the reversal restores that  *)
(* same commitment, the write of the match finds another revision.         *)
(***************************************************************************)
Supersede(p, next) ==
  LET prior    == posting[p]
      reversed == Exposed(account, prior.binds, -prior.amount, prior.matched)
      after    == Exposed(reversed, next.binds, next.amount, -next.matched)
  IN  /\ NonNegative(reversed) /\ NonNegative(after)
      /\ ~(prior.matched > 0 /\ next.matched > 0 /\ prior.against = next.against)
      /\ account' = after
      /\ commitment' = Rematched(prior, next)
      /\ \A r \in Requests : commitment'[r].outstanding \in 0 .. commitment[r].amount
                             \/ commitment'[r] = commitment[r]
      /\ posting' = [posting EXCEPT ![p] = next]

\* applyCanonicalPosting: a revision that is not newer changes nothing.
RecordPosting(p) ==
  /\ \E revision \in posting[p].revision + 1 .. MaxRevision, amount \in Amounts,
        binds \in PostingScopes,
        r \in {"none"} \cup {q \in Requests : commitment[q] # NoCommitment} :
       Supersede(p, [revision |-> revision, amount |-> amount, matched |-> Matched(amount, r),
                     against |-> r, binds |-> binds])
  /\ UNCHANGED correction

\* applyCanonicalCorrection, once for a correction.
CorrectPosting(c, p) ==
  /\ posting[p] # NoPosting /\ correction[c] = NoCorrection
  /\ \E amount \in CorrectionAmounts :
       /\ account' = Exposed(account, posting[p].binds, amount, 0)
       /\ NonNegative(account')
       /\ correction' = [correction EXCEPT ![c] = [amount |-> amount,
                                                   binds |-> posting[p].binds]]
  /\ UNCHANGED <<commitment, posting>>

Book == \/ \E p \in Postings : RecordPosting(p)
        \/ \E c \in Corrections, p \in Postings : CorrectPosting(c, p)

-----------------------------------------------------------------------------
(* Properties of the ledger, whatever uses it.                             *)

\* The accounts that everything binds, as that of the organization.
CommonAccounts ==
  {a \in Accounts : /\ \A r \in Requests : a \in RequestAccounts[r]
                    /\ \A binds \in PostingScopes : a \in binds}

(***************************************************************************)
(* What a common account holds as outstanding commitments is the sum of    *)
(* what its commitments still reserve: reservation, matching, supersession *)
(* and its reversal change both sides alike.                               *)
(***************************************************************************)
OutstandingIsCommitted ==
  \A a \in CommonAccounts :
    account[a].outstanding = SumFunction([r \in Requests |-> commitment[r].outstanding])

\* What a posting and a correction have booked on an account.
Posted(p, a)    == IF a \in posting[p].binds THEN posting[p].amount ELSE 0
Corrected(c, a) == IF a \in correction[c].binds THEN correction[c].amount ELSE 0

(***************************************************************************)
(* postings.ts: "an edited expense is netted, not doubled".  An account's  *)
(* recognized spend is the latest revision of each posting that binds it,  *)
(* wherever earlier revisions were booked, and its corrections.            *)
(***************************************************************************)
RecognizedIsPosted ==
  \A a \in Accounts :
    account[a].recognized = SumFunction([p \in Postings |-> Posted(p, a)])
                            + SumFunction([c \in Corrections |-> Corrected(c, a)])

(***************************************************************************)
(* Both, on accounts that no refused or half-done step leaves overdrawn.   *)
(***************************************************************************)
ExposureFollowsRecords ==
  /\ OutstandingIsCommitted /\ RecognizedIsPosted
  /\ NonNegative(account)

\* What a request has reserved: what is outstanding and what postings have matched.
MatchedBy(p, r) == IF posting[p].against = r THEN posting[p].matched ELSE 0
Reserved(r) ==
  commitment[r].outstanding + SumFunction([p \in Postings |-> MatchedBy(p, r)])

(***************************************************************************)
(* A request never holds more of its budgets than it was approved for, in  *)
(* whatever order its revisions were approved and its postings matched,    *)
(* edited and moved to other commitments.                                  *)
(***************************************************************************)
NeverOverReserved == \A r \in Requests : Reserved(r) <= commitment[r].amount
=============================================================================
