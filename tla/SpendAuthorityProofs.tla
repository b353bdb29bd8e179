------------------------ MODULE SpendAuthorityProofs ------------------------
(***************************************************************************)
(* Proofs about the authority to spend, for every policy, budget and       *)
(* number of requests, amendments and postings, and whatever delivery does *)
(* within ActionSettlement: policy alone never spends the full amount of a *)
(* request twice; the accounts follow the records; what is reserved fits   *)
(* the hard caps; money is reserved only under an approval; and no request *)
(* holds more than it was approved for, unless a review of it was approved *)
(* as within the allowance.                                                *)
(*                                                                         *)
(* The module first proves that each operation of the ledger changes       *)
(* balances and records alike, whatever uses the ledger; then that the     *)
(* authority to spend uses it so.                                          *)
(***************************************************************************)
EXTENDS SpendAuthority, FiniteSums, TLAPS

-----------------------------------------------------------------------------
(* The ledger's invariant.                                                 *)

\* What the accounts and records may be.
LedgerTypes ==
  /\ account \in [Accounts -> [recognized : Int, outstanding : Int]]
  /\ commitment \in [Requests -> [revision : Nat, amount : Nat, outstanding : Int]]
  /\ posting \in [Postings -> [revision : Nat, amount : Nat, matched : Int,
                               against : Requests \cup {"none"}, binds : SUBSET Accounts]]
  /\ correction \in [Corrections -> [amount : Int, binds : SUBSET Accounts]]

\* Only what was reserved is matched, by a posting that has its accounts.
MatchesAreReserved ==
  /\ \A p \in Postings :
       /\ posting[p].matched # 0 => posting[p].against \in Requests
                                    /\ posting[p].binds \in PostingScopes
       /\ posting[p].against \in Requests => commitment[posting[p].against].revision > 0
  /\ \A r \in Requests : commitment[r].revision = 0 => commitment[r] = NoCommitment

LedgerInv == LedgerTypes /\ MatchesAreReserved /\ OutstandingIsCommitted /\ RecognizedIsPosted

\* The terms of the sums.
Outstanding == [r \in Requests |-> commitment[r].outstanding]
Bookings(a) == [p \in Postings |-> Posted(p, a)]
Amends(a)   == [c \in Corrections |-> Corrected(c, a)]
Matches(r)  == [p \in Postings |-> MatchedBy(p, r)]

LEMMA RecordTypes ==
  ASSUME LedgerTypes
  PROVE  /\ Outstanding \in [Requests -> Int]
         /\ \A a \in Accounts : Bookings(a) \in [Postings -> Int] /\ Amends(a) \in [Corrections -> Int]
         /\ \A r \in Requests : Matches(r) \in [Postings -> Int]
BY DEF LedgerTypes, Outstanding, Bookings, Amends, Matches, Posted, Corrected, MatchedBy

LEMMA InitLedger ==
  ASSUME LedgerInit
  PROVE  LedgerInv /\ NonNegative(account) /\ \A r \in Requests : Reserved(r) = 0
<1>1. LedgerTypes
  BY DEF LedgerInit, LedgerTypes, NoCommitment, NoPosting, NoCorrection
<1>2. MatchesAreReserved
  BY LedgerAssumption DEF LedgerInit, MatchesAreReserved, NoCommitment, NoPosting
<1>3. /\ \A r \in Requests : Outstanding[r] = 0
      /\ \A a \in Accounts, p \in Postings : Bookings(a)[p] = 0
      /\ \A a \in Accounts, c \in Corrections : Amends(a)[c] = 0
      /\ \A r \in Requests, p \in Postings : Matches(r)[p] = 0
  BY DEF LedgerInit, NoCommitment, NoPosting, NoCorrection, Outstanding, Bookings, Amends, Matches,
         Posted, Corrected, MatchedBy
<1>4. /\ SumFunction(Outstanding) = 0
      /\ \A a \in Accounts : SumFunction(Bookings(a)) = 0 /\ SumFunction(Amends(a)) = 0
      /\ \A r \in Requests : SumFunction(Matches(r)) = 0
  BY <1>1, <1>3, RecordTypes, SumOfZeros, LedgerAssumption
<1>5. \A a \in Accounts : account[a].recognized = 0 /\ account[a].outstanding = 0
  BY DEF LedgerInit
<1>6. OutstandingIsCommitted /\ RecognizedIsPosted
  BY <1>4, <1>5 DEF OutstandingIsCommitted, RecognizedIsPosted, CommonAccounts, Outstanding, Bookings, Amends
<1>7. \A r \in Requests : Reserved(r) = 0
  BY <1>4 DEF Reserved, Matches, LedgerInit, NoCommitment
<1> QED
  BY <1>1, <1>2, <1>5, <1>6, <1>7 DEF LedgerInv, NonNegative

\* A reservation takes its delta of all accounts of the request.
LEMMA ReserveStep ==
  ASSUME LedgerInv, NEW r \in Requests, NEW revision \in Nat \ {0}, NEW amount \in Nat,
         NEW delta \in Int, Reserve(r, revision, amount, delta)
  PROVE  /\ LedgerInv'
         /\ delta >= 0 /\ NonNegative(account) => NonNegative(account)'
         /\ \A q \in Requests : Reserved(q)' = IF q = r THEN Reserved(q) + delta ELSE Reserved(q)
         /\ \A q \in Requests \ {r} : commitment'[q] = commitment[q]
         /\ commitment'[r].revision = revision /\ commitment'[r].amount = amount
         /\ \A a \in RequestAccounts[r] \cap HardCaps :
              account'[a].recognized + account'[a].outstanding <= Authorized[a]
<1>1. LedgerTypes /\ UNCHANGED <<posting, correction>>
  BY DEF LedgerInv, Reserve
<1>2. /\ account' = [a \in Accounts |->
             IF a \in RequestAccounts[r]
             THEN [recognized |-> account[a].recognized, outstanding |-> account[a].outstanding + delta]
             ELSE account[a]]
  BY <1>1 DEF Reserve, Exposed, LedgerTypes
<1>3. commitment' = [commitment EXCEPT ![r] = [revision |-> revision, amount |-> amount,
                         outstanding |-> commitment[r].outstanding + delta]]
  BY <1>1 DEF Reserve, LedgerTypes
<1>4. LedgerTypes'
  BY <1>1, <1>2, <1>3 DEF LedgerTypes
<1>5. MatchesAreReserved'
  BY <1>1, <1>3 DEF LedgerInv, MatchesAreReserved, LedgerTypes
<1>6. OutstandingIsCommitted'
  <2>1. SumFunction(Outstanding)' = SumFunction(Outstanding) + delta /\ SumFunction(Outstanding) \in Int
    <3>1. Outstanding' \in [Requests -> Int] /\ Outstanding \in [Requests -> Int]
      BY <1>1, <1>4 DEF LedgerTypes, Outstanding
    <3>2. /\ \A q \in Requests \ {r} : Outstanding'[q] = Outstanding[q]
          /\ Outstanding'[r] = Outstanding[r] + delta
      BY <1>1, <1>3 DEF Outstanding, LedgerTypes
    <3>3. SumFunction(Outstanding') = SumFunction(Outstanding) - Outstanding[r] + Outstanding'[r]
          /\ SumFunction(Outstanding) \in Int
      BY <3>1, <3>2, SumChanges, LedgerAssumption
    <3>4. Outstanding[r] \in Int
      BY <3>1
    <3> QED
      BY <3>2, <3>3, <3>4
  <2>2. SUFFICES ASSUME NEW a \in CommonAccounts
                 PROVE  account'[a].outstanding = SumFunction(Outstanding)'
    BY DEF OutstandingIsCommitted, Outstanding, CommonAccounts
  <2>3. a \in Accounts /\ a \in RequestAccounts[r]
    BY DEF CommonAccounts
  <2>4. account[a].outstanding = SumFunction(Outstanding)
    BY DEF LedgerInv, OutstandingIsCommitted, Outstanding
  <2> QED
    BY <1>2, <2>1, <2>3, <2>4
<1>7. RecognizedIsPosted'
  <2>1. \A a \in Accounts : /\ account'[a].recognized = account[a].recognized
                            /\ Bookings(a)' = Bookings(a) /\ Amends(a)' = Amends(a)
    BY <1>1, <1>2 DEF LedgerTypes, Bookings, Amends, Posted, Corrected
  <2> QED
    BY <2>1 DEF LedgerInv, RecognizedIsPosted, Bookings, Amends
<1>8. \A q \in Requests : Reserved(q)' = IF q = r THEN Reserved(q) + delta ELSE Reserved(q)
  <2>1. \A q \in Requests : SumFunction(Matches(q)) \in Int
    BY <1>1, RecordTypes, SumIsInteger, LedgerAssumption
  <2>2. \A q \in Requests : Matches(q)' = Matches(q)
    BY <1>1 DEF Matches, MatchedBy
  <2>3. \A q \in Requests :
          /\ commitment[q].outstanding \in Int
          /\ commitment'[q].outstanding = IF q = r THEN commitment[q].outstanding + delta
                                                   ELSE commitment[q].outstanding
    BY <1>1, <1>3 DEF LedgerTypes
  <2>4. \A q \in Requests : /\ Reserved(q) = commitment[q].outstanding + SumFunction(Matches(q))
                            /\ Reserved(q)' = commitment'[q].outstanding + SumFunction(Matches(q))
    BY <2>2 DEF Reserved, Matches
  <2> QED
    BY <2>1, <2>3, <2>4
<1>9. \A a \in RequestAccounts[r] \cap HardCaps :
        account'[a].recognized + account'[a].outstanding <= Authorized[a]
  BY <1>1, <1>2, LedgerAssumption DEF Reserve, Absorbs, Available, LedgerTypes
<1>10. delta >= 0 /\ NonNegative(account) => NonNegative(account)'
  BY <1>1, <1>2 DEF NonNegative, LedgerTypes
<1> QED
  BY <1>1, <1>3, <1>4, <1>5, <1>6, <1>7, <1>8, <1>9, <1>10 DEF LedgerInv, LedgerTypes

\* Superseding a revision of a posting books the next one in its place, and
\* moves its match within what the requests have reserved.
LEMMA SupersedeStep ==
  ASSUME LedgerInv, NEW p \in Postings, NEW next \in [revision : Nat, amount : Nat, matched : Int,
           against : Requests \cup {"none"}, binds : PostingScopes],
         next.against = "none" => next.matched = 0,
         next.against \in Requests => commitment[next.against].revision > 0,
         Supersede(p, next), UNCHANGED correction
  PROVE  /\ LedgerInv' /\ NonNegative(account)'
         /\ \A r \in Requests : /\ Reserved(r)' = Reserved(r)
                                /\ commitment'[r].revision = commitment[r].revision
                                /\ commitment'[r].amount = commitment[r].amount
<1> DEFINE prior == posting[p]
           Was(r) == IF prior.against = r THEN prior.matched ELSE 0
           Is(r)  == IF next.against = r THEN next.matched ELSE 0
<1>1. LedgerTypes /\ MatchesAreReserved
  BY DEF LedgerInv
<1>2. /\ prior \in [revision : Nat, amount : Nat, matched : Int,
                    against : Requests \cup {"none"}, binds : SUBSET Accounts]
      /\ next.binds \in SUBSET Accounts
  BY <1>1, LedgerAssumption DEF LedgerTypes
<1>3. posting' = [posting EXCEPT ![p] = next] /\ NonNegative(account)'
  BY DEF Supersede, NonNegative
<1>4. \A a \in Accounts :
        account'[a] = [recognized |-> account[a].recognized - (IF a \in prior.binds THEN prior.amount ELSE 0)
                                        + (IF a \in next.binds THEN next.amount ELSE 0),
                       outstanding |-> account[a].outstanding + (IF a \in prior.binds THEN prior.matched ELSE 0)
                                        - (IF a \in next.binds THEN next.matched ELSE 0)]
  <2>1. account' = Exposed(Exposed(account, prior.binds, -prior.amount, prior.matched),
                           next.binds, next.amount, -next.matched)
    BY DEF Supersede
  <2> QED
    BY <1>1, <1>2, <2>1 DEF Exposed, LedgerTypes
<1>5. /\ account' = [a \in Accounts |-> account'[a]]
      /\ \A a \in Accounts :
           /\ account'[a].recognized = account[a].recognized - (IF a \in prior.binds THEN prior.amount ELSE 0)
                                        + (IF a \in next.binds THEN next.amount ELSE 0)
           /\ account'[a].outstanding = account[a].outstanding + (IF a \in prior.binds THEN prior.matched ELSE 0)
                                         - (IF a \in next.binds THEN next.matched ELSE 0)
  <2>1. account' = [a \in Accounts |-> account'[a]]
    BY DEF Supersede, Exposed
  <2> HIDE DEF prior
  <2> QED
    BY <1>4, <2>1
<1>6. /\ commitment' = [r \in Requests |-> commitment'[r]]
      /\ \A r \in Requests :
           commitment'[r] = [revision |-> commitment[r].revision, amount |-> commitment[r].amount,
                             outstanding |-> commitment[r].outstanding + Was(r) - Is(r)]
  <2>1. commitment' = Rematched(prior, next)
    BY DEF Supersede
  <2> QED
    BY <1>1, <2>1 DEF Rematched, LedgerTypes
<1>7. \A r \in Requests : Was(r) \in Int /\ Is(r) \in Int
  BY <1>2
<1>8. LedgerTypes'
  <2>1. account' \in [Accounts -> [recognized : Int, outstanding : Int]]
    BY <1>1, <1>2, <1>4, <1>5 DEF LedgerTypes
  <2>2. commitment' \in [Requests -> [revision : Nat, amount : Nat, outstanding : Int]]
    <3> HIDE DEF Was, Is
    <3> QED
      BY <1>1, <1>6, <1>7 DEF LedgerTypes
  <2>3. next \in [revision : Nat, amount : Nat, matched : Int,
                  against : Requests \cup {"none"}, binds : SUBSET Accounts]
    BY <1>2
  <2> QED
    BY <1>1, <1>3, <2>1, <2>2, <2>3 DEF LedgerTypes
<1>9. MatchesAreReserved'
  <2>1. \A q \in Postings : /\ posting'[q].matched # 0 => posting'[q].against \in Requests
                                                         /\ posting'[q].binds \in PostingScopes
    BY <1>1, <1>3 DEF MatchesAreReserved, LedgerTypes
  <2>2. \A r \in Requests : commitment'[r].revision = commitment[r].revision
    BY <1>6
  <2>3. \A q \in Postings : posting'[q].against \in Requests => commitment'[posting'[q].against].revision > 0
    BY <1>1, <1>3, <2>2 DEF MatchesAreReserved, LedgerTypes
  <2>4. ASSUME NEW r \in Requests, commitment'[r].revision = 0 PROVE commitment'[r] = NoCommitment
    <3>1. commitment[r] = NoCommitment
      BY <1>1, <2>2, <2>4 DEF MatchesAreReserved
    <3>2. Was(r) = 0 /\ Is(r) = 0
      BY <1>1, <2>2, <2>4, <1>2 DEF MatchesAreReserved
    <3> HIDE DEF Was, Is
    <3> QED
      BY <1>6, <3>1, <3>2 DEF NoCommitment
  <2> QED
    BY <2>1, <2>3, <2>4 DEF MatchesAreReserved
<1>10. OutstandingIsCommitted'
  <2> DEFINE f == Outstanding
             g == Outstanding'
  <2>1. f \in [Requests -> Int] /\ g \in [Requests -> Int]
    BY <1>1, <1>8 DEF LedgerTypes, Outstanding
  <2>2. \A r \in Requests : g[r] = f[r] + (IF r = prior.against THEN prior.matched ELSE 0)
                                        - (IF r = next.against THEN next.matched ELSE 0)
    BY <1>6 DEF Outstanding
  <2>3. /\ prior.against \notin Requests => prior.matched = 0
        /\ next.against \notin Requests => next.matched = 0
    BY <1>1 DEF MatchesAreReserved
  <2>4. prior.matched \in Int /\ next.matched \in Int
    BY <1>2
  <2> HIDE DEF f, g, prior
  <2>5. SumFunction(g) = SumFunction(f) + prior.matched - next.matched
    <3> DEFINE x == prior.against
               y == next.against
               u == prior.matched
               v == -next.matched
               h == [r \in Requests |-> f[r] + (IF r = x THEN u ELSE 0)]
    <3>1. /\ h \in [Requests -> Int] /\ u \in Int /\ v \in Int
          /\ \A r \in Requests \ {x} : h[r] = f[r]
          /\ x \in Requests => h[x] = f[x] + u
      BY <2>1, <2>4
    <3>2. /\ \A r \in Requests \ {y} : g[r] = h[r]
          /\ y \in Requests => g[y] = h[y] + v
      BY <2>1, <2>2, <2>4
    <3>3. /\ x \notin Requests => u = 0
          /\ y \notin Requests => v = 0
      BY <2>3
    <3>4. IsFiniteSet(Requests) /\ SumFunction(f) \in Int
      BY <2>1, SumIsInteger, LedgerAssumption
    <3> HIDE DEF x, y, u, v, h
    <3>5. SumFunction(h) = SumFunction(f) + u
      BY <2>1, <3>1, <3>3, <3>4, SumShifts
    <3>6. SumFunction(g) = SumFunction(h) + v
      BY <2>1, <3>1, <3>2, <3>3, <3>4, SumShifts
    <3> QED
      BY <2>4, <3>4, <3>5, <3>6 DEF u, v
  <2> SUFFICES ASSUME NEW a \in CommonAccounts PROVE account'[a].outstanding = SumFunction(g)
    BY DEF OutstandingIsCommitted, Outstanding, CommonAccounts, g
  <2>6. a \in Accounts /\ a \in next.binds /\ (prior.matched # 0 => a \in prior.binds)
    BY <1>1 DEF CommonAccounts, MatchesAreReserved, prior
  <2>7. account[a].outstanding = SumFunction(f) /\ account[a].outstanding \in Int
    BY <1>1, <2>6 DEF LedgerInv, LedgerTypes, OutstandingIsCommitted, Outstanding, f
  <2>8. account'[a].outstanding = account[a].outstanding + (IF a \in prior.binds THEN prior.matched ELSE 0)
                                  - (IF a \in next.binds THEN next.matched ELSE 0)
    BY <1>5, <2>6
  <2> QED
    BY <2>4, <2>5, <2>6, <2>7, <2>8
<1>11. RecognizedIsPosted'
  <2> SUFFICES ASSUME NEW a \in Accounts
               PROVE  account'[a].recognized = SumFunction(Bookings(a)') + SumFunction(Amends(a)')
    BY DEF RecognizedIsPosted, Bookings, Amends
  <2>1. Bookings(a) \in [Postings -> Int] /\ Bookings(a)' \in [Postings -> Int]
        /\ Amends(a) \in [Corrections -> Int] /\ Amends(a)' = Amends(a)
    BY <1>1, <1>8 DEF LedgerTypes, Bookings, Amends, Posted, Corrected
  <2>2. /\ \A q \in Postings \ {p} : Bookings(a)'[q] = Bookings(a)[q]
        /\ Bookings(a)[p] = IF a \in prior.binds THEN prior.amount ELSE 0
        /\ Bookings(a)'[p] = IF a \in next.binds THEN next.amount ELSE 0
    BY <1>1, <1>3 DEF Bookings, Posted, LedgerTypes
  <2>3. SumFunction(Bookings(a)') = SumFunction(Bookings(a)) - Bookings(a)[p] + Bookings(a)'[p]
    BY <2>1, <2>2, SumChanges, LedgerAssumption
  <2>4. SumFunction(Bookings(a)) \in Int /\ SumFunction(Amends(a)) \in Int
    BY <2>1, SumIsInteger, LedgerAssumption
  <2>5. account[a].recognized = SumFunction(Bookings(a)) + SumFunction(Amends(a))
    BY DEF LedgerInv, RecognizedIsPosted, Bookings, Amends
  <2>6. account'[a].recognized = account[a].recognized - Bookings(a)[p] + Bookings(a)'[p]
    BY <1>5, <2>2
  <2>7. Bookings(a)[p] \in Int /\ Bookings(a)'[p] \in Int
    BY <2>1
  <2> QED
    BY <2>1, <2>3, <2>4, <2>5, <2>6, <2>7
<1>12. ASSUME NEW r \in Requests PROVE Reserved(r)' = Reserved(r)
  <2>1. Matches(r) \in [Postings -> Int] /\ Matches(r)' \in [Postings -> Int]
    BY <1>1, <1>8 DEF LedgerTypes, Matches, MatchedBy
  <2>2. /\ \A q \in Postings \ {p} : Matches(r)'[q] = Matches(r)[q]
        /\ Matches(r)[p] = Was(r) /\ Matches(r)'[p] = Is(r)
    BY <1>1, <1>3 DEF Matches, MatchedBy, LedgerTypes
  <2> HIDE DEF Was, Is
  <2>3. SumFunction(Matches(r)') = SumFunction(Matches(r)) - Was(r) + Is(r)
    BY <2>1, <2>2, SumChanges, LedgerAssumption
  <2>4. SumFunction(Matches(r)) \in Int /\ commitment[r].outstanding \in Int
    BY <1>1, <2>1, SumIsInteger, LedgerAssumption DEF LedgerTypes
  <2>5. /\ Reserved(r) = commitment[r].outstanding + SumFunction(Matches(r))
        /\ Reserved(r)' = commitment'[r].outstanding + SumFunction(Matches(r)')
    BY DEF Reserved, Matches
  <2> QED
    BY <1>6, <1>7, <2>3, <2>4, <2>5
<1> QED
  BY <1>3, <1>6, <1>8, <1>9, <1>10, <1>11, <1>12 DEF LedgerInv

\* A correction changes what is recognized, of the accounts of its posting.
LEMMA CorrectStep ==
  ASSUME LedgerInv, NEW c \in Corrections, NEW p \in Postings, CorrectPosting(c, p)
  PROVE  LedgerInv' /\ NonNegative(account)' /\ UNCHANGED commitment
         /\ \A r \in Requests : Reserved(r)' = Reserved(r)
<1>1. LedgerTypes /\ MatchesAreReserved /\ UNCHANGED <<commitment, posting>>
  BY DEF LedgerInv, CorrectPosting
<1>2. PICK amount \in CorrectionAmounts :
        /\ account' = Exposed(account, posting[p].binds, amount, 0)
        /\ correction' = [correction EXCEPT ![c] = [amount |-> amount, binds |-> posting[p].binds]]
  BY DEF CorrectPosting
<1>3. correction[c] = NoCorrection /\ NonNegative(account)'
  BY DEF CorrectPosting, NonNegative
<1>4. amount \in Int /\ posting[p].binds \in SUBSET Accounts
  BY <1>1, LedgerAssumption DEF LedgerTypes
<1>5. account' = [a \in Accounts |->
        IF a \in posting[p].binds
        THEN [recognized |-> account[a].recognized + amount, outstanding |-> account[a].outstanding]
        ELSE account[a]]
  BY <1>1, <1>2, <1>4 DEF Exposed, LedgerTypes
<1>6. LedgerTypes'
  BY <1>1, <1>2, <1>4, <1>5 DEF LedgerTypes
<1>7. MatchesAreReserved'
  BY <1>1 DEF MatchesAreReserved
<1>8. OutstandingIsCommitted'
  <2>1. \A a \in Accounts : account'[a].outstanding = account[a].outstanding
    BY <1>1, <1>5 DEF LedgerTypes
  <2> QED
    BY <1>1, <2>1 DEF LedgerInv, OutstandingIsCommitted, CommonAccounts
<1>9. RecognizedIsPosted'
  <2> SUFFICES ASSUME NEW a \in Accounts
               PROVE  account'[a].recognized = SumFunction(Bookings(a)') + SumFunction(Amends(a)')
    BY DEF RecognizedIsPosted, Bookings, Amends
  <2>1. Bookings(a) \in [Postings -> Int] /\ Bookings(a)' = Bookings(a)
        /\ Amends(a) \in [Corrections -> Int] /\ Amends(a)' \in [Corrections -> Int]
    BY <1>1, <1>6 DEF LedgerTypes, Bookings, Amends, Posted, Corrected
  <2>2. /\ \A d \in Corrections \ {c} : Amends(a)'[d] = Amends(a)[d]
        /\ Amends(a)[c] = 0
        /\ Amends(a)'[c] = IF a \in posting[p].binds THEN amount ELSE 0
    BY <1>1, <1>2, <1>3 DEF Amends, Corrected, NoCorrection, LedgerTypes
  <2>3. SumFunction(Amends(a)') = SumFunction(Amends(a)) - Amends(a)[c] + Amends(a)'[c]
    BY <2>1, <2>2, SumChanges, LedgerAssumption
  <2>4. SumFunction(Bookings(a)) \in Int /\ SumFunction(Amends(a)) \in Int
    BY <2>1, SumIsInteger, LedgerAssumption
  <2>5. account[a].recognized = SumFunction(Bookings(a)) + SumFunction(Amends(a))
    BY DEF LedgerInv, RecognizedIsPosted, Bookings, Amends
  <2>6. account'[a].recognized = account[a].recognized + Amends(a)'[c]
    BY <1>1, <1>5, <2>2 DEF LedgerTypes
  <2>7. Amends(a)'[c] \in Int
    BY <2>1
  <2> QED
    BY <2>1, <2>2, <2>3, <2>4, <2>5, <2>6, <2>7
<1>10. \A r \in Requests : Reserved(r)' = Reserved(r)
  BY <1>1 DEF Reserved, MatchedBy
<1> QED
  BY <1>1, <1>3, <1>6, <1>7, <1>8, <1>9, <1>10 DEF LedgerInv

\* Booking leaves what the requests have reserved to them.
LEMMA BookStep ==
  ASSUME LedgerInv, Book
  PROVE  /\ LedgerInv' /\ NonNegative(account)'
         /\ \A r \in Requests : /\ Reserved(r)' = Reserved(r)
                                /\ commitment'[r].revision = commitment[r].revision
                                /\ commitment'[r].amount = commitment[r].amount
<1>1. CASE \E c \in Corrections, p \in Postings : CorrectPosting(c, p)
  BY <1>1, CorrectStep
<1>2. CASE \E p \in Postings : RecordPosting(p)
  <2>1. PICK p \in Postings : RecordPosting(p)
    BY <1>2
  <2>2. PICK revision \in posting[p].revision + 1 .. MaxRevision, amount \in Amounts,
             binds \in PostingScopes,
             r \in {"none"} \cup {q \in Requests : commitment[q] # NoCommitment} :
          Supersede(p, [revision |-> revision, amount |-> amount, matched |-> Matched(amount, r),
                        against |-> r, binds |-> binds])
    BY <2>1 DEF RecordPosting
  <2> DEFINE next == [revision |-> revision, amount |-> amount, matched |-> Matched(amount, r),
                      against |-> r, binds |-> binds]
  <2>3. LedgerTypes /\ MatchesAreReserved /\ UNCHANGED correction
    BY <2>1 DEF LedgerInv, RecordPosting
  <2>4. posting[p].revision \in Nat
    BY <2>3 DEF LedgerTypes
  <2>5. revision \in Nat /\ amount \in Nat
    BY <2>4, LedgerAssumption
  <2>6. r \in Requests => commitment[r] # NoCommitment
    BY LedgerAssumption
  <2>7. Matched(amount, r) \in Int /\ (r = "none" => Matched(amount, r) = 0)
    BY <2>3, <2>5 DEF Matched, Smaller, LedgerTypes
  <2>8. r \in Requests => commitment[r].revision > 0
    BY <2>3, <2>6 DEF MatchesAreReserved, LedgerTypes
  <2>9. /\ next \in [revision : Nat, amount : Nat, matched : Int,
                     against : Requests \cup {"none"}, binds : PostingScopes]
        /\ next.against = r /\ next.matched = Matched(amount, r)
    BY <2>5, <2>7
  <2>10. Supersede(p, next)
    BY <2>2
  <2> HIDE DEF next
  <2> QED
    BY <2>3, <2>7, <2>8, <2>9, <2>10, SupersedeStep
<1> QED
  BY <1>1, <1>2 DEF Book

LEMMA ReservedType == ASSUME LedgerInv PROVE \A r \in Requests : Reserved(r) \in Int
<1>1. \A r \in Requests : Matches(r) \in [Postings -> Int] /\ commitment[r].outstanding \in Int
  BY RecordTypes DEF LedgerInv, LedgerTypes
<1>2. \A r \in Requests : SumFunction(Matches(r)) \in Int
  BY <1>1, SumIsInteger, LedgerAssumption
<1> QED
  BY <1>1, <1>2 DEF Reserved, Matches

-----------------------------------------------------------------------------
(* Policy alone never spends an amount twice.                              *)

\* What the proof needs of the types.
Shape ==
  /\ revisions \in [Requests -> Seq([amount : RequestAmounts, evaluation : Outcomes])]
  /\ \A r \in Requests : Len(revisions[r]) <= MaxAmendments + 1
  /\ stage \in [Intents -> Delivery!IntentStates]

\* An intent was opened for a revision that exists and was not denied.
OpenedFor ==
  \A i \in Intents :
    stage[i] # "absent" => /\ i[2] <= Current(i[1])
                           /\ revisions[i[1]][i[2]].evaluation # "denied"

\* Once policy approved a revision, the intents before it are over.
EarlierAreOver ==
  \A i, j \in Intents :
    /\ i[1] = j[1] /\ i[2] < j[2] /\ j[2] <= Current(j[1])
    /\ revisions[j[1]][j[2]].evaluation = "approved"
    => stage[i] \in {"absent", "canceled"}

IInv == Shape /\ OpenedFor /\ EarlierAreOver

LEMMA ElementOf == ASSUME NEW S, NEW s \in Seq(S), NEW n \in 1 .. Len(s) PROVE s[n] \in S
  OBVIOUS

LEMMA InitIInv == Init => IInv
  BY AuthorityAssumption
     DEF Init, IInv, Shape, OpenedFor, EarlierAreOver, Delivery!Init,
         Delivery!IntentStates, Intents, Current

-----------------------------------------------------------------------------
(* Steps that leave the revisions alone.                                   *)

\* An intent that is over stays so, unless it is that of the current revision.
LEMMA StageStep ==
  ASSUME IInv, UNCHANGED revisions, stage' \in [Intents -> Delivery!IntentStates],
         \A i \in Intents :
           \/ stage'[i] = stage[i]
           \/ stage[i] \notin {"absent", "canceled"}
           \/ i[2] = Current(i[1]) /\ revisions[i[1]][i[2]].evaluation # "denied"
  PROVE  IInv'
<1>1. Shape'
  BY DEF IInv, Shape
<1>2. OpenedFor'
  <2>1. SUFFICES ASSUME NEW i \in Intents, stage'[i] # "absent"
                 PROVE  /\ i[2] <= Current(i[1])
                        /\ revisions[i[1]][i[2]].evaluation # "denied"
    BY DEF OpenedFor, Current
  <2>2. CASE stage[i] # "absent"
    BY <2>2 DEF IInv, OpenedFor
  <2>3. CASE stage[i] = "absent"
    <3>1. i[2] = Current(i[1]) /\ revisions[i[1]][i[2]].evaluation # "denied"
      BY <2>1, <2>3
    <3>2. Current(i[1]) \in Nat
      BY DEF IInv, Shape, Current, Intents
    <3> QED
      BY <3>1, <3>2
  <2> QED
    BY <2>2, <2>3
<1>3. EarlierAreOver'
  <2>1. SUFFICES ASSUME NEW i \in Intents, NEW j \in Intents,
                        i[1] = j[1], i[2] < j[2], j[2] <= Current(j[1]),
                        revisions[j[1]][j[2]].evaluation = "approved"
                 PROVE  stage'[i] \in {"absent", "canceled"}
    BY DEF EarlierAreOver, Current
  <2>2. stage[i] \in {"absent", "canceled"}
    BY <2>1 DEF IInv, EarlierAreOver
  <2>3. i[2] # Current(i[1])
    <3>1. i[2] \in Int /\ j[2] \in Int /\ Current(j[1]) \in Nat
      BY DEF IInv, Shape, Current, Intents
    <3> QED
      BY <2>1, <3>1
  <2> QED
    BY <2>2, <2>3
<1> QED
  BY <1>1, <1>2, <1>3 DEF IInv

LEMMA DeliverStep == ASSUME IInv, Deliver PROVE IInv'
<1>1. PICK i \in Intents : Delivery!Progress(i) \/ Delivery!Effect(i) \/ Delivery!Settle(i)
  BY DEF Deliver
<1>2. UNCHANGED revisions /\ stage \in [Intents -> Delivery!IntentStates]
  BY DEF Deliver, requests, IInv, Shape
<1>3. CASE Delivery!Progress(i)
  BY <1>2, <1>3, StageStep
     DEF Delivery!Progress, Delivery!ActiveStates, Delivery!IntentStates
<1>4. CASE Delivery!Effect(i)
  BY <1>2, <1>4, StageStep DEF Delivery!Effect
<1>5. CASE Delivery!Settle(i)
  <2>1. Delivery!StateOf(operation[i]) \in Delivery!IntentStates
    BY DEF Delivery!StateOf, Delivery!IntentStates, Delivery!TerminalStates
  <2> QED
    BY <1>2, <1>5, <2>1, StageStep DEF Delivery!Settle
<1> QED
  BY <1>1, <1>3, <1>4, <1>5

\* What syncActionIntent does to the intents.
LEMMA Synced ==
  ASSUME Shape, NEW r \in Requests, NEW k \in 1 .. MaxAmendments + 1, SyncIntent(r, k)
  PROVE  /\ stage' \in [Intents -> Delivery!IntentStates]
         /\ \A i \in Intents :
              \/ stage'[i] = stage[i] /\ (stage[i] # "pending" \/ i[1] # r \/ i[2] = k)
              \/ stage[i] = "pending" /\ stage'[i] = "canceled" /\ i[1] = r /\ i[2] # k
              \/ stage[i] = "absent" /\ stage'[i] = "pending" /\ i = <<r, k>>
  BY DEF Shape, SyncIntent, Intents, Delivery!IntentStates, Delivery!ActiveStates,
         Delivery!TerminalStates

LEMMA ApproveStep == ASSUME IInv, NEW r \in Requests, ApproveReview(r) PROVE IInv'
<1> DEFINE k == Current(r)
<1>1. /\ k \in 1 .. MaxAmendments + 1 /\ revisions[r][k].evaluation = "review_required"
      /\ UNCHANGED revisions
  BY AuthorityAssumption DEF ApproveReview, Approval, AwaitingReview, IInv, Shape, Current
<1>2. SyncIntent(r, k)
  BY DEF ApproveReview, Approval, Approve
<1>3. Shape
  BY DEF IInv
<1> HIDE DEF k
<1>4. /\ stage' \in [Intents -> Delivery!IntentStates]
      /\ \A i \in Intents :
           stage'[i] = stage[i] \/ stage[i] \notin {"absent", "canceled"} \/ i = <<r, k>>
  BY <1>1, <1>2, <1>3, Synced
<1> QED
  BY <1>1, <1>4, StageStep DEF k

-----------------------------------------------------------------------------
(* Steps that add a revision.                                              *)

\* A recorded revision is appended, with the outcome of its evaluation.
LEMMA SubmitAppends ==
  ASSUME Shape, NEW r \in Requests, NEW amount \in RequestAmounts, NEW effect,
         Current(r) <= MaxAmendments, Submit(r, amount, effect)
  PROVE  LET k       == Current(r) + 1
             delta   == Delta(amount, Amount(r))
             outcome == Evaluate(r, delta, effect)
         IN  /\ Current(r) \in Nat /\ k \in 1 .. MaxAmendments + 1 /\ outcome \in Outcomes
             /\ revisions' \in [Requests -> Seq([amount : RequestAmounts, evaluation : Outcomes])]
             /\ \A q \in Requests : Current(q)' = IF q = r THEN k ELSE Current(q)
             /\ revisions'[r][k].amount = amount /\ revisions'[r][k].evaluation = outcome
             /\ \A q \in Requests : \A n \in 1 .. Current(q) : revisions'[q][n] = revisions[q][n]
             /\ IF outcome = "approved" THEN Reserve(r, k, amount, delta) /\ SyncIntent(r, k)
                                        ELSE UNCHANGED <<ledger, stage>>
<1> DEFINE k == Current(r) + 1
           outcome == Evaluate(r, Delta(amount, Amount(r)), effect)
           new == [amount |-> amount, evaluation |-> outcome]
           longer == Append(revisions[r], new)
<1>1. /\ Current(r) \in Nat /\ k \in 1 .. MaxAmendments + 1
      /\ revisions[r] \in Seq([amount : RequestAmounts, evaluation : Outcomes])
  <2>1. revisions[r] \in Seq([amount : RequestAmounts, evaluation : Outcomes])
    BY DEF Shape
  <2>2. Current(r) \in Nat
    BY <2>1 DEF Current
  <2> QED
    BY <2>1, <2>2, AuthorityAssumption
<1>2. outcome \in Outcomes
  BY DEF Evaluate, Outcomes
<1>3. /\ revisions' = [revisions EXCEPT ![r] = longer]
      /\ IF outcome = "approved" THEN Reserve(r, k, amount, Delta(amount, Amount(r))) /\ SyncIntent(r, k)
                                 ELSE UNCHANGED <<ledger, stage>>
  BY DEF Submit, Approve
<1>4. /\ new \in [amount : RequestAmounts, evaluation : Outcomes]
      /\ new.amount = amount /\ new.evaluation = outcome
  BY <1>2
<1> HIDE DEF outcome, new
<1>5. /\ longer \in Seq([amount : RequestAmounts, evaluation : Outcomes])
      /\ Len(longer) = k /\ longer[k] = new
      /\ \A n \in 1 .. Current(r) : longer[n] = revisions[r][n]
  BY <1>1, <1>4 DEF Current
<1> HIDE DEF longer
<1>6. revisions'[r] = longer /\ \A q \in Requests \ {r} : revisions'[q] = revisions[q]
  BY <1>3 DEF Shape
<1>7. revisions' \in [Requests -> Seq([amount : RequestAmounts, evaluation : Outcomes])]
  BY <1>3, <1>5 DEF Shape
<1>8. \A q \in Requests : Current(q)' = IF q = r THEN k ELSE Current(q)
  BY <1>5, <1>6 DEF Current
<1>9. \A q \in Requests : \A n \in 1 .. Current(q) : revisions'[q][n] = revisions[q][n]
  BY <1>5, <1>6
<1>10. revisions'[r][k].amount = amount /\ revisions'[r][k].evaluation = outcome
  BY <1>4, <1>5, <1>6
<1> QED
  BY <1>1, <1>2, <1>3, <1>7, <1>8, <1>9, <1>10 DEF outcome

\* The amounts of a request's revisions.
LEMMA AmountTypes ==
  ASSUME Shape, NEW r \in Requests
  PROVE  /\ Current(r) \in 0 .. MaxAmendments + 1
         /\ \A n \in 1 .. Current(r) : /\ revisions[r][n].amount \in RequestAmounts
                                       /\ revisions[r][n].amount \in Nat \ {0}
                                       /\ revisions[r][n].evaluation \in Outcomes
         /\ Amount(r) \in Nat
<1>1. revisions[r] \in Seq([amount : RequestAmounts, evaluation : Outcomes])
  BY DEF Shape
<1>2. Current(r) \in Nat /\ Current(r) <= MaxAmendments + 1
  BY <1>1 DEF Shape, Current
<1>3. \A n \in 1 .. Current(r) : revisions[r][n] \in [amount : RequestAmounts, evaluation : Outcomes]
  BY <1>1, ElementOf DEF Current
<1>4. Current(r) \in 0 .. MaxAmendments + 1
  BY <1>2, AuthorityAssumption
<1>5. \A n \in 1 .. Current(r) : /\ revisions[r][n].amount \in RequestAmounts
                                 /\ revisions[r][n].evaluation \in Outcomes
  BY <1>3
<1>6. RequestAmounts \subseteq Nat \ {0}
  BY AuthorityAssumption
<1>7. Amount(r) \in Nat
  <2>1. CASE Current(r) = 0
    BY <2>1 DEF Amount
  <2>2. CASE Current(r) # 0
    <3>1. Current(r) \in 1 .. Current(r)
      BY <1>2, <2>2
    <3>2. revisions[r][Current(r)].amount \in RequestAmounts
      BY <1>5, <3>1
    <3> QED
      BY <1>6, <2>2, <3>2 DEF Amount
  <2> QED
    BY <2>1, <2>2
<1>8. \A n \in 1 .. Current(r) : revisions[r][n].amount \in Nat \ {0}
  BY <1>5, <1>6
<1> QED
  BY <1>4, <1>5, <1>7, <1>8

\* An amendable request has no intent that is under way or settled.
LEMMA SubmitStep ==
  ASSUME IInv, NEW r \in Requests, NEW amount \in RequestAmounts, NEW effect,
         Current(r) <= MaxAmendments, Amendable(r), Submit(r, amount, effect)
  PROVE  IInv'
<1> DEFINE k == Current(r) + 1
           delta == Delta(amount, Amount(r))
           outcome == Evaluate(r, delta, effect)
<1>1. Current(r) \in Nat /\ k \in 1 .. MaxAmendments + 1
  BY SubmitAppends DEF IInv
<1>2. /\ revisions' \in [Requests -> Seq([amount : RequestAmounts, evaluation : Outcomes])]
      /\ \A q \in Requests : Current(q)' = IF q = r THEN k ELSE Current(q)
      /\ revisions'[r][k].evaluation = outcome
      /\ \A q \in Requests : \A n \in 1 .. Current(q) : revisions'[q][n] = revisions[q][n]
      /\ IF outcome = "approved" THEN Reserve(r, k, amount, delta) /\ SyncIntent(r, k)
                                 ELSE UNCHANGED <<ledger, stage>>
  BY SubmitAppends DEF IInv
<1> HIDE DEF outcome, delta
<1>3. IF outcome = "approved" THEN SyncIntent(r, k) ELSE UNCHANGED stage
  BY <1>2
<1>6. /\ \A q \in Requests : Current(q)' = IF q = r THEN k ELSE Current(q)
      /\ revisions'[r][k].evaluation = outcome
      /\ \A i \in Intents : i[2] <= Current(i[1]) => revisions'[i[1]][i[2]] = revisions[i[1]][i[2]]
  <2>1. SUFFICES ASSUME NEW i \in Intents, i[2] <= Current(i[1])
                 PROVE  revisions'[i[1]][i[2]] = revisions[i[1]][i[2]]
    BY <1>2
  <2>2. i[1] \in Requests /\ i[2] \in Nat \ {0} /\ Current(i[1]) \in Nat
    BY AuthorityAssumption DEF Intents, IInv, Shape, Current
  <2>3. i[2] \in 1 .. Current(i[1])
    BY <2>1, <2>2
  <2> QED
    BY <1>2, <2>2, <2>3
<1>7. Shape'
  <2>1. stage' \in [Intents -> Delivery!IntentStates]
    BY <1>1, <1>3, Synced DEF IInv, Shape
  <2>2. revisions' \in [Requests -> Seq([amount : RequestAmounts, evaluation : Outcomes])]
    BY <1>2
  <2>3. \A q \in Requests : Len(revisions'[q]) <= MaxAmendments + 1
    <3>1. \A q \in Requests : Current(q) <= MaxAmendments + 1
      BY DEF IInv, Shape, Current
    <3>2. \A q \in Requests : Current(q)' <= MaxAmendments + 1
      BY <1>1, <1>6, <3>1, AuthorityAssumption
    <3> QED
      BY <3>2 DEF Current
  <2> QED
    BY <2>1, <2>2, <2>3 DEF Shape
<1>8. \A i \in Intents : stage'[i] # "absent" =>
        \/ stage[i] # "absent"
        \/ i = <<r, k>> /\ outcome = "approved"
  BY <1>1, <1>3, Synced DEF IInv
<1>9. OpenedFor'
  <2>1. SUFFICES ASSUME NEW i \in Intents, stage'[i] # "absent"
                 PROVE  /\ i[2] <= Current(i[1])'
                        /\ revisions'[i[1]][i[2]].evaluation # "denied"
    BY DEF OpenedFor
  <2>2. i[1] \in Requests /\ i[2] \in Int /\ Current(i[1]) \in Nat
    BY DEF Intents, IInv, Shape, Current
  <2>3. CASE stage[i] # "absent"
    <3>1. i[2] <= Current(i[1]) /\ revisions[i[1]][i[2]].evaluation # "denied"
      BY <2>3 DEF IInv, OpenedFor
    <3> QED
      BY <1>1, <1>6, <2>2, <3>1
  <2>4. CASE i = <<r, k>> /\ outcome = "approved"
    BY <1>1, <1>6, <2>4
  <2> QED
    BY <1>8, <2>1, <2>3, <2>4
<1>10. EarlierAreOver'
  <2>1. SUFFICES ASSUME NEW i \in Intents, NEW j \in Intents,
                        i[1] = j[1], i[2] < j[2], j[2] <= Current(j[1])',
                        revisions'[j[1]][j[2]].evaluation = "approved"
                 PROVE  stage'[i] \in {"absent", "canceled"}
    BY DEF EarlierAreOver
  <2>2. /\ i[1] \in Requests /\ i[2] \in Int /\ j[2] \in Int /\ Current(j[1]) \in Nat
        /\ i = <<i[1], i[2]>> /\ j = <<j[1], j[2]>>
    BY <2>1 DEF Intents, IInv, Shape, Current
  <2>3. CASE j[2] <= Current(j[1])
    <3>1. stage[i] \in {"absent", "canceled"}
      BY <1>6, <2>1, <2>3 DEF IInv, EarlierAreOver
    <3>2. i # <<r, k>>
      BY <1>1, <2>1, <2>2, <2>3
    <3> QED
      BY <1>1, <1>3, <3>1, <3>2, Synced DEF IInv
  <2>4. CASE ~(j[2] <= Current(j[1]))
    <3>1. j[1] = r /\ j[2] = k
      BY <1>1, <1>6, <2>1, <2>2, <2>4
    <3>2. outcome = "approved" /\ i[1] = r /\ i[2] # k
      BY <1>6, <2>1, <2>2, <3>1
    <3>3. stage[i] \in {"absent", "canceled", "pending"}
      BY <3>2 DEF Amendable, LockedStates, IntentsOf, IInv, Shape, Delivery!IntentStates,
                  Delivery!ActiveStates, Delivery!TerminalStates
    <3> QED
      BY <1>1, <1>3, <2>2, <3>2, <3>3, Synced DEF IInv
  <2> QED
    BY <2>3, <2>4
<1> QED
  BY <1>7, <1>9, <1>10 DEF IInv

LEMMA CreateStep == ASSUME IInv, NEW r \in Requests, CreateRequest(r) PROVE IInv'
<1>1. PICK amount \in RequestAmounts, effect \in Effects : Submit(r, amount, effect)
  BY AuthorityAssumption DEF CreateRequest
<1>2. Current(r) = 0
  BY DEF CreateRequest
<1>3. Amendable(r)
  <2>1. SUFFICES ASSUME NEW i \in Intents, i[1] = r PROVE stage[i] = "absent"
    BY DEF Amendable, IntentsOf, LockedStates
  <2>2. i[2] \in 1 .. MaxAmendments + 1
    BY DEF Intents
  <2> QED
    BY <1>2, <2>1, <2>2, AuthorityAssumption DEF IInv, OpenedFor
<1>4. Current(r) <= MaxAmendments
  BY <1>2, AuthorityAssumption
<1> QED
  BY <1>1, <1>3, <1>4, SubmitStep

LEMMA AmendStep == ASSUME IInv, NEW r \in Requests, AmendRequest(r) PROVE IInv'
<1>1. PICK amount \in RequestAmounts, effect \in Effects : Submit(r, amount, effect)
  BY AuthorityAssumption DEF AmendRequest
<1>2. Amendable(r) /\ Current(r) <= MaxAmendments
  BY AuthorityAssumption DEF AmendRequest
<1> QED
  BY <1>1, <1>2, SubmitStep

-----------------------------------------------------------------------------
LEMMA NextIInv == IInv /\ [Next]_vars => IInv'
<1> SUFFICES ASSUME IInv, [Next]_vars PROVE IInv'
  OBVIOUS
<1>1. CASE UNCHANGED <<revisions, stage>>
  BY <1>1, StageStep DEF IInv, Shape
<1>2. CASE \E r \in Requests : CreateRequest(r)
  BY <1>2, CreateStep
<1>3. CASE \E r \in Requests : AmendRequest(r)
  BY <1>3, AmendStep
<1>4. CASE \E r \in Requests : DenyReview(r)
  BY <1>1, <1>4 DEF DenyReview
<1>5. CASE \E r \in Requests : ApproveReview(r)
  BY <1>5, ApproveStep
<1>6. CASE Deliver
  BY <1>6, DeliverStep
<1>7. CASE Book /\ UNCHANGED <<requests, stage, operation>>
  BY <1>1, <1>7 DEF requests
<1>8. CASE UNCHANGED vars
  BY <1>1, <1>8 DEF vars, requests
<1> QED
  BY <1>2, <1>3, <1>4, <1>5, <1>6, <1>7, <1>8 DEF Next

THEOREM Invariant == Spec => []IInv
  BY InitIInv, NextIInv, PTL DEF Spec

(***************************************************************************)
(* Two intents of a request succeed only if a human approved the later     *)
(* revision: what policy approved by itself spends once.                   *)
(***************************************************************************)
THEOREM SpentOnce == Spec => []PolicySpendsOnce
<1>1. IInv => PolicySpendsOnce
  <2> SUFFICES ASSUME IInv, NEW i \in Intents, NEW j \in Intents, i[1] = j[1], i[2] < j[2],
                      stage[i] = "succeeded", stage[j] = "succeeded"
               PROVE  revisions[j[1]][j[2]].evaluation = "review_required"
    BY DEF PolicySpendsOnce
  <2>1. j[2] <= Current(j[1]) /\ revisions[j[1]][j[2]].evaluation # "denied"
    BY DEF IInv, OpenedFor
  <2>2. revisions[j[1]][j[2]].evaluation # "approved"
    BY <2>1 DEF IInv, EarlierAreOver
  <2>3. revisions[j[1]][j[2]].evaluation \in Outcomes
    <3>1. j[1] \in Requests /\ j[2] \in 1 .. Len(revisions[j[1]])
      BY <2>1, AuthorityAssumption DEF Intents, Current, IInv, Shape
    <3>2. revisions[j[1]] \in Seq([amount : RequestAmounts, evaluation : Outcomes])
      BY <3>1 DEF IInv, Shape
    <3>3. revisions[j[1]][j[2]] \in [amount : RequestAmounts, evaluation : Outcomes]
      BY <3>1, <3>2, ElementOf
    <3> QED
      BY <3>3
  <2> QED
    BY <2>1, <2>2, <2>3 DEF Outcomes
<1> QED
  BY <1>1, Invariant, PTL

-----------------------------------------------------------------------------
(* Commands and deliveries move an intent as ActionSettlement allows.      *)

\* What a step does to one intent.
Moves(i) ==
  \/ stage'[i] = stage[i] /\ operation'[i] = operation[i]
  \/ stage[i] = "absent" /\ stage'[i] = "pending" /\ operation'[i] = operation[i]
  \/ stage[i] = "pending" /\ stage'[i] = "canceled" /\ operation'[i] = operation[i]
  \/ /\ stage'[i] \in Delivery!ActiveStates /\ operation'[i] = operation[i]
     /\ <<stage[i], stage'[i]>> \in {<<"pending", "dispatching">>, <<"dispatching", "outcome_unknown">>,
                                     <<"dispatching", "pending">>, <<"outcome_unknown", "pending">>}
  \/ /\ stage[i] # "absent" /\ operation[i] = "none" /\ stage'[i] = stage[i]
     /\ operation'[i] \in Delivery!Verdicts
  \/ /\ stage[i] \in {"dispatching", "outcome_unknown"} /\ operation[i] # "none"
     /\ stage'[i] = Delivery!StateOf(operation[i]) /\ operation'[i] = operation[i]

\* The provider's ledger has a line for each intent.
Lines == operation = [i \in Intents |-> operation[i]]

LEMMA NextMoves ==
  ASSUME IInv, Lines, [Next]_vars
  PROVE  Lines' /\ \A i \in Intents : Moves(i)
<1>1. stage \in [Intents -> Delivery!IntentStates] /\ Shape
  BY DEF IInv, Shape
<1>2. CASE UNCHANGED operation /\ UNCHANGED stage
  BY <1>2 DEF Lines, Moves
<1>3. ASSUME NEW r \in Requests, NEW k \in 1 .. MaxAmendments + 1, SyncIntent(r, k), UNCHANGED operation
      PROVE  Lines' /\ \A i \in Intents : Moves(i)
  BY <1>1, <1>3, Synced DEF Lines, Moves
<1>4. ASSUME NEW r \in Requests, NEW amount \in RequestAmounts, NEW effect,
             Current(r) <= MaxAmendments, Submit(r, amount, effect)
      PROVE  Lines' /\ \A i \in Intents : Moves(i)
  <2>1. UNCHANGED operation
    BY <1>4 DEF Submit
  <2>2. \/ UNCHANGED stage
        \/ \E k \in 1 .. MaxAmendments + 1 : SyncIntent(r, k)
    BY <1>1, <1>4, SubmitAppends
  <2> QED
    BY <1>2, <1>3, <2>1, <2>2
<1>5. ASSUME NEW r \in Requests, CreateRequest(r) \/ AmendRequest(r)
      PROVE  \E amount \in RequestAmounts, effect \in Effects : Current(r) <= MaxAmendments /\ Submit(r, amount, effect)
  BY <1>5, AuthorityAssumption DEF CreateRequest, AmendRequest
<1>6. ASSUME NEW r \in Requests, ApproveReview(r)
      PROVE  Lines' /\ \A i \in Intents : Moves(i)
  <2>1. Current(r) \in 1 .. MaxAmendments + 1
    BY <1>1, <1>6, AuthorityAssumption DEF ApproveReview, AwaitingReview, Shape, Current
  <2>2. SyncIntent(r, Current(r)) /\ UNCHANGED operation
    BY <1>6 DEF ApproveReview, Approval, Approve
  <2> QED
    BY <1>3, <2>1, <2>2
<1>7. ASSUME NEW j \in Intents, Delivery!Progress(j) \/ Delivery!Effect(j) \/ Delivery!Settle(j)
      PROVE  Lines' /\ \A i \in Intents : Moves(i)
  <2>1. CASE Delivery!Progress(j)
    BY <1>1, <2>1 DEF Delivery!Progress, Lines, Moves
  <2>2. CASE Delivery!Effect(j)
    BY <1>1, <2>2 DEF Delivery!Effect, Lines, Moves
  <2>3. CASE Delivery!Settle(j)
    BY <1>1, <2>3 DEF Delivery!Settle, Lines, Moves
  <2> QED
    BY <1>7, <2>1, <2>2, <2>3
<1>8. ASSUME NEW r \in Requests, DenyReview(r)
      PROVE  UNCHANGED operation /\ UNCHANGED stage
  BY <1>8 DEF DenyReview
<1> HIDE DEF Moves, Lines, IInv, Shape
<1> QED
  BY <1>2, <1>4, <1>5, <1>6, <1>7, <1>8 DEF Next, Deliver, vars

LEMMA MovesAreSettlement ==
  ASSUME NEW i \in Intents, Moves(i)
  PROVE  [Single(i)!Next]_(Single(i)!vars)
<1> DEFINE s == [j \in {i} |-> stage[j]]
           o == [j \in {i} |-> operation[j]]
<1>1. s[i] = stage[i] /\ s'[i] = stage'[i] /\ o[i] = operation[i] /\ o'[i] = operation'[i]
  OBVIOUS
<1>2. \A e : stage'[i] = e => s' = [s EXCEPT ![i] = e]
  OBVIOUS
<1>3. \A e : operation'[i] = e => o' = [o EXCEPT ![i] = e]
  OBVIOUS
<1>4. stage'[i] = stage[i] => s' = s
  OBVIOUS
<1>5. operation'[i] = operation[i] => o' = o
  OBVIOUS
<1>6. CASE stage'[i] = stage[i] /\ operation'[i] = operation[i]
  BY <1>4, <1>5, <1>6 DEF Single!vars
<1>7. CASE stage[i] = "absent" /\ stage'[i] = "pending" /\ operation'[i] = operation[i]
  <2>1. Single(i)!Open(i)
    BY <1>1, <1>2, <1>5, <1>7 DEF Single!Open
  <2> QED
    BY <2>1 DEF Single!Next
<1>8. CASE stage[i] = "pending" /\ stage'[i] = "canceled" /\ operation'[i] = operation[i]
  <2>1. Single(i)!Cancel(i)
    BY <1>1, <1>2, <1>5, <1>8 DEF Single!Cancel
  <2> QED
    BY <2>1 DEF Single!Next
<1>9. CASE /\ stage'[i] \in Delivery!ActiveStates /\ operation'[i] = operation[i]
           /\ <<stage[i], stage'[i]>> \in {<<"pending", "dispatching">>, <<"dispatching", "outcome_unknown">>,
                                           <<"dispatching", "pending">>, <<"outcome_unknown", "pending">>}
  <2> DEFINE next == stage'[i]
  <2>1. s' = [s EXCEPT ![i] = next] /\ o' = o /\ next \in Single(i)!ActiveStates
    BY <1>2, <1>5, <1>9 DEF Delivery!ActiveStates, Single!ActiveStates
  <2>2. <<s[i], next>> \in {<<"pending", "dispatching">>, <<"dispatching", "outcome_unknown">>,
                            <<"dispatching", "pending">>, <<"outcome_unknown", "pending">>}
    BY <1>1, <1>9
  <2> HIDE DEF next
  <2>3. Single(i)!Progress(i)
    BY <2>1, <2>2 DEF Single!Progress
  <2> QED
    BY <2>3 DEF Single!Next
<1>10. CASE /\ stage[i] # "absent" /\ operation[i] = "none" /\ stage'[i] = stage[i]
            /\ operation'[i] \in Delivery!Verdicts
  <2> DEFINE verdict == operation'[i]
  <2>1. o' = [o EXCEPT ![i] = verdict] /\ s' = s /\ verdict \in Single(i)!Verdicts
    BY <1>3, <1>4, <1>10 DEF Delivery!Verdicts, Single!Verdicts
  <2>2. s[i] # "absent" /\ o[i] = "none"
    BY <1>1, <1>10
  <2> HIDE DEF verdict
  <2>3. Single(i)!Effect(i)
    BY <2>1, <2>2 DEF Single!Effect
  <2> QED
    BY <2>3 DEF Single!Next
<1>11. CASE /\ stage[i] \in {"dispatching", "outcome_unknown"} /\ operation[i] # "none"
            /\ stage'[i] = Delivery!StateOf(operation[i]) /\ operation'[i] = operation[i]
  <2>1. Single(i)!StateOf(o[i]) = Delivery!StateOf(operation[i])
    BY <1>1 DEF Delivery!StateOf, Single!StateOf
  <2>2. Single(i)!Settle(i)
    BY <1>1, <1>2, <1>5, <1>11, <2>1 DEF Single!Settle
  <2> QED
    BY <2>2 DEF Single!Next
<1> QED
  BY <1>6, <1>7, <1>8, <1>9, <1>10, <1>11 DEF Moves

(***************************************************************************)
(* What becomes of an intent, whatever commands are given, decided and     *)
(* amended beside it, is what ActionSettlement promises: it is opened      *)
(* once, cancelled only while it is pending, and settles to what the       *)
(* provider recorded.  A command moves several intents at once, so the     *)
(* abstract specification is implemented by each intent by itself.         *)
(***************************************************************************)
THEOREM CommandsRespectSettlement == ASSUME NEW i \in Intents PROVE Spec => Single(i)!Spec
<1>1. Init => IInv /\ Lines /\ Single(i)!Init
  BY InitIInv DEF Init, Lines, Delivery!Init, Single!Init
<1>2. IInv /\ Lines /\ [Next]_vars => IInv' /\ Lines' /\ [Single(i)!Next]_(Single(i)!vars)
  BY NextIInv, NextMoves, MovesAreSettlement
<1> QED
  BY <1>1, <1>2, PTL DEF Spec, Single!Spec

-----------------------------------------------------------------------------
(* The books: the ledger behind the commands.                              *)

Decided == {"exception", "allowance", "refusal"}

\* A commitment is that of a revision, every amendment asked for more than the revision
\* before it, and no revision was decided before it was made.
CommitmentsAreOfRevisions ==
  /\ decisions \in [Intents -> SUBSET Decided]
  /\ \A i \in Intents : i[2] > Current(i[1]) => decisions[i] = {}
  /\ \A r \in Requests :
       /\ \A m, n \in 1 .. Current(r) : m < n => revisions[r][m].amount < revisions[r][n].amount
       /\ commitment[r].revision <= Current(r)
       /\ commitment[r].revision > 0 => commitment[r].amount = revisions[r][commitment[r].revision].amount

BooksInv == LedgerInv /\ NonNegative(account) /\ CommitmentsAreOfRevisions

LEMMA InitBooks == Init => BooksInv
<1> SUFFICES ASSUME Init PROVE BooksInv
  OBVIOUS
<1>1. LedgerInv /\ NonNegative(account)
  BY InitLedger DEF Init
<1>2. /\ \A r \in Requests : Current(r) = 0 /\ commitment[r].revision = 0
      /\ decisions = [i \in Intents |-> {}]
  BY DEF Init, LedgerInit, NoCommitment, Current
<1>3. CommitmentsAreOfRevisions
  BY <1>2 DEF CommitmentsAreOfRevisions
<1> QED
  BY <1>1, <1>3 DEF BooksInv

\* A new revision, and the reservation it may make.
LEMMA SubmitBooks ==
  ASSUME Shape, BooksInv, NEW r \in Requests, NEW amount \in RequestAmounts, NEW effect,
         amount > Amount(r), Current(r) <= MaxAmendments, Submit(r, amount, effect)
  PROVE  BooksInv'
<1> DEFINE k == Current(r) + 1
           delta == Delta(amount, Amount(r))
           outcome == Evaluate(r, delta, effect)
<1>1. Shape /\ LedgerInv /\ NonNegative(account) /\ CommitmentsAreOfRevisions
  BY DEF BooksInv
<1>2. /\ Current(r) \in Nat /\ k \in 1 .. MaxAmendments + 1 /\ outcome \in Outcomes
      /\ revisions' \in [Requests -> Seq([amount : RequestAmounts, evaluation : Outcomes])]
      /\ \A q \in Requests : Current(q)' = IF q = r THEN k ELSE Current(q)
      /\ revisions'[r][k].amount = amount /\ revisions'[r][k].evaluation = outcome
      /\ \A q \in Requests : \A n \in 1 .. Current(q) : revisions'[q][n] = revisions[q][n]
      /\ IF outcome = "approved" THEN Reserve(r, k, amount, delta) /\ SyncIntent(r, k)
                                 ELSE UNCHANGED <<ledger, stage>>
  BY <1>1, SubmitAppends
<1>3. amount \in Nat \ {0} /\ delta \in Nat /\ delta >= 0 /\ k \in Nat \ {0}
  BY <1>1, <1>2, AmountTypes, AuthorityAssumption DEF Delta
<1> HIDE DEF outcome, delta
<1>4. /\ LedgerInv' /\ NonNegative(account)'
      /\ \A q \in Requests \ {r} : commitment'[q] = commitment[q]
      /\ \/ commitment'[r] = commitment[r]
         \/ commitment'[r].revision = k /\ commitment'[r].amount = amount
  <2>1. CASE outcome = "approved"
    <3>1. Reserve(r, k, amount, delta) /\ amount \in Nat /\ delta \in Int
      BY <1>2, <1>3, <2>1
    <3> HIDE DEF k
    <3> QED
      BY <1>1, <1>3, <3>1, ReserveStep
  <2>2. CASE outcome # "approved"
    <3>1. UNCHANGED <<account, commitment, posting, correction>>
      BY <1>2, <2>2 DEF ledger
    <3> QED
      BY <1>1, <3>1 DEF LedgerInv, LedgerTypes, MatchesAreReserved, OutstandingIsCommitted, RecognizedIsPosted,
           CommonAccounts, Posted, Corrected, NonNegative
  <2> QED
    BY <2>1, <2>2
<1>6. decisions' = decisions
  BY DEF Submit
<1>7. \A i \in Intents : i[2] > Current(i[1])' => decisions'[i] = {}
  <2>1. \A i \in Intents : i[1] \in Requests /\ i[2] \in Int
    BY DEF Intents
  <2> QED
    BY <1>1, <1>2, <1>6, <2>1 DEF CommitmentsAreOfRevisions
<1>8. ASSUME NEW q \in Requests
      PROVE  /\ \A m, n \in 1 .. Current(q)' : m < n => revisions'[q][m].amount < revisions'[q][n].amount
             /\ commitment'[q].revision <= Current(q)'
             /\ commitment'[q].revision > 0
                  => commitment'[q].amount = revisions'[q][commitment'[q].revision].amount
  <2>1. /\ \A m, n \in 1 .. Current(q) : m < n => revisions[q][m].amount < revisions[q][n].amount
        /\ commitment[q].revision <= Current(q) /\ commitment[q].revision \in Nat
        /\ commitment[q].revision > 0 => commitment[q].amount = revisions[q][commitment[q].revision].amount
    BY <1>1 DEF CommitmentsAreOfRevisions, LedgerInv, LedgerTypes
  <2>2. CASE q # r
    <3>1. Current(q)' = Current(q) /\ commitment'[q] = commitment[q]
      BY <1>2, <1>4, <2>2
    <3>2. \A n \in 1 .. Current(q) : revisions'[q][n] = revisions[q][n]
      BY <1>2
    <3>3. commitment[q].revision > 0 => commitment[q].revision \in 1 .. Current(q)
      <4>1. Current(q) \in Int
        BY <1>1, AmountTypes
      <4> QED
        BY <2>1, <4>1
    <3>4. \A m, n \in 1 .. Current(q)' : m < n => revisions'[q][m].amount < revisions'[q][n].amount
      BY <2>1, <3>1, <3>2
    <3>5. commitment'[q].revision > 0
            => commitment'[q].amount = revisions'[q][commitment'[q].revision].amount
      BY <2>1, <3>1, <3>2, <3>3
    <3> QED
      BY <2>1, <3>1, <3>4, <3>5
  <2>3. CASE q = r
    <3>1. \A m \in 1 .. Current(r) : revisions[r][m].amount \in Nat /\ revisions[r][m].amount < amount
      <4> SUFFICES ASSUME NEW m \in 1 .. Current(r) PROVE revisions[r][m].amount \in Nat /\ revisions[r][m].amount < amount
        OBVIOUS
      <4>1. Amount(r) = revisions[r][Current(r)].amount /\ Current(r) \in 1 .. Current(r)
        BY <1>2 DEF Amount
      <4>2. revisions[r][m].amount \in Nat /\ Amount(r) \in Nat
        BY <1>1, AmountTypes
      <4>3. m = Current(r) \/ revisions[r][m].amount < Amount(r)
        BY <2>1, <2>3, <4>1
      <4> QED
        BY <1>3, <4>1, <4>2, <4>3
    <3>2. \A m \in 1 .. k : m = k \/ m \in 1 .. Current(r)
      BY <1>2
    <3>3. ASSUME NEW m \in 1 .. k, NEW n \in 1 .. k, m < n
          PROVE  revisions'[r][m].amount < revisions'[r][n].amount
      <4>1. m \in 1 .. Current(r)
        BY <1>2, <3>3
      <4>2. CASE n = k
        BY <1>2, <3>1, <4>1, <4>2
      <4>3. CASE n # k
        <5>1. n \in 1 .. Current(r)
          BY <3>2, <4>3
        <5> QED
          BY <1>2, <2>1, <2>3, <3>3, <4>1, <5>1
      <4> QED
        BY <4>2, <4>3
    <3>4. /\ commitment'[r].revision <= k
          /\ commitment'[r].revision > 0
                  => commitment'[r].amount = revisions'[r][commitment'[r].revision].amount
      BY <1>2, <1>4, <2>1, <2>3
    <3> QED
      BY <1>2, <2>3, <3>3, <3>4
  <2> QED
    BY <2>2, <2>3
<1>9. CommitmentsAreOfRevisions'
  BY <1>1, <1>6, <1>7, <1>8 DEF CommitmentsAreOfRevisions
<1> QED
  BY <1>4, <1>9 DEF BooksInv

LEMMA CreateBooks == ASSUME Shape, BooksInv, NEW r \in Requests, CreateRequest(r) PROVE BooksInv'
<1>1. PICK amount \in RequestAmounts, effect \in Effects : Submit(r, amount, effect)
  BY AuthorityAssumption DEF CreateRequest
<1>2. amount > Amount(r) /\ Current(r) <= MaxAmendments
  BY AuthorityAssumption DEF CreateRequest, Amount
<1> QED
  BY <1>1, <1>2, SubmitBooks

LEMMA AmendBooks == ASSUME Shape, BooksInv, NEW r \in Requests, AmendRequest(r) PROVE BooksInv'
<1>1. PICK amount \in RequestAmounts, effect \in Effects :
             amount > Amount(r) /\ Submit(r, amount, effect)
  BY AuthorityAssumption DEF AmendRequest
<1>2. Current(r) <= MaxAmendments
  BY AuthorityAssumption DEF AmendRequest
<1> QED
  BY <1>1, <1>2, SubmitBooks

\* Steps that leave the revisions and the decisions alone.
LEMMA SameRequests ==
  ASSUME CommitmentsAreOfRevisions, UNCHANGED requests,
         \A r \in Requests : /\ commitment'[r].revision = commitment[r].revision
                             /\ commitment'[r].amount = commitment[r].amount
  PROVE  CommitmentsAreOfRevisions'
BY DEF CommitmentsAreOfRevisions, requests, Current

\* A decision is about the current revision.
LEMMA Deciding ==
  ASSUME Shape, CommitmentsAreOfRevisions, NEW r \in Requests, NEW reason \in Decided,
         AwaitingReview(r), Decide(r, reason), UNCHANGED revisions
  PROVE  /\ <<r, Current(r)>> \in Intents
         /\ decisions'[<<r, Current(r)>>] = decisions[<<r, Current(r)>>] \cup {reason}
         /\ \A i \in Intents : i # <<r, Current(r)>> => decisions'[i] = decisions[i]
         /\ decisions' \in [Intents -> SUBSET Decided]
         /\ \A i \in Intents : i[2] > Current(i[1])' => decisions'[i] = {}
<1>1. Current(r) \in 1 .. MaxAmendments + 1
  BY AmountTypes DEF AwaitingReview
<1>2. <<r, Current(r)>> \in Intents
  BY <1>1 DEF Intents
<1>3. decisions \in [Intents -> SUBSET Decided]
  BY DEF CommitmentsAreOfRevisions
<1>4. decisions' = [decisions EXCEPT ![<<r, Current(r)>>] = decisions[<<r, Current(r)>>] \cup {reason}]
  BY DEF Decide
<1> DEFINE i0 == <<r, Current(r)>>
<1>5. i0[1] = r /\ i0[2] = Current(r) /\ ~(i0[2] > Current(i0[1]))
  BY <1>1
<1>6. \A i \in Intents : Current(i[1])' = Current(i[1])
  BY DEF Current
<1> HIDE DEF i0
<1>7. \A i \in Intents : i # i0 => decisions'[i] = decisions[i]
  BY <1>3, <1>4 DEF i0
<1>8. \A i \in Intents : i[2] > Current(i[1])' => decisions'[i] = {}
  BY <1>5, <1>6, <1>7 DEF CommitmentsAreOfRevisions
<1> QED
  BY <1>2, <1>3, <1>4, <1>7, <1>8 DEF i0

LEMMA DenyBooks == ASSUME Shape, BooksInv, NEW r \in Requests, DenyReview(r) PROVE BooksInv'
<1>1. /\ UNCHANGED <<account, commitment, posting, correction, revisions>>
      /\ AwaitingReview(r) /\ Decide(r, "refusal")
  BY DEF DenyReview, ledger
<1>2. LedgerInv' /\ NonNegative(account)'
  BY <1>1 DEF BooksInv, LedgerInv, LedgerTypes, MatchesAreReserved, OutstandingIsCommitted,
              RecognizedIsPosted, CommonAccounts, Posted, Corrected, NonNegative
<1>3. /\ decisions' \in [Intents -> SUBSET Decided]
      /\ \A i \in Intents : i[2] > Current(i[1])' => decisions'[i] = {}
  BY <1>1, Deciding DEF BooksInv, Decided
<1>4. CommitmentsAreOfRevisions'
  BY <1>1, <1>3 DEF BooksInv, CommitmentsAreOfRevisions, Current
<1> QED
  BY <1>2, <1>4 DEF BooksInv

\* An approval reserves for the current revision, the increase over the one before.
LEMMA Approving ==
  ASSUME Shape, BooksInv, NEW r \in Requests, ApproveReview(r)
  PROVE  \E delta \in Nat :
           /\ Reserve(r, Current(r), Amount(r), delta)
           /\ delta = Amount(r) - (IF Current(r) > 1 THEN revisions[r][Current(r) - 1].amount ELSE 0)
<1> DEFINE k == Current(r)
           previous == IF k > 1 THEN revisions[r][k - 1].amount ELSE 0
<1>1. k \in 1 .. MaxAmendments + 1 /\ Reserve(r, k, Amount(r), Delta(Amount(r), previous))
  BY AmountTypes DEF ApproveReview, Approval, AwaitingReview, Approve
<1>2. Amount(r) \in Nat /\ Amount(r) = revisions[r][k].amount
  BY <1>1, AmountTypes DEF Amount
<1>3. previous \in Nat /\ previous <= Amount(r)
  <2>1. CASE k > 1
    <3>1. k - 1 \in 1 .. k /\ k \in 1 .. k /\ k - 1 < k
      BY <1>1, <2>1
    <3>2. revisions[r][k - 1].amount < revisions[r][k].amount
      BY <3>1 DEF BooksInv, CommitmentsAreOfRevisions
    <3>3. revisions[r][k - 1].amount \in Nat
      BY <3>1, AmountTypes
    <3> QED
      BY <1>2, <2>1, <3>2, <3>3
  <2>2. CASE ~(k > 1)
    BY <1>2, <2>2
  <2> QED
    BY <2>1, <2>2
<1>4. Amount(r) - previous \in Nat
  <2> HIDE DEF previous
  <2> QED
    BY <1>2, <1>3
<1>5. Delta(Amount(r), previous) = Amount(r) - previous
  BY DEF Delta
<1> QED
  BY <1>1, <1>4, <1>5

LEMMA ApproveBooks == ASSUME Shape, BooksInv, NEW r \in Requests, ApproveReview(r) PROVE BooksInv'
<1>1. PICK delta \in Nat : Reserve(r, Current(r), Amount(r), delta)
  BY Approving
<1>2. /\ UNCHANGED revisions /\ AwaitingReview(r)
      /\ \E reason \in Decided : Decide(r, reason)
  BY DEF ApproveReview, Approval, Decided
<1>3. Current(r) \in Nat \ {0} /\ Amount(r) \in Nat /\ Amount(r) = revisions[r][Current(r)].amount
  BY <1>2, AmountTypes DEF AwaitingReview, Amount
<1> DEFINE k == Current(r)
           amount == Amount(r)
<1>4. Reserve(r, k, amount, delta) /\ k \in Nat \ {0} /\ amount \in Nat /\ delta \in Int /\ delta >= 0
  BY <1>1, <1>3
<1> HIDE DEF k, amount
<1>5. /\ LedgerInv' /\ NonNegative(account)'
      /\ \A q \in Requests \ {r} : commitment'[q] = commitment[q]
      /\ commitment'[r].revision = k /\ commitment'[r].amount = amount
  BY <1>4, ReserveStep DEF BooksInv
<1>6. /\ decisions' \in [Intents -> SUBSET Decided]
      /\ \A i \in Intents : i[2] > Current(i[1])' => decisions'[i] = {}
  BY <1>2, Deciding DEF BooksInv
<1>7. ASSUME NEW q \in Requests
      PROVE  /\ \A m, n \in 1 .. Current(q)' : m < n => revisions'[q][m].amount < revisions'[q][n].amount
             /\ commitment'[q].revision <= Current(q)'
             /\ commitment'[q].revision > 0
                  => commitment'[q].amount = revisions'[q][commitment'[q].revision].amount
  <2>1. Current(q)' = Current(q) /\ revisions' = revisions
    BY <1>2 DEF Current
  <2>2. /\ \A m, n \in 1 .. Current(q) : m < n => revisions[q][m].amount < revisions[q][n].amount
        /\ commitment[q].revision <= Current(q)
        /\ commitment[q].revision > 0 => commitment[q].amount = revisions[q][commitment[q].revision].amount
    BY DEF BooksInv, CommitmentsAreOfRevisions
  <2>3. CASE q = r
    BY <1>3, <1>5, <2>1, <2>2, <2>3 DEF k, amount
  <2>4. CASE q # r
    BY <1>5, <2>1, <2>2, <2>4
  <2> QED
    BY <2>3, <2>4
<1>8. CommitmentsAreOfRevisions'
  BY <1>6, <1>7 DEF CommitmentsAreOfRevisions
<1> QED
  BY <1>5, <1>8 DEF BooksInv

\* Delivery has no part in the books.
LEMMA SameBooks == ASSUME BooksInv, UNCHANGED <<ledger, requests>> PROVE BooksInv'
BY SameRequests
   DEF BooksInv, LedgerInv, LedgerTypes, MatchesAreReserved, OutstandingIsCommitted, ledger,
       RecognizedIsPosted, CommonAccounts, Posted, Corrected, NonNegative

LEMMA NextBooks == Shape /\ BooksInv /\ [Next]_vars => BooksInv'
<1> SUFFICES ASSUME Shape, BooksInv, [Next]_vars PROVE BooksInv'
  OBVIOUS
<1>1. CASE \E r \in Requests : CreateRequest(r)
  BY <1>1, CreateBooks
<1>2. CASE \E r \in Requests : AmendRequest(r)
  BY <1>2, AmendBooks
<1>3. CASE \E r \in Requests : DenyReview(r)
  BY <1>3, DenyBooks
<1>4. CASE \E r \in Requests : ApproveReview(r)
  BY <1>4, ApproveBooks
<1>5. CASE Book /\ UNCHANGED <<requests, stage, operation>>
  BY <1>5, BookStep, SameRequests DEF BooksInv
<1>6. CASE Deliver
  BY <1>6, SameBooks DEF Deliver
<1>7. CASE UNCHANGED vars
  BY <1>7, SameBooks DEF vars
<1> QED
  BY <1>1, <1>2, <1>3, <1>4, <1>5, <1>6, <1>7 DEF Next

THEOREM Books == Spec => [](Shape /\ BooksInv)
<1>1. IInv => Shape
  BY DEF IInv
<1> QED
  BY <1>1, Invariant, InitBooks, NextBooks, PTL DEF Spec

(***************************************************************************)
(* The balances of the accounts follow the records: what is outstanding is *)
(* what commitments still reserve, what is recognized is the latest        *)
(* revision of every posting and the corrections, and nothing is overdrawn.*)
(***************************************************************************)
THEOREM BalancesFollowRecords == Spec => []ExposureFollowsRecords
<1>1. BooksInv => ExposureFollowsRecords
  BY DEF BooksInv, LedgerInv, ExposureFollowsRecords
<1> QED
  BY <1>1, Books, PTL

-----------------------------------------------------------------------------
(* Reservations.  Only a submission and an approval reserve, each for one  *)
(* revision of one request.                                                *)

\* A reservation of one request, within the hard caps.
Reserves(r) ==
  \E k \in Nat \ {0}, amount \in Nat, delta \in Nat : Reserve(r, k, amount, delta)

LEMMA SameReserved ==
  ASSUME UNCHANGED ledger
  PROVE  \A r \in Requests : Reserved(r)' = Reserved(r) /\ commitment'[r] = commitment[r]
BY DEF ledger, Reserved, MatchedBy

LEMMA SubmitReserves ==
  ASSUME Shape, NEW r \in Requests, NEW amount \in RequestAmounts, NEW effect,
         amount > Amount(r), Current(r) <= MaxAmendments, Submit(r, amount, effect)
  PROVE  Reserves(r) \/ UNCHANGED ledger
<1>1. /\ amount \in Nat /\ Amount(r) \in Nat /\ Current(r) + 1 \in Nat \ {0}
      /\ amount - Amount(r) \in Nat
  BY AmountTypes, AuthorityAssumption
<1>2. Reserve(r, Current(r) + 1, amount, amount - Amount(r)) \/ UNCHANGED ledger
  BY SubmitAppends DEF Delta
<1> QED
  BY <1>1, <1>2 DEF Reserves

LEMMA NextReserves ==
  ASSUME Shape, BooksInv, [Next]_vars
  PROVE  Book \/ UNCHANGED ledger \/ \E r \in Requests : Reserves(r)
<1>1. CASE \E r \in Requests : CreateRequest(r)
  <2>1. PICK r \in Requests : CreateRequest(r)
    BY <1>1
  <2>2. PICK amount \in RequestAmounts, effect \in Effects : Submit(r, amount, effect)
    BY <2>1, AuthorityAssumption DEF CreateRequest
  <2>3. amount > Amount(r) /\ Current(r) <= MaxAmendments
    BY <2>1, AuthorityAssumption DEF CreateRequest, Amount
  <2> QED
    BY <2>2, <2>3, SubmitReserves
<1>2. CASE \E r \in Requests : AmendRequest(r)
  <2>1. PICK r \in Requests : AmendRequest(r)
    BY <1>2
  <2>2. PICK amount \in RequestAmounts, effect \in Effects :
             amount > Amount(r) /\ Submit(r, amount, effect)
    BY <2>1, AuthorityAssumption DEF AmendRequest
  <2>3. Current(r) <= MaxAmendments
    BY <2>1, AuthorityAssumption DEF AmendRequest
  <2> QED
    BY <2>2, <2>3, SubmitReserves
<1>3. CASE \E r \in Requests : DenyReview(r)
  BY <1>3 DEF DenyReview
<1>4. CASE \E r \in Requests : ApproveReview(r)
  <2>1. PICK r \in Requests : ApproveReview(r)
    BY <1>4
  <2>2. PICK delta \in Nat : Reserve(r, Current(r), Amount(r), delta)
    BY <2>1, Approving
  <2>3. Current(r) \in Nat \ {0} /\ Amount(r) \in Nat
    BY <2>1, AmountTypes DEF ApproveReview, AwaitingReview
  <2> QED
    BY <2>2, <2>3 DEF Reserves
<1>5. CASE Deliver \/ UNCHANGED vars
  BY <1>5 DEF Deliver, vars
<1> QED
  BY <1>1, <1>2, <1>3, <1>4, <1>5 DEF Next

(***************************************************************************)
(* Whatever comes to be reserved fits every hard cap of the request, at    *)
(* the moment it is reserved: by a permitted submission or amendment, or   *)
(* by the approval of a review that evaluated the ledger again.            *)
(***************************************************************************)
THEOREM ReservationsFitHardCaps == Spec => HardCapsBound
<1> DEFINE Fits(r) == Reserved(r)' > Reserved(r) =>
                        \A a \in RequestAccounts[r] \cap HardCaps :
                          account'[a].recognized + account'[a].outstanding <= Authorized[a]
<1>1. Shape /\ BooksInv /\ [Next]_vars => \A r \in Requests : Fits(r)
  <2> SUFFICES ASSUME Shape, BooksInv, [Next]_vars, NEW r \in Requests, Reserved(r)' > Reserved(r)
               PROVE  \A a \in RequestAccounts[r] \cap HardCaps :
                        account'[a].recognized + account'[a].outstanding <= Authorized[a]
    OBVIOUS
  <2>1. LedgerInv /\ Reserved(r) \in Int
    BY ReservedType DEF BooksInv
  <2>2. Reserved(r)' # Reserved(r)
    BY <2>1
  <2>3. PICK q \in Requests : Reserves(q)
    BY <2>1, <2>2, NextReserves, BookStep, SameReserved
  <2>4. PICK k \in Nat \ {0}, amount \in Nat, delta \in Nat : Reserve(q, k, amount, delta)
    BY <2>3 DEF Reserves
  <2>5. delta \in Int
    OBVIOUS
  <2>6. /\ Reserved(r)' = IF r = q THEN Reserved(r) + delta ELSE Reserved(r)
        /\ \A a \in RequestAccounts[q] \cap HardCaps :
             account'[a].recognized + account'[a].outstanding <= Authorized[a]
    BY <2>1, <2>4, <2>5, ReserveStep
  <2>7. r = q
    BY <2>2, <2>6
  <2> QED
    BY <2>6, <2>7
<1>2. [][\A r \in Requests : Fits(r)]_vars => HardCapsBound
  BY PTL DEF HardCapsBound, Fits
<1> HIDE DEF Fits
<1> QED
  BY <1>1, <1>2, Books, PTL DEF Spec

-----------------------------------------------------------------------------
(* Approvals.  A human decision that decideReview finds again ends the     *)
(* review, so a revision is approved at most once, unless it was approved  *)
(* as within the allowance.  Whether it was never ceases to be known:      *)
(* decisions are only added.                                               *)

StandingInv == ReservedUnderApproval /\ ReservedWithinApproval

LEMMA OverlookedStays ==
  ASSUME NEW r \in Requests, Overlooked(r), \A i \in Intents : decisions[i] \subseteq decisions'[i]
  PROVE  Overlooked(r)'
BY DEF Overlooked, IntentsOf

\* A revision that is decided, or was just made, has an intent.
LEMMA AwaitedIntent ==
  ASSUME Shape, NEW r \in Requests, AwaitingReview(r)
  PROVE  /\ Current(r) \in Nat \ {0} /\ Current(r) \in 1 .. MaxAmendments + 1
         /\ <<r, Current(r)>> \in Intents /\ <<r, Current(r)>> \in IntentsOf(r)
<1>1. Current(r) \in Nat \ {0} /\ Current(r) \in 1 .. MaxAmendments + 1
  BY AmountTypes DEF AwaitingReview
<1> QED
  BY <1>1 DEF Intents, IntentsOf

\* The commitment of a request awaiting review is of an earlier revision, unless this one
\* was approved as within the allowance.
LEMMA AwaitedIsUncommitted ==
  ASSUME Shape, BooksInv, StandingInv, NEW r \in Requests, AwaitingReview(r),
         commitment[r].revision = Current(r)
  PROVE  "allowance" \in decisions[<<r, Current(r)>>] /\ Overlooked(r)
<1>1. /\ Current(r) \in Nat \ {0} /\ <<r, Current(r)>> \in IntentsOf(r)
      /\ revisions[r][Current(r)].evaluation # "approved"
  BY AwaitedIntent DEF AwaitingReview
<1>2. commitment[r] # NoCommitment
  BY <1>1 DEF NoCommitment
<1>3. Approved(r, Current(r))
  BY <1>2 DEF StandingInv, ReservedUnderApproval
<1>4. "allowance" \in decisions[<<r, Current(r)>>]
  BY <1>1, <1>3 DEF Approved, AwaitingReview
<1> QED
  BY <1>1, <1>4 DEF Overlooked

\* What a request has reserved is within what its last approved revision asked for, and
\* that is within what every later revision asks for.
LEMMA ReservedIsWithin ==
  ASSUME Shape, BooksInv, NEW r \in Requests, Reserved(r) <= commitment[r].amount,
         NEW k \in 1 .. Current(r), commitment[r].revision <= k
  PROVE  /\ Reserved(r) \in Int /\ revisions[r][k].amount \in Nat
         /\ Reserved(r) <= revisions[r][k].amount
<1>1. /\ Reserved(r) \in Int
      /\ commitment[r].revision \in Nat /\ commitment[r].amount \in Nat
  BY ReservedType DEF BooksInv, LedgerInv, LedgerTypes
<1>2. Current(r) \in Nat /\ revisions[r][k].amount \in Nat
  BY AmountTypes
<1>3. CASE commitment[r].revision = 0
  <2>1. commitment[r].amount = 0
    BY <1>3 DEF BooksInv, LedgerInv, MatchesAreReserved, NoCommitment
  <2> QED
    BY <1>1, <1>2, <2>1
<1>4. CASE commitment[r].revision # 0
  <2> DEFINE c == commitment[r].revision
  <2>1. c \in 1 .. Current(r) /\ c > 0 /\ c <= k
    BY <1>1, <1>2, <1>4
  <2>2. commitment[r].amount = revisions[r][c].amount
    BY <2>1 DEF BooksInv, CommitmentsAreOfRevisions
  <2>3. c = k \/ revisions[r][c].amount < revisions[r][k].amount
    <3>1. c < k \/ c = k
      BY <2>1
    <3> QED
      BY <2>1, <3>1 DEF BooksInv, CommitmentsAreOfRevisions
  <2>4. revisions[r][c].amount \in Nat
    BY <2>1, AmountTypes
  <2> HIDE DEF c
  <2> QED
    BY <1>1, <1>2, <2>2, <2>3, <2>4
<1> QED
  BY <1>1, <1>2, <1>3, <1>4

LEMMA InitStanding == Init => StandingInv
<1> SUFFICES ASSUME Init PROVE StandingInv
  OBVIOUS
<1>1. \A r \in Requests : Reserved(r) = 0
  BY InitLedger DEF Init
<1>2. \A r \in Requests : Current(r) = 0 /\ commitment[r] = NoCommitment
  BY DEF Init, LedgerInit, Current
<1>3. ReservedUnderApproval
  BY <1>2 DEF ReservedUnderApproval
<1>4. ReservedWithinApproval
  BY <1>1, <1>2 DEF ReservedWithinApproval, NoCommitment
<1> QED
  BY <1>3, <1>4 DEF StandingInv

\* What ReservedUnderApproval says of a request's commitment, after a step.
StandsAfter(r) ==
  commitment'[r] # NoCommitment =>
    /\ commitment'[r].revision <= Current(r)'
    /\ \/ revisions'[r][commitment'[r].revision].evaluation = "approved"
       \/ decisions'[<<r, commitment'[r].revision>>] \cap {"exception", "allowance"} # {}
    /\ "refusal" \in decisions'[<<r, commitment'[r].revision>>]
         => "allowance" \in decisions'[<<r, commitment'[r].revision>>]
    /\ commitment'[r].amount = revisions'[r][commitment'[r].revision].amount

LEMMA AllStand ==
  ASSUME \A r \in Requests : StandsAfter(r)
  PROVE  ReservedUnderApproval'
BY DEF StandsAfter, ReservedUnderApproval, Approved

\* A commitment that a step leaves alone stays approved: no human refuses it, unless it
\* was approved as within the allowance.
LEMMA StillApproved ==
  ASSUME Shape, BooksInv, StandingInv, NEW r \in Requests,
         commitment'[r] # NoCommitment => commitment[r] # NoCommitment,
         commitment'[r].revision = commitment[r].revision,
         commitment'[r].amount = commitment[r].amount,
         Current(r)' \in Nat, Current(r) <= Current(r)',
         \A n \in 1 .. Current(r) : revisions'[r][n] = revisions[r][n],
         commitment[r] # NoCommitment =>
           \/ decisions'[<<r, commitment[r].revision>>] = decisions[<<r, commitment[r].revision>>]
           \/ /\ "allowance" \in decisions[<<r, commitment[r].revision>>]
              /\ decisions'[<<r, commitment[r].revision>>]
                   = decisions[<<r, commitment[r].revision>>] \cup {"refusal"}
  PROVE  StandsAfter(r)
<1> SUFFICES ASSUME commitment'[r] # NoCommitment PROVE StandsAfter(r)
  BY DEF StandsAfter
<1> DEFINE c == commitment[r].revision
<1>1. c <= Current(r) /\ Approved(r, c) /\ commitment[r].amount = revisions[r][c].amount
  BY DEF StandingInv, ReservedUnderApproval
<1>2. c \in Nat /\ c # 0 /\ Current(r) \in Nat
  BY AmountTypes DEF BooksInv, LedgerInv, LedgerTypes, MatchesAreReserved
<1>3. c \in 1 .. Current(r) /\ c <= Current(r)'
  BY <1>1, <1>2
<1>4. \/ decisions'[<<r, c>>] = decisions[<<r, c>>]
      \/ "allowance" \in decisions[<<r, c>>]
         /\ decisions'[<<r, c>>] = decisions[<<r, c>>] \cup {"refusal"}
  OBVIOUS
<1>5. commitment'[r].revision = c
  OBVIOUS
<1> HIDE DEF c
<1>6. revisions'[r][c] = revisions[r][c]
  BY <1>3
<1>7. /\ revisions'[r][c].evaluation = "approved"
           \/ decisions'[<<r, c>>] \cap {"exception", "allowance"} # {}
      /\ "refusal" \in decisions'[<<r, c>>] => "allowance" \in decisions'[<<r, c>>]
  BY <1>1, <1>4, <1>6 DEF Approved
<1> QED
  BY <1>1, <1>3, <1>5, <1>6, <1>7 DEF StandsAfter

LEMMA SubmitStanding ==
  ASSUME Shape, BooksInv, StandingInv, NEW r \in Requests, NEW amount \in RequestAmounts, NEW effect,
         amount > Amount(r), Current(r) <= MaxAmendments, Submit(r, amount, effect)
  PROVE  StandingInv'
<1> DEFINE k == Current(r) + 1
           delta == Delta(amount, Amount(r))
           outcome == Evaluate(r, delta, effect)
<1>1. /\ Current(r) \in Nat /\ k \in 1 .. MaxAmendments + 1
      /\ \A q \in Requests : Current(q)' = IF q = r THEN k ELSE Current(q)
      /\ revisions'[r][k].amount = amount /\ revisions'[r][k].evaluation = outcome
      /\ \A q \in Requests : \A n \in 1 .. Current(q) : revisions'[q][n] = revisions[q][n]
      /\ IF outcome = "approved" THEN Reserve(r, k, amount, delta) ELSE UNCHANGED ledger
  BY SubmitAppends
<1>2. decisions' = decisions
  BY DEF Submit
<1>4. /\ amount \in Nat /\ Amount(r) \in Nat /\ delta \in Nat /\ delta = amount - Amount(r)
  BY AmountTypes, AuthorityAssumption DEF Delta
<1>5. <<r, k>> \in Intents /\ decisions[<<r, k>>] = {}
  <2>1. <<r, k>> \in Intents
    BY <1>1 DEF Intents
  <2>2. k > Current(r)
    BY <1>1
  <2> QED
    BY <2>1, <2>2 DEF BooksInv, CommitmentsAreOfRevisions
<1> HIDE DEF outcome, delta
<1>7. /\ \A q \in Requests \ {r} : commitment'[q] = commitment[q] /\ Reserved(q)' = Reserved(q)
      /\ \/ commitment'[r] = commitment[r] /\ Reserved(r)' = Reserved(r)
         \/ /\ outcome = "approved" /\ commitment'[r].revision = k /\ commitment'[r].amount = amount
            /\ Reserved(r)' = Reserved(r) + delta
  <2>1. CASE outcome = "approved"
    <3>1. /\ Reserve(r, k, amount, delta) /\ amount \in Nat /\ delta \in Int
          /\ k \in Nat \ {0} /\ LedgerInv
      BY <1>1, <1>4, <2>1 DEF BooksInv
    <3> HIDE DEF k
    <3> QED
      BY <2>1, <3>1, ReserveStep
  <2>2. CASE outcome # "approved"
    BY <1>1, <2>2, SameReserved
  <2> QED
    BY <2>1, <2>2
<1>8. ASSUME NEW q \in Requests PROVE StandsAfter(q)
  <2>1. CASE commitment'[q] = commitment[q]
    <3>1. Current(q) \in Nat
      BY AmountTypes
    <3>2. Current(q)' \in Nat /\ Current(q) <= Current(q)'
      BY <1>1, <3>1
    <3> QED
      BY <1>1, <1>2, <2>1, <3>2, StillApproved
  <2>2. CASE commitment'[q] # commitment[q]
    <3>1. /\ q = r /\ outcome = "approved" /\ commitment'[r].revision = k
          /\ commitment'[r].amount = amount
      BY <1>7, <2>2
    <3>2. /\ revisions'[r][k].evaluation = "approved"
          /\ "refusal" \notin decisions'[<<r, k>>]
      BY <1>1, <1>2, <1>5, <3>1
    <3>3. k <= Current(r)' /\ amount = revisions'[r][k].amount
      BY <1>1
    <3> HIDE DEF k
    <3> QED
      BY <3>1, <3>2, <3>3 DEF StandsAfter
  <2> QED
    BY <2>1, <2>2
<1>9. ReservedWithinApproval'
  <2> SUFFICES ASSUME NEW q \in Requests PROVE Overlooked(q)' \/ Reserved(q)' <= commitment'[q].amount
    BY DEF ReservedWithinApproval
  <2>1. CASE Overlooked(q)
    BY <1>2, <2>1, OverlookedStays
  <2>2. CASE Reserved(q) <= commitment[q].amount
    <3>1. CASE commitment'[q] = commitment[q] /\ Reserved(q)' = Reserved(q)
      BY <2>2, <3>1
    <3>2. CASE ~(commitment'[q] = commitment[q] /\ Reserved(q)' = Reserved(q))
      <4>1. q = r /\ commitment'[r].amount = amount /\ Reserved(r)' = Reserved(r) + delta
        BY <1>7, <3>2
      <4>2. Reserved(r) \in Int /\ Reserved(r) <= Amount(r)
        <5>1. CASE Current(r) = 0
          <6>1. commitment[r].revision = 0
            BY <5>1 DEF BooksInv, CommitmentsAreOfRevisions, LedgerInv, LedgerTypes
          <6>2. commitment[r].amount = 0
            BY <6>1 DEF BooksInv, LedgerInv, MatchesAreReserved, NoCommitment
          <6>3. Reserved(r) \in Int
            BY ReservedType DEF BooksInv
          <6> QED
            BY <2>2, <4>1, <5>1, <6>2, <6>3 DEF Amount
        <5>2. CASE Current(r) # 0
          <6>1. Current(r) \in 1 .. Current(r) /\ commitment[r].revision <= Current(r)
            BY <1>1, <5>2 DEF BooksInv, CommitmentsAreOfRevisions
          <6>2. Reserved(r) <= commitment[r].amount
            BY <2>2, <4>1
          <6> QED
            BY <5>2, <6>1, <6>2, ReservedIsWithin DEF Amount
        <5> QED
          BY <5>1, <5>2
      <4> QED
        BY <1>4, <4>1, <4>2
    <3> QED
      BY <3>1, <3>2
  <2> QED
    BY <2>1, <2>2 DEF StandingInv, ReservedWithinApproval
<1> QED
  BY <1>8, <1>9, AllStand DEF StandingInv

LEMMA CommittedIntent ==
  ASSUME Shape, BooksInv, StandingInv, NEW r \in Requests, commitment[r] # NoCommitment
  PROVE  <<r, commitment[r].revision>> \in Intents
<1>1. commitment[r].revision # 0 /\ commitment[r].revision \in Nat
  BY DEF BooksInv, LedgerInv, LedgerTypes, MatchesAreReserved
<1>2. commitment[r].revision <= Current(r)
  BY DEF StandingInv, ReservedUnderApproval
<1>3. Current(r) \in 0 .. MaxAmendments + 1
  BY AmountTypes
<1> QED
  BY <1>1, <1>2, <1>3, AuthorityAssumption DEF Intents

LEMMA DenyStanding ==
  ASSUME Shape, BooksInv, StandingInv, NEW r \in Requests, DenyReview(r)
  PROVE  StandingInv'
<1>1. AwaitingReview(r) /\ Decide(r, "refusal") /\ UNCHANGED ledger /\ revisions' = revisions
  BY DEF DenyReview
<1>2. <<r, Current(r)>> \in Intents
  BY <1>1, AwaitedIntent
<1>3. /\ \A i \in Intents : i # <<r, Current(r)>> => decisions'[i] = decisions[i]
      /\ decisions'[<<r, Current(r)>>] = decisions[<<r, Current(r)>>] \cup {"refusal"}
  BY <1>1, Deciding DEF BooksInv, Decided
<1>4. \A q \in Requests : /\ Reserved(q)' = Reserved(q) /\ commitment'[q] = commitment[q]
                          /\ Current(q)' = Current(q)
  BY <1>1, SameReserved DEF Current
<1>5. ASSUME NEW q \in Requests PROVE StandsAfter(q)
  <2>1. ASSUME commitment[q] # NoCommitment
        PROVE  \/ decisions'[<<q, commitment[q].revision>>] = decisions[<<q, commitment[q].revision>>]
               \/ /\ "allowance" \in decisions[<<q, commitment[q].revision>>]
                  /\ decisions'[<<q, commitment[q].revision>>]
                       = decisions[<<q, commitment[q].revision>>] \cup {"refusal"}
    <3>1. <<q, commitment[q].revision>> \in Intents
      BY <2>1, CommittedIntent
    <3>2. CASE q = r /\ commitment[q].revision = Current(r)
      BY <1>1, <1>3, <3>2, AwaitedIsUncommitted
    <3>3. CASE ~(q = r /\ commitment[q].revision = Current(r))
      BY <1>3, <3>1, <3>3
    <3> QED
      BY <3>2, <3>3
  <2>2. Current(q)' \in Nat /\ Current(q) <= Current(q)'
    BY <1>4, AmountTypes
  <2>3. \A n \in 1 .. Current(q) : revisions'[q][n] = revisions[q][n]
    BY <1>1
  <2>4. commitment'[q] = commitment[q]
    BY <1>4
  <2> QED
    BY <2>1, <2>2, <2>3, <2>4, StillApproved
<1>6. \A i \in Intents : decisions[i] \subseteq decisions'[i]
  BY <1>3
<1>7. ReservedWithinApproval'
  BY <1>4, <1>6, OverlookedStays DEF StandingInv, ReservedWithinApproval
<1> QED
  BY <1>5, <1>7, AllStand DEF StandingInv

\* An approval by exception, of a revision not yet approved, reserves the increase over
\* what the revisions before it may have reserved.
LEMMA ApproveReserved ==
  ASSUME Shape, BooksInv, StandingInv, NEW r \in Requests, ApproveReview(r),
         Reserved(r) <= commitment[r].amount, commitment[r].revision # Current(r)
  PROVE  Reserved(r)' <= commitment'[r].amount
<1> DEFINE k == Current(r)
           amount == Amount(r)
           previous == IF k > 1 THEN revisions[r][k - 1].amount ELSE 0
<1>1. AwaitingReview(r)
  BY DEF ApproveReview
<1>2. PICK delta \in Nat : Reserve(r, k, amount, delta) /\ delta = amount - previous
  BY Approving
<1>3. /\ k \in Nat \ {0} /\ commitment[r].revision # k
      /\ commitment[r].revision <= k /\ commitment[r].revision \in Nat
      /\ amount \in Nat
  BY <1>1, AwaitedIntent, AmountTypes
     DEF BooksInv, LedgerInv, LedgerTypes, CommitmentsAreOfRevisions
<1>4. Reserved(r) \in Int /\ previous \in Nat /\ Reserved(r) <= previous
  <2>1. CASE k > 1
    <3>1. k - 1 \in 1 .. k /\ commitment[r].revision <= k - 1
      BY <1>3, <2>1
    <3>2. /\ Reserved(r) \in Int /\ revisions[r][k - 1].amount \in Nat
          /\ Reserved(r) <= revisions[r][k - 1].amount
      BY <3>1, ReservedIsWithin
    <3> QED
      BY <2>1, <3>2
  <2>2. CASE ~(k > 1)
    <3>1. commitment[r].revision = 0
      BY <1>3, <2>2
    <3>2. commitment[r].amount = 0 /\ Reserved(r) \in Int
      BY <3>1, ReservedType DEF BooksInv, LedgerInv, MatchesAreReserved, NoCommitment
    <3> QED
      BY <2>2, <3>2
  <2> QED
    BY <2>1, <2>2
<1> HIDE DEF k, amount, previous
<1>5. commitment'[r].amount = amount /\ Reserved(r)' = Reserved(r) + delta
  <2>1. /\ Reserve(r, k, amount, delta) /\ k \in Nat \ {0} /\ amount \in Nat
        /\ delta \in Int /\ LedgerInv
    BY <1>2, <1>3 DEF BooksInv
  <2> QED
    BY <2>1, ReserveStep
<1> QED
  BY <1>2, <1>3, <1>4, <1>5

LEMMA ApproveStanding ==
  ASSUME Shape, BooksInv, StandingInv, NEW r \in Requests, ApproveReview(r)
  PROVE  StandingInv'
<1> DEFINE k == Current(r)
           amount == Amount(r)
<1>1. AwaitingReview(r) /\ revisions' = revisions
  BY DEF ApproveReview, Approval
<1>2. PICK reason \in {"allowance", "exception"} : Decide(r, reason)
  BY DEF ApproveReview, Approval
<1>3. PICK delta \in Nat : Reserve(r, k, amount, delta)
  BY Approving
<1>4. /\ k \in Nat \ {0} /\ <<r, k>> \in Intents /\ <<r, k>> \in IntentsOf(r)
      /\ amount \in Nat /\ amount = revisions[r][k].amount
  BY <1>1, AwaitedIntent, AmountTypes DEF Amount
<1>5. /\ \A i \in Intents : i # <<r, k>> => decisions'[i] = decisions[i]
      /\ decisions'[<<r, k>>] = decisions[<<r, k>>] \cup {reason}
  BY <1>1, <1>2, Deciding DEF BooksInv, Decided
<1>6. "refusal" \notin decisions[<<r, k>>]
  BY <1>1 DEF AwaitingReview
<1>7. \A q \in Requests : Current(q)' = Current(q)
  BY <1>1 DEF Current
<1>8. Overlooked(r) \/ commitment[r].revision # Current(r)
  BY <1>1, AwaitedIsUncommitted
<1>9. k = Current(r)
  OBVIOUS
<1> HIDE DEF k, amount
<1>10. /\ \A q \in Requests \ {r} : commitment'[q] = commitment[q] /\ Reserved(q)' = Reserved(q)
       /\ commitment'[r].revision = k /\ commitment'[r].amount = amount
  BY <1>3, <1>4, ReserveStep DEF BooksInv
<1>11. \A i \in Intents : decisions[i] \subseteq decisions'[i]
  BY <1>5
<1>12. ASSUME NEW q \in Requests PROVE StandsAfter(q)
  <2>1. CASE q = r
    <3>1. /\ decisions'[<<r, k>>] \cap {"exception", "allowance"} # {}
          /\ "refusal" \notin decisions'[<<r, k>>]
      BY <1>5, <1>6
    <3>2. k <= Current(r)' /\ amount = revisions'[r][k].amount
      BY <1>1, <1>4, <1>7, <1>9
    <3> QED
      BY <1>10, <2>1, <3>1, <3>2 DEF StandsAfter
  <2>2. CASE q # r
    <3>1. commitment'[q] = commitment[q]
      BY <1>10, <2>2
    <3>2. commitment[q] # NoCommitment =>
            decisions'[<<q, commitment[q].revision>>] = decisions[<<q, commitment[q].revision>>]
      BY <1>5, <2>2, CommittedIntent
    <3>3. Current(q)' \in Nat /\ Current(q) <= Current(q)'
      BY <1>7, AmountTypes
    <3>4. \A n \in 1 .. Current(q) : revisions'[q][n] = revisions[q][n]
      BY <1>1
    <3> QED
      BY <3>1, <3>2, <3>3, <3>4, StillApproved
  <2> QED
    BY <2>1, <2>2
<1>13. ReservedWithinApproval'
  <2> SUFFICES ASSUME NEW q \in Requests PROVE Overlooked(q)' \/ Reserved(q)' <= commitment'[q].amount
    BY DEF ReservedWithinApproval
  <2>1. CASE Overlooked(q)
    BY <1>11, <2>1, OverlookedStays
  <2>2. CASE ~Overlooked(q) /\ q # r
    BY <1>10, <2>2 DEF StandingInv, ReservedWithinApproval
  <2>3. CASE ~Overlooked(q) /\ q = r
    <3>1. Reserved(r) <= commitment[r].amount /\ commitment[r].revision # Current(r)
      BY <1>8, <2>3 DEF StandingInv, ReservedWithinApproval
    <3> QED
      BY <2>3, <3>1, ApproveReserved
  <2> QED
    BY <2>1, <2>2, <2>3
<1> QED
  BY <1>12, <1>13, AllStand DEF StandingInv

LEMMA OtherStanding ==
  ASSUME Shape, BooksInv, StandingInv, Book \/ UNCHANGED ledger, UNCHANGED requests
  PROVE  StandingInv'
<1>1. revisions' = revisions /\ decisions' = decisions
  BY DEF requests
<1>2. \A q \in Requests : Current(q)' = Current(q)
  BY <1>1 DEF Current
<1>3. \A r \in Requests : /\ Reserved(r)' = Reserved(r)
                          /\ commitment'[r].revision = commitment[r].revision
                          /\ commitment'[r].amount = commitment[r].amount
                          /\ commitment'[r] # NoCommitment => commitment[r] # NoCommitment
  <2>1. CASE Book
    <3>1. LedgerInv' /\ \A r \in Requests : /\ Reserved(r)' = Reserved(r)
                                            /\ commitment'[r].revision = commitment[r].revision
                                            /\ commitment'[r].amount = commitment[r].amount
      BY <2>1, BookStep DEF BooksInv
    <3>2. \A r \in Requests : commitment'[r].revision = 0 => commitment'[r] = NoCommitment
      BY <3>1 DEF LedgerInv, MatchesAreReserved
    <3>3. \A r \in Requests : commitment[r] = NoCommitment => commitment[r].revision = 0
      BY DEF NoCommitment
    <3> QED
      BY <3>1, <3>2, <3>3
  <2>2. CASE UNCHANGED ledger
    BY <2>2, SameReserved
  <2> QED
    BY <2>1, <2>2
<1>4. ASSUME NEW q \in Requests PROVE StandsAfter(q)
  <2>1. Current(q)' \in Nat /\ Current(q) <= Current(q)'
    BY <1>2, AmountTypes
  <2>2. \A n \in 1 .. Current(q) : revisions'[q][n] = revisions[q][n]
    BY <1>1
  <2>3. decisions'[<<q, commitment[q].revision>>] = decisions[<<q, commitment[q].revision>>]
    BY <1>1
  <2> QED
    BY <1>3, <2>1, <2>2, <2>3, StillApproved
<1>5. \A i \in Intents : decisions[i] \subseteq decisions'[i]
  BY <1>1
<1>6. ReservedWithinApproval'
  BY <1>3, <1>5, OverlookedStays DEF StandingInv, ReservedWithinApproval
<1> QED
  BY <1>4, <1>6, AllStand DEF StandingInv

LEMMA NextStanding == Shape /\ BooksInv /\ StandingInv /\ [Next]_vars => StandingInv'
<1> SUFFICES ASSUME Shape, BooksInv, StandingInv, [Next]_vars PROVE StandingInv'
  OBVIOUS
<1>1. CASE \E r \in Requests : CreateRequest(r)
  <2>1. PICK r \in Requests : CreateRequest(r)
    BY <1>1
  <2>2. PICK amount \in RequestAmounts, effect \in Effects : Submit(r, amount, effect)
    BY <2>1, AuthorityAssumption DEF CreateRequest
  <2>3. amount > Amount(r) /\ Current(r) <= MaxAmendments
    BY <2>1, AuthorityAssumption DEF CreateRequest, Amount
  <2> QED
    BY <2>2, <2>3, SubmitStanding
<1>2. CASE \E r \in Requests : AmendRequest(r)
  <2>1. PICK r \in Requests : AmendRequest(r)
    BY <1>2
  <2>2. PICK amount \in RequestAmounts, effect \in Effects :
               amount > Amount(r) /\ Submit(r, amount, effect)
    BY <2>1, AuthorityAssumption DEF AmendRequest
  <2>3. Current(r) <= MaxAmendments
    BY <2>1, AuthorityAssumption DEF AmendRequest
  <2> QED
    BY <2>2, <2>3, SubmitStanding
<1>3. CASE \E r \in Requests : DenyReview(r)
  BY <1>3, DenyStanding
<1>4. CASE \E r \in Requests : ApproveReview(r)
  BY <1>4, ApproveStanding
<1>5. CASE Book /\ UNCHANGED <<requests, stage, operation>>
  BY <1>5, OtherStanding
<1>6. CASE Deliver \/ UNCHANGED vars
  BY <1>6, OtherStanding DEF Deliver, vars
<1> QED
  BY <1>1, <1>2, <1>3, <1>4, <1>5, <1>6 DEF Next

THEOREM Standing == Spec => []StandingInv
  BY Books, InitStanding, NextStanding, PTL DEF Spec

(***************************************************************************)
(* A request holds no more of its budgets than the amount it was last      *)
(* approved for, in whatever order its revisions are amended and reviewed, *)
(* its postings booked and moved, and the facts of its policy change       *)
(* between evaluations.  Excepted are requests with a review that was      *)
(* approved as within the allowance: decideReview does not take it for     *)
(* decided, and it may be approved once more.                              *)
(***************************************************************************)
THEOREM ReservedAsApproved == Spec => []ReservedWithinApproval
<1>1. StandingInv => ReservedWithinApproval
  BY DEF StandingInv
<1> QED
  BY <1>1, Standing, PTL

(***************************************************************************)
(* Money is reserved only for a revision that policy or a human approved,  *)
(* and in the amount of that revision.  If a human refused it as well, it  *)
(* had been approved as within the allowance.                              *)
(***************************************************************************)
THEOREM ReservationsAreApproved == Spec => []ReservedUnderApproval
<1>1. StandingInv => ReservedUnderApproval
  BY DEF StandingInv
<1> QED
  BY <1>1, Standing, PTL
=============================================================================
