---------------------------- MODULE DoublesProofs ----------------------------
(***************************************************************************)
(* The doubles that stand in for the service, and the page that calls one. *)
(*                                                                         *)
(* Mock: a command that succeeds leaves one record and is remembered, one  *)
(* that fails leaves nothing, and the budget account is what the records   *)
(* add up to, for any budget, amounts and clients that give up and send    *)
(* again; and so is what its forecast finds.                               *)
(*                                                                         *)
(* Page: it shows what the latest load found of the selected company, and a *)
(* refused approval is not on record. Its synthetic stream adds up.        *)
(*                                                                         *)
(* Store in memory: for any workers, submissions, limits and bounds,       *)
(* coalescing keeps the terms of what joins a job, and a job completes only *)
(* with inputs that its last claim handed out.                             *)
(***************************************************************************)
EXTENDS WebWorkspace, DemoStream, MockService, ReferenceStore, FiniteSums, FiniteSetTheorems, TLAPS

-----------------------------------------------------------------------------
(***************************************************************************)
(* Handlers and router: MockCompany.                                       *)
(***************************************************************************)
List(x) == \E S : x \in Seq(S)

Fields == {"requests", "decisions", "commitments", "postings", "corrections", "budget", "ledger",
           "memo", "forecasts", "clock", "ids"}

Revision(r) == /\ {"amount", "cumulative", "state"} \subseteq DOMAIN r
               /\ r.amount \in Int /\ r.cumulative \in Int
Commitment(c) == /\ {"amount", "outstanding", "revision", "state"} \subseteq DOMAIN c
                 /\ c.amount \in Int /\ c.outstanding \in Int
Budget(b) == /\ {"recognized", "outstanding", "available", "revision"} \subseteq DOMAIN b
             /\ b.recognized \in Int /\ b.outstanding \in Int /\ b.available \in Int

\* What the store of a company is, whatever was done to it.
Company(s) ==
  /\ Fields \subseteq DOMAIN s
  /\ \A r \in DOMAIN s.requests :
       /\ List(s.requests[r]) /\ s.requests[r] # <<>>
       /\ \A i \in DOMAIN s.requests[r] : Revision(s.requests[r][i])
  /\ \A r \in DOMAIN s.commitments : Commitment(s.commitments[r])
  /\ Budget(s.budget)
  /\ List(s.decisions) /\ List(s.postings) /\ List(s.corrections)
  /\ \A f \in DOMAIN s.forecasts : List(s.forecasts[f])

\* A payload that the contract schemas have parsed.
Operations == {"requests.create", "requests.amend", "reviews.decide", "postings.record",
               "postings.correct", "imports.ingest", "forecasts.run"}
Parsed(p) ==
  /\ p.op \in Operations
  /\ p.op \in {"requests.create", "requests.amend", "postings.record"} => p.amount \in Nat
  /\ p.op = "postings.correct" => p.amount \in Int
  /\ p.op \in {"postings.record", "postings.correct"} => p.at \in Int

SameExcept(s, t, fields) == DOMAIN t = DOMAIN s /\ \A f \in Fields \ fields : t[f] = s[f]

-----------------------------------------------------------------------------
LEMMA Lengthened ==
  ASSUME NEW x, List(x), NEW e
  PROVE  /\ List(Append(x, e)) /\ Append(x, e) # <<>>
         /\ Len(x) \in Nat /\ DOMAIN x = 1 .. Len(x)
         /\ DOMAIN Append(x, e) = DOMAIN x \cup {Len(x) + 1}
         /\ Len(Append(x, e)) = Len(x) + 1
         /\ \A i \in DOMAIN x : Append(x, e)[i] = x[i]
         /\ Append(x, e)[Len(x) + 1] = e
<1>1. PICK S : x \in Seq(S)
  BY DEF List
<1>2. x \in Seq(S \cup {e})
  BY <1>1
<1>3. Append(x, e) \in Seq(S \cup {e})
  BY <1>2
<1>4. /\ Len(x) \in Nat /\ DOMAIN x = 1 .. Len(x)
      /\ Len(Append(x, e)) = Len(x) + 1 /\ DOMAIN Append(x, e) = 1 .. Len(x) + 1
      /\ \A i \in 1 .. Len(x) : Append(x, e)[i] = x[i]
      /\ Append(x, e)[Len(x) + 1] = e
  BY <1>2, <1>3
<1>5. 1 .. Len(x) + 1 = (1 .. Len(x)) \cup {Len(x) + 1}
  BY <1>4
<1>6. Append(x, e) # <<>>
  BY <1>4
<1> QED  BY <1>3, <1>4, <1>5, <1>6 DEF List

LEMMA LatestOf ==
  ASSUME NEW x, List(x), x # <<>>
  PROVE  Last(x) = x[Len(x)] /\ Len(x) \in DOMAIN x
<1>1. PICK S : x \in Seq(S)
  BY DEF List
<1> QED  BY <1>1 DEF Last

LEMMA ShortLists ==
  ASSUME NEW e
  PROVE  /\ List(<<e>>) /\ <<e>> # <<>> /\ DOMAIN <<e>> = {1} /\ <<e>>[1] = e
         /\ List(<<>>) /\ DOMAIN <<>> = {}
<1>1. <<e>> \in Seq({e}) /\ <<>> \in Seq({e})
  OBVIOUS
<1>2. Len(<<e>>) = 1 /\ Len(<<>>) = 0 /\ <<e>>[1] = e
  OBVIOUS
<1>3. DOMAIN <<e>> = 1 .. 1 /\ DOMAIN <<>> = 1 .. 0
  BY <1>1, <1>2
<1>4. 1 .. 1 = {1} /\ 1 .. 0 = {}
  OBVIOUS
<1>5. <<e>> # <<>>
  BY <1>2
<1>6. List(<<e>>) /\ List(<<>>)
  BY <1>1 DEF List
<1> QED  BY <1>2, <1>3, <1>4, <1>5, <1>6

LEMMA CurrentRevision ==
  ASSUME NEW s, Company(s), NEW r \in DOMAIN s.requests
  PROVE  Revision(Current(s, r))
BY LatestOf DEF Company, Current

LEMMA Reserving ==
  ASSUME NEW s, Company(s), NEW r
  PROVE  CommitmentAmount(s, r) \in Int
BY DEF Company, Commitment, CommitmentAmount

-----------------------------------------------------------------------------
LEMMA Budgeted ==
  ASSUME NEW s, Company(s), NEW recognized \in Int, NEW outstanding \in Int
  PROVE  LET t == RefreshBudget(s, recognized, outstanding)
         IN  SameExcept(s, t, {"budget"}) /\ Company(t)
<1> DEFINE b == [recognized |-> recognized, outstanding |-> outstanding,
                 available |-> Authorized - recognized - outstanding, revision |-> s.budget.revision + 1]
           t == [s EXCEPT !.budget = b]
<1>1. Budget(b)
  BY BudgetAssumption DEF Budget
<1> HIDE DEF b
<1>2. RefreshBudget(s, recognized, outstanding) = t
  BY DEF RefreshBudget, b
<1>3. SameExcept(s, t, {"budget"}) /\ t.budget = b
  BY DEF SameExcept, Company, Fields
<1> HIDE DEF t
<1>4. Company(t)
  BY <1>1, <1>3 DEF SameExcept, Company, Fields
<1> QED  BY <1>2, <1>3, <1>4

LEMMA Committed ==
  ASSUME NEW s, Company(s), NEW r, NEW c, Commitment(c)
  PROVE  LET t == [s EXCEPT !.commitments = Put(s.commitments, r, c)]
         IN  SameExcept(s, t, {"commitments"}) /\ Company(t)
<1> DEFINE put == Put(s.commitments, r, c)
           t == [s EXCEPT !.commitments = put]
<1>1. \A q \in DOMAIN put : Commitment(put[q])
  BY DEF Put, Company
<1> HIDE DEF put
<1>2. SameExcept(s, t, {"commitments"}) /\ t.commitments = put
  BY DEF SameExcept, Company, Fields
<1> HIDE DEF t
<1>3. Company(t)
  BY <1>1, <1>2 DEF SameExcept, Company, Fields
<1> QED  BY <1>2, <1>3 DEF t, put

LEMMA Refreshed ==
  ASSUME NEW c, Commitment(c)
  PROVE  /\ Commitment(RefreshCommitmentState(c))
         /\ RefreshCommitmentState(c).amount = c.amount
         /\ RefreshCommitmentState(c).outstanding = c.outstanding
<1> DEFINE state == CASE c.outstanding = 0 -> "posted"
                      [] c.outstanding # 0 /\ c.outstanding < c.amount -> "partially_posted"
                      [] OTHER -> "outstanding"
<1>1. RefreshCommitmentState(c) = [c EXCEPT !.state = state]
  BY DEF RefreshCommitmentState
<1> HIDE DEF state
<1> QED  BY <1>1 DEF Commitment

LEMMA Reserved ==
  ASSUME NEW s, Company(s), NEW r, NEW amount \in Int
  PROVE  LET t == ApplyCommitmentReserve(s, r, amount)
         IN  SameExcept(s, t, {"commitments", "budget"}) /\ Company(t)
<1> DEFINE delta == amount - CommitmentAmount(s, r)
           old == s.commitments[r]
           c == IF r \in DOMAIN s.commitments
                THEN [old EXCEPT !.amount = amount, !.outstanding = old.outstanding + delta,
                                 !.revision = old.revision + 1]
                ELSE [amount |-> amount, outstanding |-> amount, revision |-> 1,
                      state |-> "outstanding", created |-> s.clock]
           k == RefreshCommitmentState(c)
           u == [s EXCEPT !.commitments = Put(s.commitments, r, k)]
           t == RefreshBudget(u, s.budget.recognized, s.budget.outstanding + delta)
<1>1. delta \in Int
  BY Reserving
<1>2. ApplyCommitmentReserve(s, r, amount) = t
  BY DEF ApplyCommitmentReserve
<1> HIDE DEF delta
<1>3. Commitment(c)
  BY <1>1 DEF Company, Commitment
<1> HIDE DEF c
<1>4. Commitment(k)
  BY <1>3, Refreshed
<1> HIDE DEF k
<1>5. SameExcept(s, u, {"commitments"}) /\ Company(u)
  BY <1>4, Committed
<1>6. s.budget.recognized \in Int /\ s.budget.outstanding + delta \in Int
  BY <1>1 DEF Company, Budget
<1> HIDE DEF u
<1>7. SameExcept(u, t, {"budget"}) /\ Company(t)
  BY <1>5, <1>6, Budgeted
<1> QED  BY <1>2, <1>5, <1>7 DEF SameExcept

-----------------------------------------------------------------------------
(* The records a command leaves.                                           *)

RecordFields == {"decisions", "postings", "corrections", "forecasts"}

LEMMA SameRecords ==
  ASSUME NEW s, NEW t, SameExcept(s, t, Fields \ RecordFields)
  PROVE  \A id : Effects(t, id) = Effects(s, id)
BY DEF SameExcept, Fields, RecordFields, Effects, Of

LEMMA OneRecordMore ==
  ASSUME NEW x, List(x), NEW e, NEW id
  PROVE  Of(Append(x, e), id) = Of(x, id) \cup (IF e.by = id THEN {Len(x) + 1} ELSE {})
<1>1. /\ Len(x) \in Nat /\ DOMAIN x = 1 .. Len(x)
      /\ DOMAIN Append(x, e) = DOMAIN x \cup {Len(x) + 1}
      /\ \A i \in DOMAIN x : Append(x, e)[i] = x[i]
      /\ Append(x, e)[Len(x) + 1] = e
  BY Lengthened
<1> QED  BY <1>1 DEF Of

\* The effects of a command that adds one record.
OneMore(s, t, by) ==
  /\ \E x : Effects(t, by) = Effects(s, by) \cup {x}
  /\ \A id : id # by => Effects(t, id) = Effects(s, id)

LEMMA DecisionMore ==
  ASSUME NEW s, Company(s), NEW t, NEW d,
         SameExcept(s, t, (Fields \ RecordFields) \cup {"decisions"}),
         t.decisions = Append(s.decisions, d)
  PROVE  OneMore(s, t, d.by)
<1>1. \A id : Of(t.decisions, id) = Of(s.decisions, id) \cup (IF d.by = id THEN {Len(s.decisions) + 1} ELSE {})
  BY OneRecordMore DEF Company
<1>2. t.postings = s.postings /\ t.corrections = s.corrections /\ t.forecasts = s.forecasts
  BY DEF SameExcept, Fields, RecordFields
<1>3. Effects(t, d.by) = Effects(s, d.by) \cup {<<"decision", Len(s.decisions) + 1>>}
  BY <1>1, <1>2 DEF Effects
<1>4. \A id : id # d.by => Effects(t, id) = Effects(s, id)
  BY <1>1, <1>2 DEF Effects
<1> QED  BY <1>3, <1>4 DEF OneMore

LEMMA PostingMore ==
  ASSUME NEW s, Company(s), NEW t, NEW d,
         SameExcept(s, t, (Fields \ RecordFields) \cup {"postings"}),
         t.postings = Append(s.postings, d)
  PROVE  OneMore(s, t, d.by)
<1>1. \A id : Of(t.postings, id) = Of(s.postings, id) \cup (IF d.by = id THEN {Len(s.postings) + 1} ELSE {})
  BY OneRecordMore DEF Company
<1>2. t.decisions = s.decisions /\ t.corrections = s.corrections /\ t.forecasts = s.forecasts
  BY DEF SameExcept, Fields, RecordFields
<1>3. Effects(t, d.by) = Effects(s, d.by) \cup {<<"posting", Len(s.postings) + 1>>}
  BY <1>1, <1>2 DEF Effects
<1>4. \A id : id # d.by => Effects(t, id) = Effects(s, id)
  BY <1>1, <1>2 DEF Effects
<1> QED  BY <1>3, <1>4 DEF OneMore

LEMMA CorrectionMore ==
  ASSUME NEW s, Company(s), NEW t, NEW d,
         SameExcept(s, t, (Fields \ RecordFields) \cup {"corrections"}),
         t.corrections = Append(s.corrections, d)
  PROVE  OneMore(s, t, d.by)
<1>1. \A id : Of(t.corrections, id) = Of(s.corrections, id) \cup (IF d.by = id THEN {Len(s.corrections) + 1} ELSE {})
  BY OneRecordMore DEF Company
<1>2. t.decisions = s.decisions /\ t.postings = s.postings /\ t.forecasts = s.forecasts
  BY DEF SameExcept, Fields, RecordFields
<1>3. Effects(t, d.by) = Effects(s, d.by) \cup {<<"correction", Len(s.corrections) + 1>>}
  BY <1>1, <1>2 DEF Effects
<1>4. \A id : id # d.by => Effects(t, id) = Effects(s, id)
  BY <1>1, <1>2 DEF Effects
<1> QED  BY <1>3, <1>4 DEF OneMore

Projected(s, id) == UNION {{<<"forecast", i, f>> : i \in Of(s.forecasts[f], id)} : f \in DOMAIN s.forecasts}

LEMMA ForecastMore ==
  ASSUME NEW s, Company(s), NEW t, NEW d, NEW f, NEW history, List(history),
         history = IF f \in DOMAIN s.forecasts THEN s.forecasts[f] ELSE <<>>,
         SameExcept(s, t, (Fields \ RecordFields) \cup {"forecasts"}),
         t.forecasts = Put(s.forecasts, f, Append(history, d))
  PROVE  OneMore(s, t, d.by)
<1>1. \A id : Of(Append(history, d), id) = Of(history, id) \cup (IF d.by = id THEN {Len(history) + 1} ELSE {})
  BY OneRecordMore
<1>2. t.decisions = s.decisions /\ t.postings = s.postings /\ t.corrections = s.corrections
  BY DEF SameExcept, Fields, RecordFields
<1>3. \A id : f \notin DOMAIN s.forecasts => Of(history, id) = {}
  BY ShortLists DEF Of
<1>4. \A id : Projected(t, id) = Projected(s, id) \cup (IF d.by = id THEN {<<"forecast", Len(history) + 1, f>>} ELSE {})
  <2> SUFFICES ASSUME NEW id, NEW x
               PROVE  x \in Projected(t, id) <=> \/ x \in Projected(s, id)
                                                 \/ d.by = id /\ x = <<"forecast", Len(history) + 1, f>>
    OBVIOUS
  <2>1. x \in Projected(t, id) <=> \E g \in DOMAIN t.forecasts : \E i \in Of(t.forecasts[g], id) : x = <<"forecast", i, g>>
    BY DEF Projected
  <2>2. x \in Projected(s, id) <=> \E g \in DOMAIN s.forecasts : \E i \in Of(s.forecasts[g], id) : x = <<"forecast", i, g>>
    BY DEF Projected
  <2>3. /\ DOMAIN t.forecasts = DOMAIN s.forecasts \cup {f} /\ t.forecasts[f] = Append(history, d)
        /\ \A g \in DOMAIN s.forecasts \ {f} : t.forecasts[g] = s.forecasts[g]
    BY DEF Put
  <2> DEFINE Elsewhere == \E g \in DOMAIN s.forecasts \ {f} : \E i \in Of(s.forecasts[g], id) : x = <<"forecast", i, g>>
             Before == \E i \in Of(history, id) : x = <<"forecast", i, f>>
             Added == d.by = id /\ x = <<"forecast", Len(history) + 1, f>>
  <2>4. x \in Projected(t, id) <=> Elsewhere \/ \E i \in Of(Append(history, d), id) : x = <<"forecast", i, f>>
    BY <2>1, <2>3
  <2>5. (\E i \in Of(Append(history, d), id) : x = <<"forecast", i, f>>) <=> Before \/ Added
    BY <1>1
  <2>6. x \in Projected(s, id) <=> Elsewhere \/ Before
    BY <1>3, <2>2
  <2> QED  BY <2>4, <2>5, <2>6
<1>5. \A u, id : Effects(u, id) = {<<"decision", i>> : i \in Of(u.decisions, id)} \cup {<<"posting", i>> : i \in Of(u.postings, id)}
                                 \cup {<<"correction", i>> : i \in Of(u.corrections, id)} \cup Projected(u, id)
  BY DEF Effects, Projected
<1> HIDE DEF Projected
<1>6. Effects(t, d.by) = Effects(s, d.by) \cup {<<"forecast", Len(history) + 1, f>>}
  BY <1>2, <1>4, <1>5
<1>7. \A id : id # d.by => Effects(t, id) = Effects(s, id)
  BY <1>2, <1>4, <1>5
<1> QED  BY <1>6, <1>7 DEF OneMore

-----------------------------------------------------------------------------
(* What every operation does.                                              *)

Refusals == {"VALIDATION_FAILED", "NOT_FOUND", "STALE_VERSION", "POLICY_DENIED", "AUTHORITY_DENIED",
             "CAPACITY_EXCEEDED", "IDEMPOTENCY_CONFLICT"}

\* A command that succeeds leaves one record, but an import none; one that fails leaves nothing.
Succeeds(s, t, p, by) ==
  /\ Company(t) /\ t.memo = s.memo
  /\ IF p.op = "imports.ingest" THEN \A id : Effects(t, id) = Effects(s, id) ELSE OneMore(s, t, by)
  /\ \A i \in DOMAIN t.decisions :
       LET d == t.decisions[i]
       IN  d.human = TRUE => \/ i \in DOMAIN s.decisions /\ d = s.decisions[i]
                             \/ p.op = "reviews.decide" /\ d.revision = p.revision

Sound(r, s, p, by) == \/ r.code = "ok" /\ Succeeds(s, r.state, p, by)
                      \/ r.code \in Refusals /\ r.state = s

LEMMA Failing ==
  ASSUME NEW s, NEW p, NEW by, NEW code \in Refusals
  PROVE  Sound(Fail(code, s), s, p, by)
BY DEF Sound, Fail, Result

LEMMA DecisionAdded ==
  ASSUME NEW s, Company(s), NEW d
  PROVE  LET t == [s EXCEPT !.decisions = Append(s.decisions, d)]
         IN  SameExcept(s, t, {"decisions"}) /\ Company(t) /\ t.decisions = Append(s.decisions, d)
<1> DEFINE t == [s EXCEPT !.decisions = Append(s.decisions, d)]
<1>1. SameExcept(s, t, {"decisions"}) /\ t.decisions = Append(s.decisions, d)
  BY DEF SameExcept, Company, Fields
<1>2. List(Append(s.decisions, d))
  BY Lengthened DEF Company
<1> HIDE DEF t
<1>3. Company(t)
  BY <1>1, <1>2 DEF SameExcept, Company, Fields
<1> QED  BY <1>1, <1>3 DEF t

\* A state with one decision more, of the command.
LEMMA DecisionSucceeds ==
  ASSUME NEW s, Company(s), NEW t, Company(t), NEW d, NEW p, p.op # "imports.ingest", NEW by, d.by = by,
         SameExcept(s, t, {"clock", "ids", "requests", "decisions", "commitments", "budget"}),
         t.decisions = Append(s.decisions, d),
         d.human = TRUE => p.op = "reviews.decide" /\ d.revision = p.revision
  PROVE  Succeeds(s, t, p, by)
<1>1. t.memo = s.memo
  BY DEF SameExcept, Fields
<1>2. OneMore(s, t, by)
  <2>1. SameExcept(s, t, (Fields \ RecordFields) \cup {"decisions"})
    BY DEF SameExcept, Fields, RecordFields
  <2> QED  BY <2>1, DecisionMore
<1>3. \A i \in DOMAIN t.decisions : \/ i \in DOMAIN s.decisions /\ t.decisions[i] = s.decisions[i]
                                    \/ t.decisions[i] = d
  <2>1. List(s.decisions)
    BY DEF Company
  <2>2. /\ DOMAIN t.decisions = DOMAIN s.decisions \cup {Len(s.decisions) + 1}
        /\ \A i \in DOMAIN s.decisions : t.decisions[i] = s.decisions[i]
        /\ t.decisions[Len(s.decisions) + 1] = d
    BY <2>1, Lengthened
  <2> QED  BY <2>2
<1>4. ASSUME NEW i \in DOMAIN t.decisions, t.decisions[i].human = TRUE
      PROVE  \/ i \in DOMAIN s.decisions /\ t.decisions[i] = s.decisions[i]
             \/ p.op = "reviews.decide" /\ t.decisions[i].revision = p.revision
  BY <1>3, <1>4
<1>5. Company(t)
  OBVIOUS
<1> HIDE DEF Company
<1> QED  BY <1>1, <1>2, <1>4, <1>5 DEF Succeeds

LEMMA RevisionAdded ==
  ASSUME NEW s, Company(s), NEW r, NEW revision, Revision(revision)
  PROVE  LET t == [s EXCEPT !.clock = s.clock + 1,
                            !.requests = Put(s.requests, r, IF r \in DOMAIN s.requests
                                                            THEN Append(s.requests[r], revision) ELSE <<revision>>)]
         IN  SameExcept(s, t, {"clock", "requests"}) /\ Company(t)
<1> DEFINE history == IF r \in DOMAIN s.requests THEN Append(s.requests[r], revision) ELSE <<revision>>
           put == Put(s.requests, r, history)
           t == [s EXCEPT !.clock = s.clock + 1, !.requests = put]
<1>1. List(history) /\ history # <<>> /\ \A i \in DOMAIN history : Revision(history[i])
  <2>1. CASE r \in DOMAIN s.requests
    <3>1. List(s.requests[r]) /\ \A i \in DOMAIN s.requests[r] : Revision(s.requests[r][i])
      BY <2>1 DEF Company
    <3> QED  BY <2>1, <3>1, Lengthened
  <2>2. CASE r \notin DOMAIN s.requests
    BY <2>2, ShortLists
  <2> QED  BY <2>1, <2>2
<1> HIDE DEF history
<1>2. \A q \in DOMAIN put : List(put[q]) /\ put[q] # <<>> /\ \A i \in DOMAIN put[q] : Revision(put[q][i])
  BY <1>1 DEF Put, Company
<1> HIDE DEF put
<1>3. SameExcept(s, t, {"clock", "requests"}) /\ t.requests = put
  BY DEF SameExcept, Company, Fields
<1> HIDE DEF t
<1>4. Company(t)
  BY <1>2, <1>3 DEF SameExcept, Company, Fields
<1> QED  BY <1>3, <1>4 DEF t, put, history

LEMMA DecidedSucceeds ==
  ASSUME NEW s, Company(s), NEW r, NEW revision, Revision(revision), NEW delta, NEW by,
         revision.state = "approved" => HasCapacity(s, delta), NEW p, p.op # "imports.ingest"
  PROVE  LET result == Decided(s, r, revision, delta, by)
         IN  result.code = "ok" /\ Succeeds(s, result.state, p, by)
<1> DEFINE u == [s EXCEPT !.clock = s.clock + 1,
                          !.requests = Put(s.requests, r, IF r \in DOMAIN s.requests
                                                          THEN Append(s.requests[r], revision) ELSE <<revision>>)]
           d == BuildDecision(u, r, revision.state, FALSE, by)
           w == [u EXCEPT !.decisions = Append(u.decisions, d)]
           t == ApplyCommitmentReserve(w, r, revision.amount)
<1>1. SameExcept(s, u, {"clock", "requests"}) /\ Company(u)
  BY RevisionAdded
<1>2. d.by = by /\ d.human = FALSE
  BY DEF BuildDecision
<1>3. LET result == Decided(s, r, revision, delta, by)
      IN  result.code = "ok" /\ result.state = IF revision.state # "approved" THEN w ELSE t
  BY DEF Decided, Result
<1> HIDE DEF u, d
<1>4. SameExcept(u, w, {"decisions"}) /\ Company(w) /\ w.decisions = Append(u.decisions, d)
  BY <1>1, DecisionAdded
<1> HIDE DEF w
<1>5. SameExcept(w, t, {"commitments", "budget"}) /\ Company(t)
  BY <1>4, Reserved DEF Revision
<1> HIDE DEF t
<1>6. u.decisions = s.decisions /\ t.decisions = w.decisions
  BY <1>1, <1>5 DEF SameExcept, Fields
<1>7. /\ SameExcept(s, w, {"clock", "ids", "requests", "decisions", "commitments", "budget"})
      /\ SameExcept(s, t, {"clock", "ids", "requests", "decisions", "commitments", "budget"})
  BY <1>1, <1>4, <1>5 DEF SameExcept
<1>8. Succeeds(s, w, p, by)
  BY <1>2, <1>4, <1>6, <1>7, DecisionSucceeds
<1>9. Succeeds(s, t, p, by)
  BY <1>2, <1>4, <1>5, <1>6, <1>7, DecisionSucceeds
<1> QED  BY <1>3, <1>8, <1>9

LEMMA Creating ==
  ASSUME NEW s, Company(s), NEW p, Parsed(p), p.op = "requests.create", NEW m
  PROVE  Sound(CreateRequest(s, p, m), s, p, m.id)
<1> DEFINE u == [s EXCEPT !.ids = s.ids + 1]
           outcome == EvaluateMockPolicy(p.amount, 0, p.amount, s.budget.available)
           revision == [amount |-> p.amount, cumulative |-> 0, state |-> outcome, scopes |-> p.scopes]
           result == Decided(u, s.ids, revision, p.amount, m.id)
<1>1. CASE m.expected # {} \/ ~(p.scopes \subseteq Registered) \/ ~p.entitiesKnown
  BY <1>1, Failing DEF CreateRequest, Refusals
<1>2. CASE ~(m.expected # {} \/ ~(p.scopes \subseteq Registered) \/ ~p.entitiesKnown)
  <2>1. CreateRequest(s, p, m) = result
    BY <1>2 DEF CreateRequest
  <2>2. SameExcept(s, u, {"ids"})
    BY DEF SameExcept, Company, Fields
  <2> HIDE DEF u
  <2>3. Company(u)
    BY <2>2 DEF SameExcept, Company, Fields
  <2>4. p.amount \in Int /\ s.budget.available \in Int /\ u.budget = s.budget
    BY <2>2 DEF Parsed, Company, Budget, SameExcept, Fields
  <2>5. Revision(revision) /\ revision.state = outcome
    BY <2>4 DEF Revision
  <2>6. outcome = "approved" => HasCapacity(u, p.amount)
    BY <2>4 DEF EvaluateMockPolicy, HasCapacity
  <2> HIDE DEF outcome, revision
  <2>7. result.code = "ok" /\ Succeeds(u, result.state, p, m.id)
    BY <2>3, <2>5, <2>6, DecidedSucceeds
  <2> HIDE DEF result
  <2>8. \A id : Effects(u, id) = Effects(s, id)
    BY <2>2, SameRecords DEF SameExcept, Fields, RecordFields
  <2>9. u.decisions = s.decisions /\ u.memo = s.memo
    BY <2>2 DEF SameExcept, Fields
  <2>10. OneMore(s, result.state, m.id)
    BY <2>7, <2>8 DEF Succeeds, OneMore
  <2>11. Succeeds(s, result.state, p, m.id)
    BY <2>7, <2>9, <2>10 DEF Succeeds
  <2> QED  BY <2>1, <2>7, <2>11 DEF Sound
<1> QED  BY <1>1, <1>2

LEMMA Amending ==
  ASSUME NEW s, Company(s), NEW p, Parsed(p), p.op = "requests.amend", NEW m
  PROVE  Sound(AmendRequest(s, p, m), s, p, m.id)
<1> DEFINE request == Current(s, p.request)
           increase == p.amount - request.amount
           cumulative == request.cumulative + increase
           outcome == EvaluateMockPolicy(p.amount, cumulative, increase, s.budget.available)
           revision == [request EXCEPT !.amount = p.amount, !.cumulative = cumulative, !.state = outcome]
           result == Decided(s, p.request, revision, increase, m.id)
           Met == /\ RequireExpectation(m.expected, "request", p.request)
                  /\ p.request \in DOMAIN s.requests
                  /\ RevisionMatches(m.expected, Len(s.requests[p.request]))
                  /\ request.state # "denied" /\ ~(increase <= 0)
<1>1. CASE ~Met
  <2>1. \E code \in Refusals : AmendRequest(s, p, m) = Fail(code, s)
    BY <1>1 DEF AmendRequest, Refusals
  <2> QED  BY <2>1, Failing
<1>2. CASE Met
  <2>1. AmendRequest(s, p, m) = result
    BY <1>2 DEF AmendRequest
  <2>2. Revision(request)
    BY <1>2, CurrentRevision
  <2> HIDE DEF request
  <2>3. /\ p.amount \in Int /\ s.budget.available \in Int /\ increase \in Int /\ cumulative \in Int
    BY <2>2 DEF Parsed, Company, Budget, Revision
  <2>4. outcome = "approved" => HasCapacity(s, increase)
    BY <2>3 DEF EvaluateMockPolicy, HasCapacity
  <2> HIDE DEF outcome, increase, cumulative
  <2>5. Revision(revision) /\ revision.state = outcome
    BY <2>2, <2>3 DEF Revision
  <2> HIDE DEF revision
  <2>6. result.code = "ok" /\ Succeeds(s, result.state, p, m.id)
    BY <2>4, <2>5, DecidedSucceeds
  <2> QED  BY <2>1, <2>6 DEF Sound
<1> QED  BY <1>1, <1>2

LEMMA Reviewing ==
  ASSUME NEW s, Company(s), NEW p, p.op = "reviews.decide", NEW m
  PROVE  Sound(DecideReview(s, p, m), s, p, m.id)
<1> DEFINE request == Current(s, p.request)
           d == BuildDecision(s, p.request, p.outcome, TRUE, m.id)
           w == [s EXCEPT !.decisions = Append(s.decisions, d)]
           t == ApplyCommitmentReserve(w, p.request, request.amount)
           data == [request |-> p.request, revision |-> p.revision, outcome |-> p.outcome]
           Met == /\ m.principal = "finance_manager" /\ p.request \in DOMAIN s.requests
                  /\ "department" \in request.scopes /\ p.revision = Len(s.requests[p.request])
                  /\ ~(request.state # "review_required" \/ HumanDecided(s, p.request))
                  /\ ~(p.outcome = "approved" /\ ~HasCapacity(s, request.amount - CommitmentAmount(s, p.request)))
<1>1. CASE ~Met
  <2>1. \E code \in Refusals : DecideReview(s, p, m) = Fail(code, s)
    BY <1>1 DEF DecideReview, Refusals
  <2> QED  BY <2>1, Failing
<1>2. CASE Met
  <2>1. DecideReview(s, p, m) = IF p.outcome = "approved" THEN Result("ok", t, data) ELSE Result("ok", w, data)
    BY <1>2 DEF DecideReview
  <2>2. d.by = m.id /\ d.human = TRUE /\ d.revision = p.revision
    BY <1>2 DEF BuildDecision
  <2>3. Revision(request)
    BY <1>2, CurrentRevision
  <2> HIDE DEF d
  <2>4. SameExcept(s, w, {"decisions"}) /\ Company(w) /\ w.decisions = Append(s.decisions, d)
    BY DecisionAdded
  <2> HIDE DEF w
  <2>5. SameExcept(w, t, {"commitments", "budget"}) /\ Company(t)
    BY <2>3, <2>4, Reserved DEF Revision
  <2> HIDE DEF t
  <2>6. t.decisions = w.decisions
    BY <2>5 DEF SameExcept, Fields
  <2>7. /\ SameExcept(s, w, {"clock", "ids", "requests", "decisions", "commitments", "budget"})
        /\ SameExcept(s, t, {"clock", "ids", "requests", "decisions", "commitments", "budget"})
    BY <2>4, <2>5 DEF SameExcept
  <2>8. Succeeds(s, w, p, m.id)
    BY <2>2, <2>4, <2>7, DecisionSucceeds
  <2>9. Succeeds(s, t, p, m.id)
    BY <2>2, <2>4, <2>5, <2>6, <2>7, DecisionSucceeds
  <2> QED  BY <2>1, <2>8, <2>9 DEF Sound, Result
<1> QED  BY <1>1, <1>2

\* A state with another record than a decision more.
LEMMA RecordSucceeds ==
  ASSUME NEW s, NEW t, Company(t), NEW p, p.op # "imports.ingest", NEW by, OneMore(s, t, by),
         t.memo = s.memo, t.decisions = s.decisions
  PROVE  Succeeds(s, t, p, by)
<1> HIDE DEF Company
<1> QED  BY DEF Succeeds

LEMMA Recording ==
  ASSUME NEW s, Company(s), NEW p, Parsed(p), p.op = "postings.record", NEW m
  PROVE  Sound(RecordPosting(s, p, m), s, p, m.id)
<1> DEFINE linked == p.request # NoRequest
           posting == [id |-> p.posting, amount |-> p.amount, request |-> p.request, at |-> p.at, revision |-> 1,
                       scopes |-> p.scopes, by |-> m.id]
           reserved == s.commitments[p.request]
           spent == [reserved EXCEPT !.outstanding = reserved.outstanding - p.amount, !.revision = reserved.revision + 1]
           after == IF linked THEN [s.commitments EXCEPT ![p.request] = RefreshCommitmentState(spent)] ELSE s.commitments
           u == [s EXCEPT !.postings = Append(s.postings, posting), !.commitments = after]
           t == RefreshBudget(u, s.budget.recognized + p.amount, s.budget.outstanding - IF linked THEN p.amount ELSE 0)
           Met == /\ ~HasId(s.postings, p.posting)
                  /\ p.scopes \subseteq Registered
                  /\ linked => /\ RequireExpectation(m.expected, "commitment", p.request)
                               /\ p.request \in DOMAIN s.commitments
                               /\ RevisionMatches(m.expected, s.commitments[p.request].revision)
                               /\ ~(p.amount > s.commitments[p.request].outstanding)
<1>1. CASE ~Met
  <2>1. \E code \in Refusals : RecordPosting(s, p, m) = Fail(code, s)
    BY <1>1 DEF RecordPosting, Refusals
  <2> QED  BY <2>1, Failing
<1>2. CASE Met
  <2>1. RecordPosting(s, p, m) = Result("ok", t, p.posting)
    BY <1>2 DEF RecordPosting
  <2>2. p.amount \in Int /\ posting.by = m.id
    BY DEF Parsed
  <2>3. \A r \in DOMAIN after : Commitment(after[r])
    <3>1. CASE linked
      <4>1. Commitment(reserved) /\ \A r \in DOMAIN s.commitments : Commitment(s.commitments[r])
        BY <1>2, <3>1 DEF Company
      <4> HIDE DEF reserved
      <4>2. Commitment(spent)
        BY <4>1, <2>2 DEF Commitment
      <4> HIDE DEF spent
      <4>3. Commitment(RefreshCommitmentState(spent))
        BY <4>2, Refreshed
      <4> QED  BY <3>1, <4>1, <4>3
    <3>2. CASE ~linked
      BY <3>2 DEF Company
    <3> QED  BY <3>1, <3>2
  <2>4. List(Append(s.postings, posting))
    BY Lengthened DEF Company
  <2> HIDE DEF after, posting
  <2>5. /\ SameExcept(s, u, {"postings", "commitments"})
        /\ u.postings = Append(s.postings, posting) /\ u.commitments = after
    BY DEF SameExcept, Company, Fields
  <2> HIDE DEF u
  <2>6. Company(u)
    BY <2>3, <2>4, <2>5 DEF SameExcept, Company, Fields
  <2>7. /\ s.budget.recognized + p.amount \in Int
        /\ s.budget.outstanding - (IF linked THEN p.amount ELSE 0) \in Int
    BY <2>2 DEF Company, Budget
  <2>8. SameExcept(u, t, {"budget"}) /\ Company(t)
    BY <2>6, <2>7, Budgeted
  <2> HIDE DEF t
  <2>9. /\ SameExcept(s, t, (Fields \ RecordFields) \cup {"postings"})
        /\ t.postings = Append(s.postings, posting) /\ t.memo = s.memo /\ t.decisions = s.decisions
    BY <2>5, <2>8 DEF SameExcept, Fields, RecordFields
  <2>10. OneMore(s, t, m.id)
    BY <2>2, <2>9, PostingMore
  <2>11. Succeeds(s, t, p, m.id)
    BY <2>8, <2>9, <2>10, RecordSucceeds
  <2> QED  BY <2>1, <2>11 DEF Sound, Result
<1> QED  BY <1>1, <1>2

LEMMA Correcting ==
  ASSUME NEW s, Company(s), NEW p, Parsed(p), p.op = "postings.correct", NEW m
  PROVE  Sound(CorrectPosting(s, p, m), s, p, m.id)
<1> DEFINE correction == [id |-> p.correction, posting |-> p.posting, amount |-> p.amount, at |-> p.at, by |-> m.id]
           u == [s EXCEPT !.corrections = Append(s.corrections, correction)]
           t == RefreshBudget(u, s.budget.recognized + p.amount, s.budget.outstanding)
<1>1. \/ \E code \in Refusals : CorrectPosting(s, p, m) = Fail(code, s)
      \/ CorrectPosting(s, p, m) = Result("ok", t, p.correction)
  BY DEF CorrectPosting, Refusals
<1>2. Succeeds(s, t, p, m.id)
  <2>1. p.amount \in Int /\ correction.by = m.id
    BY DEF Parsed
  <2>2. List(Append(s.corrections, correction))
    BY Lengthened DEF Company
  <2> HIDE DEF correction
  <2>3. SameExcept(s, u, {"corrections"}) /\ u.corrections = Append(s.corrections, correction)
    BY DEF SameExcept, Company, Fields
  <2> HIDE DEF u
  <2>4. Company(u)
    BY <2>2, <2>3 DEF SameExcept, Company, Fields
  <2>5. s.budget.recognized + p.amount \in Int /\ s.budget.outstanding \in Int
    BY <2>1 DEF Company, Budget
  <2>6. SameExcept(u, t, {"budget"}) /\ Company(t)
    BY <2>4, <2>5, Budgeted
  <2> HIDE DEF t
  <2>7. /\ SameExcept(s, t, (Fields \ RecordFields) \cup {"corrections"})
        /\ t.corrections = Append(s.corrections, correction) /\ t.memo = s.memo /\ t.decisions = s.decisions
    BY <2>3, <2>6 DEF SameExcept, Fields, RecordFields
  <2>8. OneMore(s, t, m.id)
    BY <2>1, <2>7, CorrectionMore
  <2> QED  BY <2>6, <2>7, <2>8, RecordSucceeds
<1> QED  BY <1>1, <1>2, Failing DEF Sound, Result

LEMMA Ingesting ==
  ASSUME NEW s, Company(s), NEW p, p.op = "imports.ingest", NEW m
  PROVE  Sound(IngestSource(s, p, m), s, p, m.id)
<1>1. \E data, ledger : \/ IngestSource(s, p, m) = Result("ok", s, data)
                        \/ IngestSource(s, p, m) = Result("ok", [s EXCEPT !.ledger = ledger], data)
  BY DEF IngestSource
<1>2. Succeeds(s, s, p, m.id)
  BY DEF Succeeds
<1>3. ASSUME NEW ledger
      PROVE  Succeeds(s, [s EXCEPT !.ledger = ledger], p, m.id)
  <2> DEFINE t == [s EXCEPT !.ledger = ledger]
  <2>1. SameExcept(s, t, {"ledger"})
    BY DEF SameExcept, Company, Fields
  <2> HIDE DEF t
  <2>2. Company(t) /\ t.memo = s.memo /\ t.decisions = s.decisions
    BY <2>1 DEF SameExcept, Company, Fields
  <2>3. \A id : Effects(t, id) = Effects(s, id)
    BY <2>1, SameRecords DEF SameExcept, Fields, RecordFields
  <2>4. Succeeds(s, t, p, m.id)
    BY <2>2, <2>3 DEF Succeeds
  <2> QED  BY <2>4 DEF t
<1> QED  BY <1>1, <1>2, <1>3 DEF Sound, Result

LEMMA Forecasting ==
  ASSUME NEW s, Company(s), NEW p, p.op = "forecasts.run", NEW m
  PROVE  Sound(RunForecast(s, p, m), s, p, m.id)
<1> DEFINE history == IF p.scope \in DOMAIN s.forecasts THEN s.forecasts[p.scope] ELSE <<>>
<1>1. CASE p.scope \notin Registered \/ p.horizon <= p.cutoff
  BY <1>1, Failing DEF RunForecast, Refusals
<1>2. CASE ~(p.scope \notin Registered \/ p.horizon <= p.cutoff)
  <2>1. PICK snapshot : /\ snapshot.by = m.id
                        /\ \E data : RunForecast(s, p, m) =
                             Result("ok", [s EXCEPT !.forecasts = Put(s.forecasts, p.scope, Append(history, snapshot)),
                                                    !.clock = s.clock + 1], data)
    <3> DEFINE base == Actual(s, p.scope, p.cutoff) + Outstanding(s, p.scope, p.cutoff)
               snapshot == [revision |-> IF history = <<>> THEN 1 ELSE Last(history).revision + 1,
                            kind |-> IF p.assumptions = <<>> THEN "baseline" ELSE "scenario",
                            total |-> Max({0, base + Total(p.assumptions, LAMBDA a : Adjustment(a, base))}), by |-> m.id]
    <3>1. RunForecast(s, p, m) = Result("ok", [s EXCEPT !.forecasts = Put(s.forecasts, p.scope, Append(history, snapshot)),
                                                        !.clock = s.clock + 1], snapshot.revision)
      BY <1>2 DEF RunForecast
    <3>2. snapshot.by = m.id
      OBVIOUS
    <3> QED  BY <3>1, <3>2
  <2> DEFINE longer == Append(history, snapshot)
             t == [s EXCEPT !.forecasts = Put(s.forecasts, p.scope, longer), !.clock = s.clock + 1]
  <2>2. List(history)
    BY ShortLists DEF Company
  <2>3. List(longer)
    BY <2>2, Lengthened
  <2>4. \A f \in DOMAIN Put(s.forecasts, p.scope, longer) : List(Put(s.forecasts, p.scope, longer)[f])
    BY <2>3 DEF Put, Company
  <2>5. SameExcept(s, t, {"forecasts", "clock"}) /\ t.forecasts = Put(s.forecasts, p.scope, longer)
    BY DEF SameExcept, Company, Fields
  <2> HIDE DEF t
  <2>6. Company(t)
    BY <2>4, <2>5 DEF SameExcept, Company, Fields
  <2>7. /\ SameExcept(s, t, (Fields \ RecordFields) \cup {"forecasts"})
        /\ t.memo = s.memo /\ t.decisions = s.decisions
    BY <2>5 DEF SameExcept, Fields, RecordFields
  <2>8. OneMore(s, t, m.id)
    BY <2>1, <2>2, <2>5, <2>7, ForecastMore
  <2>9. Succeeds(s, t, p, m.id)
    BY <2>6, <2>7, <2>8, RecordSucceeds
  <2> QED  BY <2>1, <2>9 DEF Sound, Result, t, longer
<1> QED  BY <1>1, <1>2

LEMMA Executing ==
  ASSUME NEW s, Company(s), NEW p, Parsed(p), NEW m
  PROVE  Sound(Execute(s, p, m), s, p, m.id)
<1>1. p.op \in Operations
  BY DEF Parsed
<1> QED  BY <1>1, Creating, Amending, Reviewing, Recording, Correcting, Ingesting, Forecasting DEF Execute, Operations

-----------------------------------------------------------------------------
(* What the router makes of it.                                            *)

\* A command that is carried out is remembered with its payload.
Carried(s, t, m) ==
  /\ Company(t) /\ m.id \notin DOMAIN s.memo
  /\ DOMAIN t.memo = DOMAIN s.memo \cup {m.id} /\ t.memo[m.id].payload = m.p
  /\ \A id \in DOMAIN s.memo : t.memo[id] = s.memo[id]
  /\ IF m.p.op = "imports.ingest" THEN \A id : Effects(t, id) = Effects(s, id) ELSE OneMore(s, t, m.id)
  /\ \A i \in DOMAIN t.decisions :
       LET d == t.decisions[i]
       IN  d.human = TRUE => \/ i \in DOMAIN s.decisions /\ d = s.decisions[i]
                             \/ m.p.op = "reviews.decide" /\ d.revision = m.p.revision

Answered(r, s, m) ==
  /\ r.code # "none"
  /\ \/ r.state = s /\ r.code # "ok" /\ (m.id \in DOMAIN s.memo => s.memo[m.id].payload # m.p \/ m.fault # "none"
                                                               \/ m.principal = "unknown")
     \/ r.state = s /\ r.code = "ok" /\ m.id \in DOMAIN s.memo /\ s.memo[m.id].payload = m.p
     \/ r.code = "ok" /\ Carried(s, r.state, m)

LEMMA Remembered ==
  ASSUME NEW s, NEW t, Company(t), NEW m, m.id \notin DOMAIN s.memo, Succeeds(s, t, m.p, m.id), NEW data
  PROVE  Carried(s, [t EXCEPT !.memo = Put(t.memo, m.id, [payload |-> m.p, data |-> data])], m)
<1> DEFINE memo == Put(t.memo, m.id, [payload |-> m.p, data |-> data])
           u == [t EXCEPT !.memo = memo]
<1>1. /\ DOMAIN memo = DOMAIN s.memo \cup {m.id} /\ memo[m.id].payload = m.p
      /\ \A id \in DOMAIN s.memo : memo[id] = s.memo[id]
  BY DEF Put, Succeeds
<1> HIDE DEF memo
<1>2. SameExcept(t, u, {"memo"}) /\ u.memo = memo
  BY DEF SameExcept, Company, Fields
<1> HIDE DEF u
<1>3. Company(u) /\ u.decisions = t.decisions
  BY <1>2 DEF SameExcept, Company, Fields
<1>4. \A id : Effects(u, id) = Effects(t, id)
  BY <1>2, SameRecords DEF SameExcept, Fields, RecordFields
<1>5. IF m.p.op = "imports.ingest" THEN \A id : Effects(u, id) = Effects(s, id) ELSE OneMore(s, u, m.id)
  BY <1>4 DEF Succeeds, OneMore
<1>6. Carried(s, u, m)
  <2> HIDE DEF Company
  <2> QED  BY <1>1, <1>2, <1>3, <1>5 DEF Carried, Succeeds
<1> QED  BY <1>6 DEF u, memo

LEMMA Dispatching ==
  ASSUME NEW s, Company(s), NEW m, Parsed(m.p), m.fault # "ok"
  PROVE  Answered(Dispatch(s, m), s, m)
<1> DEFINE r == Execute(s, m.p, m)
           t == [r.state EXCEPT !.memo = Put(r.state.memo, m.id, [payload |-> m.p, data |-> r.data])]
<1>1. CASE m.principal = "unknown" \/ m.fault # "none" \/ m.id \in DOMAIN s.memo
  BY <1>1 DEF Dispatch, Reply, Answered
<1>2. CASE ~(m.principal = "unknown" \/ m.fault # "none" \/ m.id \in DOMAIN s.memo)
  <2>1. Sound(r, s, m.p, m.id)
    BY Executing
  <2>2. Dispatch(s, m) = Reply(r.code, IF r.code = "ok" THEN t ELSE r.state)
    BY <1>2 DEF Dispatch
  <2> HIDE DEF r
  <2>3. CASE r.code = "ok"
    <3>1. Succeeds(s, r.state, m.p, m.id)
      BY <2>1, <2>3 DEF Sound, Refusals
    <3>2. Company(r.state)
      BY <3>1 DEF Succeeds
    <3>3. Carried(s, t, m)
      BY <1>2, <3>1, <3>2, Remembered
    <3> QED  BY <2>2, <2>3, <3>3 DEF Reply, Answered
  <2>4. CASE r.code # "ok"
    BY <1>2, <2>1, <2>2, <2>4 DEF Sound, Reply, Answered, Refusals
  <2> QED  BY <2>3, <2>4
<1> QED  BY <1>1, <1>2

LEMMA Seeded ==
  ASSUME NEW time, NEW ids
  PROVE  LET s == Seed(time, ids)
         IN  /\ Company(s) /\ s.memo = <<>> /\ DOMAIN s.memo = {}
             /\ \A id \in Nat \ {0} : Effects(s, id) = {}
             /\ \A i \in DOMAIN s.decisions : s.decisions[i].human = FALSE
<1> DEFINE s == Seed(time, ids)
<1>1. Company(s)
  <2>1. Fields \subseteq DOMAIN s
    BY DEF Seed, Fields
  <2>2. \A r \in DOMAIN s.requests :
         /\ List(s.requests[r]) /\ s.requests[r] # <<>>
         /\ \A i \in DOMAIN s.requests[r] : Revision(s.requests[r][i])
    BY BudgetAssumption, ShortLists DEF Seed, Revision
  <2>3. \A r \in DOMAIN s.commitments : Commitment(s.commitments[r])
    BY BudgetAssumption DEF Seed, Commitment
  <2>4. Budget(s.budget)
    BY BudgetAssumption DEF Seed, Budget
  <2>5. List(s.decisions) /\ List(s.postings) /\ List(s.corrections) /\ \A f \in DOMAIN s.forecasts : List(s.forecasts[f])
    BY ShortLists DEF Seed
  <2> QED  BY <2>1, <2>2, <2>3, <2>4, <2>5 DEF Company
<1>2. s.memo = <<>> /\ DOMAIN s.memo = {}
  BY ShortLists DEF Seed
<1>3. ASSUME NEW id \in Nat \ {0}
      PROVE  Effects(s, id) = {}
  <2>1. Of(s.decisions, id) = {} /\ Of(s.postings, id) = {} /\ Of(s.corrections, id) = {}
        /\ \A f \in DOMAIN s.forecasts : Of(s.forecasts[f], id) = {}
    BY ShortLists DEF Seed, Of
  <2> QED  BY <2>1 DEF Effects
<1>4. \A i \in DOMAIN s.decisions : s.decisions[i].human = FALSE
  BY ShortLists DEF Seed
<1> QED  BY <1>1, <1>2, <1>3, <1>4

-----------------------------------------------------------------------------
(***************************************************************************)
(* Callers and the router: MockService.                                    *)
(***************************************************************************)
\* The contract schemas have parsed every payload, and a fault header names an error.
InputsAreParsed == \A input \in Inputs(company) : Parsed(input.p) /\ input.fault # "ok"

Message(m) ==
  /\ {"id", "client", "attempt", "p", "expected", "principal", "fault"} \subseteq DOMAIN m
  /\ m.id \in CommandIds /\ m.client \in Clients /\ Parsed(m.p) /\ m.fault # "ok"

\* A command that was carried out left one record, but an import none; any other left nothing.
EffectsInv ==
  \A id \in CommandIds :
    IF id \in DOMAIN company.memo /\ company.memo[id].payload.op # "imports.ingest"
    THEN \E x : Effects(company, id) = {x}
    ELSE Effects(company, id) = {}

ClientInv(c) ==
  /\ client[c].phase \in {"idle", "waiting", "unsure", "done", "failed"}
  /\ client[c].phase \in {"waiting", "unsure"} => Message(client[c].m)
  /\ client[c].phase = "done" =>
       /\ client[c].id \in CommandIds /\ client[c].epoch \in Nat /\ client[c].epoch <= resets
       /\ client[c].epoch = resets => /\ client[c].id \in DOMAIN company.memo
                                      /\ company.memo[client[c].id].payload.op = client[c].op

MockInv ==
  /\ Company(company) /\ EffectsInv
  /\ calls \in Nat /\ resets \in Nat
  /\ \A m \in wire : Message(m)
  /\ client = [c \in Clients |-> client[c]]
  /\ \A c \in Clients : ClientInv(c)

LEMMA MockStarts == MockInit => MockInv
<1> SUFFICES ASSUME MockInit  PROVE MockInv
  OBVIOUS
<1>1. Company(company) /\ DOMAIN company.memo = {} /\ \A id \in Nat \ {0} : Effects(company, id) = {}
  BY Seeded DEF MockInit
<1>2. CommandIds \subseteq Nat \ {0}
  BY CallsAssumption DEF CommandIds
<1>3. EffectsInv
  BY <1>1, <1>2 DEF EffectsInv
<1>4. \A c \in Clients : client[c].phase = "idle"
  BY DEF MockInit, Idle
<1>5. \A c \in Clients : ClientInv(c)
  BY <1>4 DEF ClientInv
<1> HIDE DEF Company
<1> QED  BY <1>1, <1>3, <1>5 DEF MockInit, MockInv

LEMMA Sending ==
  ASSUME MockInv, NEW c \in Clients, NEW id \in {1, calls + 1}, NEW input,
         Parsed(input.p), input.fault # "ok", Send(c, id, input)
  PROVE  MockInv'
<1> DEFINE m == [id |-> id, client |-> c, attempt |-> 1, p |-> input.p, expected |-> input.expected,
                 principal |-> input.principal, fault |-> input.fault]
           waiting == [phase |-> "waiting", m |-> m]
<1>1. /\ wire' = wire \cup {m} /\ client' = [client EXCEPT ![c] = waiting] /\ calls' = calls + 1
      /\ UNCHANGED <<company, timeouts, resets>> /\ calls < MaxCalls
  BY DEF Send
<1>2. Message(m)
  BY <1>1, CallsAssumption DEF Message, CommandIds, MockInv
<1>3. waiting.phase = "waiting" /\ waiting.m = m
  OBVIOUS
<1> HIDE DEF m, waiting
<1>4. client'[c] = waiting /\ \A b \in Clients : b # c => client'[b] = client[b]
  BY <1>1 DEF MockInv
<1>5. \A b \in Clients : ClientInv(b)'
  BY <1>1, <1>2, <1>3, <1>4 DEF MockInv, ClientInv
<1>6. client' = [b \in Clients |-> client'[b]]
  BY <1>1 DEF MockInv
<1>7. Company(company)' /\ EffectsInv'
  BY <1>1 DEF MockInv, EffectsInv
<1> HIDE DEF Company
<1> QED  BY <1>1, <1>2, <1>5, <1>6, <1>7 DEF MockInv

\* Giving up, and sending again.
LEMMA WaitingChanges ==
  ASSUME MockInv, NEW c \in Clients, Timeout(c) \/ Resend(c)
  PROVE  MockInv'
<1>1. client[c].phase \in {"waiting", "unsure"} /\ UNCHANGED <<company, calls, resets>>
  BY DEF Timeout, Resend
<1>2. Message(client[c].m)
  BY <1>1 DEF MockInv, ClientInv
<1>3. PICK m : /\ Message(m) /\ wire' \subseteq wire \cup {m}
               /\ \E phase \in {"waiting", "unsure"} : client' = [client EXCEPT ![c] = [phase |-> phase, m |-> m]]
  <2>1. CASE Timeout(c)
    BY <1>2, <2>1 DEF Timeout
  <2>2. CASE Resend(c)
    <3> DEFINE old == client[c].m
               m == [old EXCEPT !.attempt = old.attempt + 1, !.fault = "none"]
    <3>1. wire' = wire \cup {m} /\ client' = [client EXCEPT ![c] = [phase |-> "waiting", m |-> m]]
      BY <2>2 DEF Resend
    <3>2. Message(m)
      BY <1>2 DEF Message
    <3> QED  BY <3>1, <3>2
  <2> QED  BY <2>1, <2>2
<1>4. PICK phase \in {"waiting", "unsure"} : client' = [client EXCEPT ![c] = [phase |-> phase, m |-> m]]
  BY <1>3
<1>5. /\ client'[c].phase \in {"waiting", "unsure"} /\ client'[c].m = m
      /\ \A b \in Clients : b # c => client'[b] = client[b]
  BY <1>4 DEF MockInv
<1>6. \A b \in Clients : ClientInv(b)'
  BY <1>1, <1>3, <1>5 DEF MockInv, ClientInv
<1>7. client' = [b \in Clients |-> client'[b]]
  BY <1>4 DEF MockInv
<1>8. Company(company)' /\ EffectsInv'
  BY <1>1 DEF MockInv, EffectsInv
<1> HIDE DEF Company, Message
<1> QED  BY <1>1, <1>3, <1>6, <1>7, <1>8 DEF MockInv

LEMMA Resetting == MockInv /\ ResetCompany => MockInv'
<1> SUFFICES ASSUME MockInv, ResetCompany  PROVE MockInv'
  OBVIOUS
<1>1. /\ Company(company)' /\ DOMAIN company'.memo = {}
      /\ \A id \in Nat \ {0} : Effects(company', id) = {}
  BY Seeded DEF ResetCompany, Reset
<1>2. EffectsInv'
  BY <1>1, CallsAssumption DEF EffectsInv, CommandIds
<1>3. resets' = resets + 1 /\ UNCHANGED <<wire, client, calls>>
  BY DEF ResetCompany
<1>4. \A c \in Clients : ClientInv(c)'
  BY <1>3 DEF MockInv, ClientInv
<1> HIDE DEF Company
<1> QED  BY <1>1, <1>2, <1>3, <1>4 DEF MockInv

LEMMA Handling ==
  ASSUME MockInv, NEW m \in wire, Handle(m)
  PROVE  /\ MockInv'
         /\ \A c \in Clients : client[c].phase = "waiting" /\ client'[c].phase = "failed" => company' = company
<1> DEFINE reply == Dispatch(company, m)
           told == CASE reply.code = "ok" -> [phase |-> "done", id |-> m.id, op |-> m.p.op, epoch |-> resets]
                     [] IsRetryable(reply.code) -> [phase |-> "unsure", m |-> m]
                     [] OTHER -> [phase |-> "failed"]
           answered == client[m.client].phase = "waiting" /\ client[m.client].m = m
<1>1. Message(m)
  BY DEF MockInv
<1>2. Answered(reply, company, m)
  BY <1>1, Dispatching DEF MockInv, Message
<1>3. /\ wire' = wire \ {m} /\ company' = reply.state /\ UNCHANGED <<calls, resets>>
      /\ client' = IF ~answered THEN client ELSE [client EXCEPT ![m.client] = told]
  BY DEF Handle
<1>4. CASE reply.code = "ok"
  <2>1. told = [phase |-> "done", id |-> m.id, op |-> m.p.op, epoch |-> resets]
    BY <1>4 DEF IsRetryable
  <2>2. /\ m.id \in DOMAIN company'.memo /\ company'.memo[m.id].payload = m.p
        /\ \A id \in DOMAIN company.memo : id \in DOMAIN company'.memo /\ company'.memo[id] = company.memo[id]
    BY <1>2, <1>3, <1>4 DEF Answered, Carried
  <2> HIDE DEF reply, told
  <2>3. EffectsInv' /\ Company(company)'
    <3>1. CASE company' = company
      BY <3>1 DEF MockInv, EffectsInv
    <3>2. CASE Carried(company, company', m)
      <4>1. /\ DOMAIN company'.memo = DOMAIN company.memo \cup {m.id} /\ m.id \notin DOMAIN company.memo
            /\ Company(company)'
        BY <3>2 DEF Carried
      <4>2. ASSUME NEW id \in CommandIds, id # m.id
            PROVE  Effects(company', id) = Effects(company, id)
        BY <3>2, <4>2 DEF Carried, OneMore
      <4>3. Effects(company, m.id) = {}
        BY <1>1, <4>1 DEF MockInv, EffectsInv, Message
      <4>4. IF m.p.op = "imports.ingest" THEN Effects(company', m.id) = {} ELSE \E x : Effects(company', m.id) = {x}
        BY <3>2, <4>3 DEF Carried, OneMore
      <4>5. ASSUME NEW id \in CommandIds
            PROVE  IF id \in DOMAIN company'.memo /\ company'.memo[id].payload.op # "imports.ingest"
                   THEN \E x : Effects(company', id) = {x}
                   ELSE Effects(company', id) = {}
        <5>1. CASE id = m.id
          BY <2>2, <4>4, <5>1
        <5>2. CASE id # m.id
          <6>1. Effects(company', id) = Effects(company, id)  BY <4>2, <5>2
          <6>2. id \in DOMAIN company'.memo <=> id \in DOMAIN company.memo  BY <4>1, <5>2
          <6>3. id \in DOMAIN company.memo => company'.memo[id] = company.memo[id]  BY <2>2
          <6>4. IF id \in DOMAIN company.memo /\ company.memo[id].payload.op # "imports.ingest"
                THEN \E x : Effects(company, id) = {x}
                ELSE Effects(company, id) = {}
            BY DEF MockInv, EffectsInv
          <6> QED  BY <6>1, <6>2, <6>3, <6>4
        <5> QED  BY <5>1, <5>2
      <4> QED  BY <4>1, <4>5 DEF EffectsInv
    <3> QED  BY <1>2, <1>3, <1>4, <3>1, <3>2 DEF Answered
  <2>4. \A c \in Clients : ClientInv(c)' /\ ~(client[c].phase = "waiting" /\ client'[c].phase = "failed")
    <3> SUFFICES ASSUME NEW c \in Clients
                 PROVE  ClientInv(c)' /\ ~(client[c].phase = "waiting" /\ client'[c].phase = "failed")
      OBVIOUS
    <3>1. ClientInv(c) /\ resets \in Nat
      BY DEF MockInv
    <3>2. CASE client'[c] = client[c]
      BY <1>3, <2>2, <3>1, <3>2 DEF ClientInv
    <3>3. CASE client'[c] = told
      BY <1>1, <1>3, <2>1, <2>2, <3>1, <3>3 DEF ClientInv, Message
    <3>4. client'[c] = client[c] \/ client'[c] = told
      BY <1>3 DEF MockInv
    <3> QED  BY <3>2, <3>3, <3>4
  <2>5. client' = [c \in Clients |-> client'[c]]
    BY <1>3 DEF MockInv
  <2> HIDE DEF Company, answered
  <2> QED  BY <1>3, <2>3, <2>4, <2>5 DEF MockInv
<1>5. CASE reply.code # "ok"
  <2>1. company' = company
    BY <1>2, <1>3, <1>5 DEF Answered
  <2>2. told = [phase |-> "unsure", m |-> m] \/ told = [phase |-> "failed"]
    BY <1>5 DEF IsRetryable
  <2> HIDE DEF reply, told
  <2>3. EffectsInv' /\ Company(company)'
    BY <2>1 DEF MockInv, EffectsInv
  <2>4. \A c \in Clients : ClientInv(c)'
    <3> SUFFICES ASSUME NEW c \in Clients
                 PROVE  ClientInv(c)'
      OBVIOUS
    <3>1. ClientInv(c)
      BY DEF MockInv
    <3>2. CASE client'[c] = client[c]
      BY <1>3, <2>1, <3>1, <3>2 DEF ClientInv
    <3>3. CASE client'[c] = told
      BY <1>1, <2>2, <3>3 DEF ClientInv
    <3>4. client'[c] = client[c] \/ client'[c] = told
      BY <1>3 DEF MockInv
    <3> QED  BY <3>2, <3>3, <3>4
  <2>5. client' = [c \in Clients |-> client'[c]]
    BY <1>3 DEF MockInv
  <2> HIDE DEF Company, answered
  <2> QED  BY <1>3, <2>1, <2>3, <2>4, <2>5 DEF MockInv
<1> QED  BY <1>4, <1>5

LEMMA MockStep == MockInv /\ InputsAreParsed /\ [MockNext]_svars => MockInv'
<1> SUFFICES ASSUME MockInv, InputsAreParsed, [MockNext]_svars  PROVE MockInv'
  OBVIOUS
<1>1. CASE UNCHANGED svars
  BY <1>1 DEF svars, MockInv, EffectsInv, ClientInv
<1>2. ASSUME NEW c \in Clients, NEW id \in {1, calls + 1}, NEW input \in Inputs(company), Send(c, id, input)
      PROVE  MockInv'
  BY <1>2, Sending DEF InputsAreParsed
<1>3. ASSUME NEW c \in Clients, Timeout(c) \/ Resend(c)
      PROVE  MockInv'
  BY <1>3, WaitingChanges
<1> QED  BY <1>1, <1>2, <1>3, Handling, Resetting DEF MockNext

(***************************************************************************)
(* Whatever parsed commands clients send, give up on and send again, and   *)
(* whatever copies of them the server handles, a command leaves at most    *)
(* one record between two resets, and one if its caller was told so.       *)
(***************************************************************************)
THEOREM CommandsAreCarriedOutOnce == MockSpec /\ []InputsAreParsed => []CommandTakesEffectOnce
<1>1. MockInv => CommandTakesEffectOnce
  <2> SUFFICES ASSUME MockInv  PROVE CommandTakesEffectOnce
    OBVIOUS
  <2>1. ASSUME NEW id \in CommandIds
        PROVE  /\ Cardinality(Effects(company, id)) <= 1
               /\ id \in DOMAIN company.memo /\ company.memo[id].payload.op # "imports.ingest"
                    => Cardinality(Effects(company, id)) = 1
    <3> DEFINE left == Effects(company, id)
    <3>1. \/ left = {} /\ ~(id \in DOMAIN company.memo /\ company.memo[id].payload.op # "imports.ingest")
          \/ \E x : left = {x}
      BY DEF MockInv, EffectsInv
    <3> HIDE DEF left
    <3>2. \A x : left = {x} => Cardinality(left) = 1
      BY FS_Singleton
    <3>3. left = {} => Cardinality(left) = 0
      BY FS_EmptySet
    <3> QED  BY <3>1, <3>2, <3>3 DEF left
  <2> QED  BY <2>1 DEF MockInv, ClientInv, CommandTakesEffectOnce
<1> QED  BY <1>1, MockStarts, MockStep, PTL DEF MockSpec

(***************************************************************************)
(* A command that is refused, for whatever reason and after whatever copy  *)
(* of it, leaves the company as it was.                                    *)
(***************************************************************************)
THEOREM RefusalsChangeNothing == MockSpec /\ []InputsAreParsed => FailureChangesNothing
<1> DEFINE Harmless == \A c \in Clients :
                         client[c].phase = "waiting" /\ client'[c].phase = "failed" => company' = company
<1>1. MockInv /\ [MockNext]_svars => [Harmless]_svars
  <2> SUFFICES ASSUME MockInv, MockNext, NEW c \in Clients,
                      client[c].phase = "waiting", client'[c].phase = "failed"
               PROVE  company' = company
    OBVIOUS
  <2>1. CASE UNCHANGED company
    BY <2>1
  <2>2. ASSUME NEW m \in wire, Handle(m)
        PROVE  company' = company
    BY <2>2, Handling
  <2>3. CASE ResetCompany
    BY <2>3 DEF ResetCompany
  <2> QED  BY <2>1, <2>2, <2>3 DEF MockNext, Send, Timeout, Resend
<1> QED  BY <1>1, MockStarts, MockStep, PTL DEF MockSpec, FailureChangesNothing, Harmless

-----------------------------------------------------------------------------
(***************************************************************************)
(* The budget account and the records it is kept for: MockCompany.         *)
(***************************************************************************)
OutstandingSum(m) == SumFunction([r \in DOMAIN m |-> m[r].outstanding])

\* No commitment is larger than its request, or has more outstanding than it is.
Reservations(s) ==
  /\ s.ids \in Nat \ {0} /\ DOMAIN s.requests \subseteq 0 .. s.ids - 1
  /\ \A r \in DOMAIN s.requests : Current(s, r).amount \in Nat
  /\ IsFiniteSet(DOMAIN s.commitments) /\ DOMAIN s.commitments \subseteq DOMAIN s.requests
  /\ \A r \in DOMAIN s.commitments :
       LET c == s.commitments[r]
       IN  c.amount \in Nat /\ c.amount <= Current(s, r).amount /\ c.outstanding \in 0 .. c.amount

Amounts(x) == \A i \in DOMAIN x : x[i].amount \in Int

Balanced(s) ==
  /\ Amounts(s.postings) /\ Amounts(s.corrections)
  /\ s.budget.outstanding = OutstandingSum(s.commitments)
  /\ s.budget.recognized = Total(s.postings, AmountOf) + Total(s.corrections, AmountOf)
  /\ s.budget.available = Authorized - s.budget.recognized - s.budget.outstanding

Books(s) == Reservations(s) /\ Balanced(s)

LEMMA TotalOfMore ==
  ASSUME NEW x, List(x), Amounts(x), NEW e, e.amount \in Int
  PROVE  /\ Total(Append(x, e), AmountOf) = Total(x, AmountOf) + e.amount
         /\ Total(x, AmountOf) \in Int /\ Amounts(Append(x, e))
<1> DEFINE y == Append(x, e)
           S == DOMAIN x
           n == Len(x) + 1
           f == [i \in DOMAIN y |-> y[i].amount]
           g == [i \in S |-> x[i].amount]
<1>1. /\ Len(x) \in Nat /\ S = 1 .. Len(x) /\ DOMAIN y = S \cup {n}
      /\ \A i \in S : y[i] = x[i]
      /\ y[n] = e
  BY Lengthened
<1>2. IsFiniteSet(S) /\ n \notin S
  BY <1>1, FS_Interval
<1> HIDE DEF y, n, S
<1>3. Amounts(y)
  BY <1>1 DEF Amounts, S
<1>4. f \in [S \cup {n} -> Int] /\ g \in [S -> Int] /\ \A i \in S : f[i] = g[i]
  BY <1>1, <1>3 DEF Amounts, S
<1>5. f[n] = e.amount
  BY <1>1
<1>6. Total(y, AmountOf) = SumFunction(f) /\ Total(x, AmountOf) = SumFunction(g)
  BY DEF Total, AmountOf, S
<1> HIDE DEF f, g
<1>7. SumFunction(f) = SumFunction(g) + f[n] /\ SumFunction(g) \in Int
  BY <1>2, <1>4, SumExtends
<1> QED  BY <1>3, <1>5, <1>6, <1>7 DEF y

LEMMA TotalType ==
  ASSUME NEW x, List(x), Amounts(x)
  PROVE  Total(x, AmountOf) \in Int
<1> DEFINE e == [amount |-> 0]
<1>1. e.amount \in Int
  OBVIOUS
<1> HIDE DEF e
<1> QED  BY <1>1, TotalOfMore

LEMMA TotalOfFew ==
  ASSUME NEW e, e.amount \in Int
  PROVE  /\ Total(<<>>, AmountOf) = 0 /\ Amounts(<<>>)
         /\ Total(<<e>>, AmountOf) = e.amount /\ Amounts(<<e>>)
<1>1. List(<<>>) /\ DOMAIN <<>> = {} /\ Amounts(<<>>)
  BY ShortLists DEF Amounts
<1>2. Total(<<>>, AmountOf) = 0
  <2> DEFINE f == [i \in DOMAIN <<>> |-> AmountOf(<<>>[i])]
             S == DOMAIN <<>>
  <2>1. Total(<<>>, AmountOf) = SumFunction(f) /\ f \in [S -> Int] /\ \A i \in S : f[i] = 0
    BY <1>1 DEF Total
  <2>2. IsFiniteSet(S)
    BY <1>1, FS_EmptySet
  <2> HIDE DEF f, S
  <2> QED  BY <2>1, <2>2, SumOfZeros
<1>3. Append(<<>>, e) = <<e>>
  OBVIOUS
<1> DEFINE x == <<>>
<1>4. List(x) /\ Amounts(x) /\ Total(x, AmountOf) = 0 /\ Append(x, e) = <<e>>
  BY <1>1, <1>2, <1>3
<1> HIDE DEF x
<1>5. Total(Append(x, e), AmountOf) = Total(x, AmountOf) + e.amount /\ Amounts(Append(x, e))
  BY <1>4, TotalOfMore
<1>6. Total(<<e>>, AmountOf) = e.amount /\ Amounts(<<e>>)
  BY <1>4, <1>5
<1> QED  BY <1>1, <1>2, <1>6

\* What the books do not depend on.
LEMMA SameBooks ==
  ASSUME NEW s, Company(s), Books(s), NEW t,
         SameExcept(s, t, {"decisions", "ledger", "forecasts", "clock", "memo", "ids"}),
         t.ids \in Nat, t.ids >= s.ids
  PROVE  Books(t)
<1>1. /\ t.requests = s.requests /\ t.commitments = s.commitments /\ t.budget = s.budget
      /\ t.postings = s.postings /\ t.corrections = s.corrections
  BY DEF SameExcept, Fields
<1>2. \A r : Current(t, r) = Current(s, r)
  BY <1>1 DEF Current
<1>3. Reservations(t)
  <2>1. DOMAIN s.requests \subseteq 0 .. t.ids - 1
    BY DEF Books, Reservations
  <2> QED  BY <1>1, <1>2, <2>1 DEF Books, Reservations
<1>4. Balanced(t)
  BY <1>1 DEF Books, Balanced, OutstandingSum
<1> QED  BY <1>3, <1>4 DEF Books

LEMMA BudgetIs ==
  ASSUME NEW s, Company(s), NEW recognized \in Int, NEW outstanding \in Int
  PROVE  LET b == RefreshBudget(s, recognized, outstanding).budget
         IN  /\ b.recognized = recognized /\ b.outstanding = outstanding
             /\ b.available = Authorized - recognized - outstanding
<1> DEFINE b == [recognized |-> recognized, outstanding |-> outstanding,
                 available |-> Authorized - recognized - outstanding, revision |-> s.budget.revision + 1]
<1>1. RefreshBudget(s, recognized, outstanding).budget = b
  BY DEF RefreshBudget, Company, Fields
<1> QED  BY <1>1

\* A commitment that changes, or a new one, changes what is outstanding as much.
LEMMA OutstandingMore ==
  ASSUME NEW m, IsFiniteSet(DOMAIN m), \A q \in DOMAIN m : m[q].outstanding \in Int,
         NEW r, NEW c, c.outstanding \in Int,
         NEW had, had = IF r \in DOMAIN m THEN m[r].outstanding ELSE 0
  PROVE  /\ OutstandingSum(m) \in Int
         /\ OutstandingSum(Put(m, r, c)) = OutstandingSum(m) + c.outstanding - had
<1> DEFINE n == Put(m, r, c)
           S == DOMAIN m
           f == [q \in S |-> m[q].outstanding]
           T == DOMAIN n
           g == [q \in T |-> n[q].outstanding]
<1>1. T = S \cup {r} /\ n[r] = c /\ \A q \in S \ {r} : n[q] = m[q]
  BY DEF Put
<1> HIDE DEF n
<1>2. f \in [S -> Int] /\ g \in [T -> Int]
  BY <1>1
<1>3. (\A q \in S \ {r} : g[q] = f[q]) /\ g[r] = c.outstanding
  BY <1>1
<1>4. r \in S => f[r] = had
  OBVIOUS
<1>5. OutstandingSum(m) = SumFunction(f) /\ OutstandingSum(n) = SumFunction(g)
  BY DEF OutstandingSum
<1>6. IsFiniteSet(S) /\ (r \notin S => had = 0)
  OBVIOUS
<1> HIDE DEF f, g, S, T
<1>7. CASE r \in S
  <2>1. T = S
    BY <1>1, <1>7
  <2>2. g \in [S -> Int]
    BY <1>2, <2>1
  <2>3. /\ SumFunction(g) = SumFunction(f) - f[r] + g[r] /\ SumFunction(f) \in Int
    BY <1>2, <1>3, <1>6, <1>7, <2>2, SumChanges
  <2>4. f[r] \in Int
    BY <1>2, <1>7
  <2> QED  BY <1>3, <1>4, <1>5, <1>7, <2>3, <2>4 DEF n
<1>8. CASE r \notin S
  <2>1. SumFunction(g) = SumFunction(f) + g[r] /\ SumFunction(f) \in Int
    <3>1. g \in [S \cup {r} -> Int] /\ \A q \in S : g[q] = f[q]
      BY <1>1, <1>2, <1>3, <1>8
    <3> QED  BY <1>2, <1>6, <1>8, <3>1, SumExtends
  <2> QED  BY <1>3, <1>5, <1>6, <1>8, <2>1 DEF n
<1> QED  BY <1>7, <1>8

\* A commitment of a request is made or changed, and is not larger than the request.
LEMMA CommitmentIsPut ==
  ASSUME NEW s, Books(s), NEW r \in DOMAIN s.requests, NEW c, NEW t,
         c.amount \in Nat, c.amount <= Current(s, r).amount, c.outstanding \in 0 .. c.amount,
         t.commitments = Put(s.commitments, r, c), t.requests = s.requests, t.ids = s.ids,
         NEW had, had = IF r \in DOMAIN s.commitments THEN s.commitments[r].outstanding ELSE 0
  PROVE  /\ Reservations(t) /\ OutstandingSum(s.commitments) \in Int
         /\ OutstandingSum(t.commitments) = OutstandingSum(s.commitments) + c.outstanding - had
<1>1. /\ IsFiniteSet(DOMAIN s.commitments)
      /\ \A q \in DOMAIN s.commitments : s.commitments[q].outstanding \in Int
  BY DEF Books, Reservations
<1>2. /\ DOMAIN t.commitments = DOMAIN s.commitments \cup {r} /\ t.commitments[r] = c
      /\ \A q \in DOMAIN s.commitments \ {r} : t.commitments[q] = s.commitments[q]
  BY DEF Put
<1>3. \A q : Current(t, q) = Current(s, q)
  BY DEF Current
<1>4. IsFiniteSet(DOMAIN t.commitments)
  BY <1>1, <1>2, FS_AddElement
<1>5. Reservations(t)
  BY <1>2, <1>3, <1>4 DEF Books, Reservations
<1>6. c.outstanding \in Int
  OBVIOUS
<1> QED  BY <1>1, <1>5, <1>6, OutstandingMore

LEMMA ReservedBooks ==
  ASSUME NEW s, Company(s), Books(s), NEW r \in DOMAIN s.requests, NEW amount \in Nat,
         Current(s, r).amount = amount
  PROVE  Books(ApplyCommitmentReserve(s, r, amount))
<1> DEFINE delta == amount - CommitmentAmount(s, r)
           old == s.commitments[r]
           c == IF r \in DOMAIN s.commitments
                THEN [old EXCEPT !.amount = amount, !.outstanding = old.outstanding + delta,
                                 !.revision = old.revision + 1]
                ELSE [amount |-> amount, outstanding |-> amount, revision |-> 1,
                      state |-> "outstanding", created |-> s.clock]
           k == RefreshCommitmentState(c)
           u == [s EXCEPT !.commitments = Put(s.commitments, r, k)]
           t == RefreshBudget(u, s.budget.recognized, s.budget.outstanding + delta)
           had == IF r \in DOMAIN s.commitments THEN old.outstanding ELSE 0
<1>1. ApplyCommitmentReserve(s, r, amount) = t
  BY DEF ApplyCommitmentReserve
<1>2. Commitment(c) /\ c.amount = amount /\ c.outstanding \in 0 .. amount /\ c.outstanding = had + delta
  <2>1. CASE r \in DOMAIN s.commitments
    <3>1. /\ CommitmentAmount(s, r) = old.amount /\ Commitment(old)
          /\ old.amount \in Nat /\ old.amount <= amount /\ old.outstanding \in 0 .. old.amount
      BY <2>1 DEF CommitmentAmount, Company, Books, Reservations
    <3> HIDE DEF old
    <3>2. /\ c.amount = amount /\ c.outstanding = old.outstanding + delta
          /\ {"amount", "outstanding", "revision", "state"} \subseteq DOMAIN c
      BY <2>1, <3>1 DEF Commitment
    <3> HIDE DEF c
    <3> QED  BY <2>1, <3>1, <3>2 DEF Commitment
  <2>2. CASE r \notin DOMAIN s.commitments
    BY <2>2 DEF CommitmentAmount, Commitment
  <2> QED  BY <2>1, <2>2
<1>3. delta \in Int /\ had \in Int
  BY Reserving DEF Books, Reservations
<1> HIDE DEF delta, c
<1>4. Commitment(k) /\ k.amount = amount /\ k.outstanding = c.outstanding
  BY <1>2, Refreshed
<1> HIDE DEF k
<1>5. SameExcept(s, u, {"commitments"}) /\ Company(u)
  BY <1>4, Committed
<1>6. u.commitments = Put(s.commitments, r, k)
  BY DEF Company, Fields
<1>7. s.budget.recognized \in Int /\ s.budget.outstanding \in Int
  BY DEF Company, Budget
<1> HIDE DEF u, had
<1>8. SameExcept(u, t, {"budget"})
  BY <1>3, <1>5, <1>7, Budgeted
<1>9. /\ t.budget.recognized = s.budget.recognized
      /\ t.budget.outstanding = s.budget.outstanding + delta
      /\ t.budget.available = Authorized - s.budget.recognized - (s.budget.outstanding + delta)
  BY <1>3, <1>5, <1>7, BudgetIs
<1> HIDE DEF t
<1>10. /\ t.commitments = Put(s.commitments, r, k) /\ t.requests = s.requests /\ t.ids = s.ids
       /\ t.postings = s.postings /\ t.corrections = s.corrections
  BY <1>5, <1>6, <1>8 DEF SameExcept, Fields
<1>11. Reservations(t) /\ OutstandingSum(s.commitments) \in Int /\ OutstandingSum(t.commitments) = OutstandingSum(s.commitments) + k.outstanding - had
  BY <1>2, <1>4, <1>10, CommitmentIsPut DEF had
<1>12. OutstandingSum(t.commitments) = OutstandingSum(s.commitments) + delta
  BY <1>2, <1>3, <1>4, <1>11
<1>13. Balanced(t)
  BY <1>9, <1>10, <1>12 DEF Books, Balanced
<1> QED  BY <1>1, <1>11, <1>13 DEF Books

LEMMA RevisionBooks ==
  ASSUME NEW s, Company(s), Books(s), NEW r \in 0 .. s.ids - 1, NEW revision, revision.amount \in Nat,
         r \in DOMAIN s.requests => Current(s, r).amount <= revision.amount,
         NEW t, SameExcept(s, t, {"requests", "decisions", "clock"}),
         t.requests = Put(s.requests, r, IF r \in DOMAIN s.requests
                                         THEN Append(s.requests[r], revision) ELSE <<revision>>)
  PROVE  Books(t) /\ r \in DOMAIN t.requests /\ Current(t, r) = revision
<1> DEFINE history == IF r \in DOMAIN s.requests THEN Append(s.requests[r], revision) ELSE <<revision>>
<1>1. List(history) /\ history # <<>> /\ history[Len(history)] = revision
  <2>1. CASE r \in DOMAIN s.requests
    <3>1. List(s.requests[r])
      BY <2>1 DEF Company
    <3> QED  BY <2>1, <3>1, Lengthened
  <2>2. CASE r \notin DOMAIN s.requests
    BY <2>2, ShortLists
  <2> QED  BY <2>1, <2>2
<1> HIDE DEF history
<1>2. /\ DOMAIN t.requests = DOMAIN s.requests \cup {r} /\ t.requests[r] = history
      /\ \A q \in DOMAIN s.requests \ {r} : t.requests[q] = s.requests[q]
  BY DEF Put, history
<1>3. Current(t, r) = revision
  BY <1>1, <1>2, LatestOf DEF Current
<1>4. \A q \in DOMAIN s.requests \ {r} : Current(t, q) = Current(s, q)
  BY <1>2 DEF Current
<1>5. /\ t.commitments = s.commitments /\ t.budget = s.budget /\ t.ids = s.ids
      /\ t.postings = s.postings /\ t.corrections = s.corrections
  BY DEF SameExcept, Fields
<1>6. Reservations(t)
  <2>1. \A q \in DOMAIN t.requests : Current(t, q).amount \in Nat
    BY <1>2, <1>3, <1>4 DEF Books, Reservations
  <2>2. \A q \in DOMAIN s.commitments : /\ q \in DOMAIN s.requests /\ s.commitments[q].amount \in Nat
                                        /\ s.commitments[q].amount <= Current(s, q).amount
                                        /\ Current(s, q).amount \in Nat
    BY DEF Books, Reservations
  <2>3. \A q \in DOMAIN s.commitments : s.commitments[q].amount <= Current(t, q).amount
    BY <1>3, <1>4, <2>2
  <2> QED  BY <1>2, <1>5, <2>1, <2>3 DEF Books, Reservations
<1>7. Balanced(t)
  BY <1>5 DEF Books, Balanced, OutstandingSum
<1> QED  BY <1>2, <1>3, <1>6, <1>7 DEF Books

LEMMA DecidedBooks ==
  ASSUME NEW s, Company(s), Books(s), NEW r \in 0 .. s.ids - 1, NEW revision, Revision(revision),
         revision.amount \in Nat, r \in DOMAIN s.requests => Current(s, r).amount <= revision.amount,
         NEW delta, NEW by
  PROVE  Books(Decided(s, r, revision, delta, by).state)
<1> DEFINE u == [s EXCEPT !.clock = s.clock + 1,
                          !.requests = Put(s.requests, r, IF r \in DOMAIN s.requests
                                                          THEN Append(s.requests[r], revision) ELSE <<revision>>)]
           d == BuildDecision(u, r, revision.state, FALSE, by)
           w == [u EXCEPT !.decisions = Append(u.decisions, d)]
           t == ApplyCommitmentReserve(w, r, revision.amount)
           result == Decided(s, r, revision, delta, by)
<1>1. SameExcept(s, u, {"clock", "requests"}) /\ Company(u)
  BY RevisionAdded
<1>2. u.requests = Put(s.requests, r, IF r \in DOMAIN s.requests
                                      THEN Append(s.requests[r], revision) ELSE <<revision>>)
  BY DEF Company, Fields
<1>3. result.state = w \/ result.state = t
  BY DEF Decided, Result, Fail
<1> HIDE DEF u, d, result
<1>4. SameExcept(u, w, {"decisions"}) /\ Company(w)
  BY <1>1, DecisionAdded
<1> HIDE DEF w
<1>5. SameExcept(s, w, {"requests", "decisions", "clock"}) /\ w.requests = u.requests
  BY <1>1, <1>4 DEF SameExcept, Fields
<1>6. Books(w) /\ r \in DOMAIN w.requests /\ Current(w, r) = revision
  <2> HIDE DEF Company, Books
  <2> QED  BY <1>2, <1>5, RevisionBooks
<1>7. Books(t)
  BY <1>4, <1>6, ReservedBooks
<1> QED  BY <1>3, <1>6, <1>7 DEF result

LEMMA CreatingBooks ==
  ASSUME NEW s, Company(s), Books(s), NEW p, Parsed(p), p.op = "requests.create", NEW m
  PROVE  Books(CreateRequest(s, p, m).state)
<1> DEFINE u == [s EXCEPT !.ids = s.ids + 1]
           outcome == EvaluateMockPolicy(p.amount, 0, p.amount, s.budget.available)
           revision == [amount |-> p.amount, cumulative |-> 0, state |-> outcome, scopes |-> p.scopes]
           result == Decided(u, s.ids, revision, p.amount, m.id)
<1>1. CreateRequest(s, p, m).state = s \/ CreateRequest(s, p, m) = result
  BY DEF CreateRequest, Fail, Result
<1>2. SameExcept(s, u, {"ids"}) /\ u.ids = s.ids + 1
  BY DEF SameExcept, Company, Fields
<1> HIDE DEF u, outcome
<1>3. Company(u)
  BY <1>2 DEF SameExcept, Company, Fields
<1>4. Books(u)
  BY <1>2, SameBooks DEF SameExcept, Books, Reservations
<1>5. Revision(revision) /\ revision.amount \in Nat
  BY DEF Revision, Parsed
<1>6. s.ids \in 0 .. u.ids - 1 /\ s.ids \notin DOMAIN u.requests
  BY <1>2 DEF SameExcept, Fields, Books, Reservations
<1> HIDE DEF revision
<1>7. Books(result.state)
  BY <1>3, <1>4, <1>5, <1>6, DecidedBooks
<1> QED  BY <1>1, <1>7

LEMMA AmendingBooks ==
  ASSUME NEW s, Company(s), Books(s), NEW p, Parsed(p), p.op = "requests.amend", NEW m
  PROVE  Books(AmendRequest(s, p, m).state)
<1> DEFINE request == Current(s, p.request)
           increase == p.amount - request.amount
           cumulative == request.cumulative + increase
           outcome == EvaluateMockPolicy(p.amount, cumulative, increase, s.budget.available)
           revision == [request EXCEPT !.amount = p.amount, !.cumulative = cumulative, !.state = outcome]
           result == Decided(s, p.request, revision, increase, m.id)
<1>1. \/ AmendRequest(s, p, m).state = s
      \/ AmendRequest(s, p, m) = result /\ p.request \in DOMAIN s.requests /\ ~(increase <= 0)
  BY DEF AmendRequest, Fail, Result
<1>2. CASE AmendRequest(s, p, m) = result /\ p.request \in DOMAIN s.requests /\ ~(increase <= 0)
  <2>1. Revision(request) /\ request.amount \in Nat
    BY <1>2, CurrentRevision DEF Books, Reservations
  <2>2. p.request \in 0 .. s.ids - 1
    BY <1>2 DEF Books, Reservations
  <2>3. p.amount \in Nat /\ increase \in Int /\ cumulative \in Int /\ request.amount <= p.amount
    <3> HIDE DEF request
    <3> QED  BY <1>2, <2>1 DEF Parsed, Revision
  <2> HIDE DEF outcome, increase, cumulative
  <2>4. Revision(revision) /\ revision.amount = p.amount
    <3> HIDE DEF request
    <3> QED  BY <2>1, <2>3 DEF Revision
  <2>5. Current(s, p.request).amount <= p.amount
    BY <2>3
  <2> HIDE DEF revision, request
  <2>6. Books(result.state)
    BY <2>2, <2>3, <2>4, <2>5, DecidedBooks
  <2> QED  BY <1>2, <2>6
<1> QED  BY <1>1, <1>2

LEMMA ReviewingBooks ==
  ASSUME NEW s, Company(s), Books(s), NEW p, NEW m
  PROVE  Books(DecideReview(s, p, m).state)
<1> DEFINE request == Current(s, p.request)
           d == BuildDecision(s, p.request, p.outcome, TRUE, m.id)
           w == [s EXCEPT !.decisions = Append(s.decisions, d)]
           t == ApplyCommitmentReserve(w, p.request, request.amount)
<1>1. \/ DecideReview(s, p, m).state = s
      \/ DecideReview(s, p, m).state = w
      \/ DecideReview(s, p, m).state = t /\ p.request \in DOMAIN s.requests
  BY DEF DecideReview, Fail, Result
<1> HIDE DEF d
<1>2. SameExcept(s, w, {"decisions"}) /\ Company(w)
  BY DecisionAdded
<1> HIDE DEF w
<1>3. Books(w) /\ w.requests = s.requests
  <2>1. w.ids = s.ids /\ s.ids \in Nat /\ w.requests = s.requests
    BY <1>2 DEF SameExcept, Fields, Books, Reservations
  <2>2. SameExcept(s, w, {"decisions", "ledger", "forecasts", "clock", "memo", "ids"})
    BY <1>2 DEF SameExcept
  <2> QED  BY <2>1, <2>2, SameBooks
<1>4. p.request \in DOMAIN s.requests => Books(t)
  <2>1. Current(w, p.request) = request
    BY <1>3 DEF Current
  <2>2. p.request \in DOMAIN s.requests => request.amount \in Nat
    BY DEF Books, Reservations
  <2> HIDE DEF request
  <2> QED  BY <1>2, <1>3, <2>1, <2>2, ReservedBooks
<1> QED  BY <1>1, <1>3, <1>4

\* What a posting changes.
LEMMA PostedBooks ==
  ASSUME NEW s, Company(s), Books(s), NEW posting, NEW amount \in Nat, posting.amount = amount, NEW drawn,
         NEW t, t.postings = Append(s.postings, posting), t.corrections = s.corrections,
         Reservations(t), OutstandingSum(t.commitments) = OutstandingSum(s.commitments) - drawn,
         t.budget.recognized = s.budget.recognized + amount, t.budget.outstanding = s.budget.outstanding - drawn,
         t.budget.available = Authorized - (s.budget.recognized + amount) - (s.budget.outstanding - drawn)
  PROVE  Books(t)
<1>1. /\ List(s.postings) /\ Amounts(s.postings) /\ List(s.corrections) /\ Amounts(s.corrections)
      /\ s.budget.recognized \in Int
  BY DEF Company, Books, Balanced, Budget
<1> DEFINE longer == Append(s.postings, posting)
<1>2. /\ Total(longer, AmountOf) = Total(s.postings, AmountOf) + amount
      /\ Total(s.postings, AmountOf) \in Int /\ Amounts(longer)
  <2>1. posting.amount \in Int
    OBVIOUS
  <2> QED  BY <1>1, <2>1, TotalOfMore
<1>3. Total(s.corrections, AmountOf) \in Int
  BY <1>1, TotalType
<1> HIDE DEF longer
<1>4. Balanced(t)
  BY <1>1, <1>2, <1>3 DEF Books, Balanced, longer
<1> QED  BY <1>4 DEF Books

LEMMA RecordingBooks ==
  ASSUME NEW s, Company(s), Books(s), NEW p, Parsed(p), p.op = "postings.record", NEW m
  PROVE  Books(RecordPosting(s, p, m).state)
<1> DEFINE linked == p.request # NoRequest
           posting == [id |-> p.posting, amount |-> p.amount, request |-> p.request, at |-> p.at, revision |-> 1,
                       scopes |-> p.scopes, by |-> m.id]
           reserved == s.commitments[p.request]
           spent == [reserved EXCEPT !.outstanding = reserved.outstanding - p.amount, !.revision = reserved.revision + 1]
           k == RefreshCommitmentState(spent)
           after == IF linked THEN [s.commitments EXCEPT ![p.request] = k] ELSE s.commitments
           drawn == IF linked THEN p.amount ELSE 0
           u == [s EXCEPT !.postings = Append(s.postings, posting), !.commitments = after]
           t == RefreshBudget(u, s.budget.recognized + p.amount, s.budget.outstanding - drawn)
           Fitting == linked => /\ p.request \in DOMAIN s.commitments
                                /\ ~(p.amount > s.commitments[p.request].outstanding)
<1>1. \/ RecordPosting(s, p, m).state = s
      \/ RecordPosting(s, p, m).state = t /\ Fitting
  BY DEF RecordPosting, Fail, Result
<1>2. CASE Fitting
  <2>1. p.amount \in Nat /\ posting.amount = p.amount /\ drawn \in Int
    BY DEF Parsed
  <2>2. /\ \A r \in DOMAIN after : Commitment(after[r])
        /\ OutstandingSum(after) = OutstandingSum(s.commitments) - drawn
        /\ \A v : v.commitments = after /\ v.requests = s.requests /\ v.ids = s.ids => Reservations(v)
    <3>1. CASE linked
      <4>1. /\ Commitment(reserved) /\ \A r \in DOMAIN s.commitments : Commitment(s.commitments[r])
            /\ reserved.amount \in Nat /\ reserved.amount <= Current(s, p.request).amount
            /\ reserved.outstanding \in 0 .. reserved.amount /\ p.request \in DOMAIN s.requests
            /\ p.request \in DOMAIN s.commitments /\ p.amount <= reserved.outstanding
        BY <1>2, <2>1, <3>1 DEF Company, Books, Reservations
      <4> DEFINE had == IF p.request \in DOMAIN s.commitments THEN reserved.outstanding ELSE 0
      <4>2. had = reserved.outstanding
        BY <4>1
      <4> HIDE DEF reserved
      <4>3. Commitment(spent) /\ spent.amount = reserved.amount /\ spent.outstanding = reserved.outstanding - p.amount
        BY <4>1, <2>1 DEF Commitment
      <4> HIDE DEF spent
      <4>4. Commitment(k) /\ k.amount = spent.amount /\ k.outstanding = spent.outstanding
        BY <4>3, Refreshed
      <4> HIDE DEF k
      <4>5. after = Put(s.commitments, p.request, k)
        BY <3>1, <4>1 DEF Put
      <4>6. k.amount \in Nat /\ k.amount <= Current(s, p.request).amount /\ k.outstanding \in 0 .. k.amount
        BY <2>1, <4>1, <4>3, <4>4
      <4>7. had = IF p.request \in DOMAIN s.commitments THEN s.commitments[p.request].outstanding ELSE 0
        BY DEF reserved
      <4> HIDE DEF had
      <4>8. ASSUME NEW v, v.commitments = after, v.requests = s.requests, v.ids = s.ids
            PROVE  /\ Reservations(v) /\ OutstandingSum(s.commitments) \in Int
                   /\ OutstandingSum(after) = OutstandingSum(s.commitments) + k.outstanding - had
        BY <4>1, <4>5, <4>6, <4>7, <4>8, CommitmentIsPut
      <4>9. /\ OutstandingSum(s.commitments) \in Int
            /\ OutstandingSum(after) = OutstandingSum(s.commitments) + k.outstanding - had
        <5> DEFINE v == [commitments |-> after, requests |-> s.requests, ids |-> s.ids]
        <5>1. v.commitments = after /\ v.requests = s.requests /\ v.ids = s.ids
          OBVIOUS
        <5> HIDE DEF v
        <5> QED  BY <4>8, <5>1
      <4>10. OutstandingSum(after) = OutstandingSum(s.commitments) - drawn
        BY <2>1, <3>1, <4>1, <4>2, <4>3, <4>4, <4>9
      <4>11. \A r \in DOMAIN after : Commitment(after[r])
        BY <3>1, <4>1, <4>4
      <4> QED  BY <4>8, <4>10, <4>11
    <3>2. CASE ~linked
      <4>1. after = s.commitments /\ drawn = 0
        BY <3>2
      <4>2. OutstandingSum(s.commitments) \in Int
        BY DEF Company, Budget, Books, Balanced
      <4>3. \A v : v.commitments = s.commitments /\ v.requests = s.requests /\ v.ids = s.ids => Reservations(v)
        BY DEF Books, Reservations, Current
      <4> HIDE DEF after, drawn
      <4> QED  BY <4>1, <4>2, <4>3 DEF Company
    <3> QED  BY <3>1, <3>2
  <2>3. List(Append(s.postings, posting))
    BY Lengthened DEF Company
  <2> HIDE DEF after, posting, drawn
  <2>4. /\ SameExcept(s, u, {"postings", "commitments"})
        /\ u.postings = Append(s.postings, posting) /\ u.commitments = after
    BY DEF SameExcept, Company, Fields
  <2> HIDE DEF u
  <2>5. Company(u)
    BY <2>2, <2>3, <2>4 DEF SameExcept, Company, Fields
  <2> DEFINE recognized == s.budget.recognized + p.amount
             outstanding == s.budget.outstanding - drawn
  <2>6. recognized \in Int /\ outstanding \in Int
    BY <2>1 DEF Company, Budget
  <2>7. t = RefreshBudget(u, recognized, outstanding)
    OBVIOUS
  <2> HIDE DEF t, recognized, outstanding
  <2>8. SameExcept(u, t, {"budget"})
    BY <2>5, <2>6, <2>7, Budgeted
  <2>9. /\ t.budget.recognized = recognized /\ t.budget.outstanding = outstanding
        /\ t.budget.available = Authorized - recognized - outstanding
    BY <2>5, <2>6, <2>7, BudgetIs
  <2>10. /\ t.commitments = after /\ t.requests = s.requests /\ t.ids = s.ids
         /\ t.postings = Append(s.postings, posting) /\ t.corrections = s.corrections
    BY <2>4, <2>8 DEF SameExcept, Fields
  <2>11. Reservations(t) /\ OutstandingSum(t.commitments) = OutstandingSum(s.commitments) - drawn
    BY <2>2, <2>10
  <2>12. Books(t)
    <3> HIDE DEF Company, Books, Reservations
    <3> QED  BY <2>1, <2>9, <2>10, <2>11, PostedBooks DEF recognized, outstanding
  <2> QED  BY <1>1, <2>12 DEF t, recognized, outstanding
<1> QED  BY <1>1, <1>2

LEMMA CorrectingBooks ==
  ASSUME NEW s, Company(s), Books(s), NEW p, Parsed(p), p.op = "postings.correct", NEW m
  PROVE  Books(CorrectPosting(s, p, m).state)
<1> DEFINE correction == [id |-> p.correction, posting |-> p.posting, amount |-> p.amount, at |-> p.at, by |-> m.id]
           u == [s EXCEPT !.corrections = Append(s.corrections, correction)]
           recognized == s.budget.recognized + p.amount
           outstanding == s.budget.outstanding
           t == RefreshBudget(u, recognized, outstanding)
<1>1. CorrectPosting(s, p, m).state = s \/ CorrectPosting(s, p, m).state = t
  BY DEF CorrectPosting, Fail, Result
<1>2. p.amount \in Int /\ correction.amount = p.amount
  BY DEF Parsed
<1>3. List(Append(s.corrections, correction))
  BY Lengthened DEF Company
<1> HIDE DEF correction
<1>4. SameExcept(s, u, {"corrections"}) /\ u.corrections = Append(s.corrections, correction)
  BY DEF SameExcept, Company, Fields
<1> HIDE DEF u
<1>5. Company(u)
  BY <1>3, <1>4 DEF SameExcept, Company, Fields
<1>6. recognized \in Int /\ outstanding \in Int /\ s.budget.recognized \in Int
  BY <1>2 DEF Company, Budget
<1>7. recognized = s.budget.recognized + p.amount
  OBVIOUS
<1>8. outstanding = s.budget.outstanding
  OBVIOUS
<1> HIDE DEF recognized, outstanding
<1>9. SameExcept(u, t, {"budget"})
  BY <1>5, <1>6, Budgeted
<1>10. /\ t.budget.recognized = recognized /\ t.budget.outstanding = outstanding
       /\ t.budget.available = Authorized - recognized - outstanding
  BY <1>5, <1>6, BudgetIs
<1> HIDE DEF t
<1>11. /\ t.commitments = s.commitments /\ t.requests = s.requests /\ t.ids = s.ids
       /\ t.postings = s.postings /\ t.corrections = Append(s.corrections, correction)
  BY <1>4, <1>9 DEF SameExcept, Fields
<1>12. Reservations(t)
  BY <1>11 DEF Books, Reservations, Current
<1>13. /\ List(s.postings) /\ Amounts(s.postings) /\ List(s.corrections) /\ Amounts(s.corrections)
  BY DEF Company, Books, Balanced
<1> DEFINE longer == Append(s.corrections, correction)
<1>14. /\ Total(longer, AmountOf) = Total(s.corrections, AmountOf) + p.amount
       /\ Total(s.corrections, AmountOf) \in Int /\ Amounts(longer)
  <2>1. correction.amount \in Int
    BY <1>2
  <2> QED  BY <1>2, <1>13, <2>1, TotalOfMore
<1>15. Total(s.postings, AmountOf) \in Int
  BY <1>13, TotalType
<1> HIDE DEF longer
<1>16. Balanced(t)
  BY <1>2, <1>6, <1>7, <1>8, <1>10, <1>11, <1>14, <1>15 DEF Books, Balanced, longer
<1> QED  BY <1>1, <1>12, <1>16 DEF Books

\* What leaves requests, commitments, postings, corrections and the budget alone.
LEMMA OtherBooks ==
  ASSUME NEW s, Company(s), Books(s), NEW t, SameExcept(s, t, {"ledger", "forecasts", "clock", "memo"})
  PROVE  Books(t)
<1>1. t.ids = s.ids /\ s.ids \in Nat
  BY DEF SameExcept, Fields, Books, Reservations
<1>2. SameExcept(s, t, {"decisions", "ledger", "forecasts", "clock", "memo", "ids"})
  BY DEF SameExcept
<1>3. t.ids \in Nat /\ t.ids >= s.ids
  BY <1>1
<1> HIDE DEF Company, Books
<1> QED  BY <1>2, <1>3, SameBooks

LEMMA IngestingBooks ==
  ASSUME NEW s, Company(s), Books(s), NEW p, NEW m
  PROVE  Books(IngestSource(s, p, m).state)
<1>1. \E ledger : IngestSource(s, p, m).state = s \/ IngestSource(s, p, m).state = [s EXCEPT !.ledger = ledger]
  BY DEF IngestSource, Result
<1>2. ASSUME NEW ledger
      PROVE  SameExcept(s, [s EXCEPT !.ledger = ledger], {"ledger", "forecasts", "clock", "memo"})
  BY DEF SameExcept, Company, Fields
<1> HIDE DEF Company, Books
<1> QED  BY <1>1, <1>2, OtherBooks

LEMMA ForecastingBooks ==
  ASSUME NEW s, Company(s), Books(s), NEW p, NEW m
  PROVE  Books(RunForecast(s, p, m).state)
<1>1. \E forecasts : \/ RunForecast(s, p, m).state = s
                     \/ RunForecast(s, p, m).state = [s EXCEPT !.forecasts = forecasts, !.clock = s.clock + 1]
  BY DEF RunForecast, Result, Fail
<1>2. ASSUME NEW forecasts
      PROVE  SameExcept(s, [s EXCEPT !.forecasts = forecasts, !.clock = s.clock + 1],
                        {"ledger", "forecasts", "clock", "memo"})
  BY DEF SameExcept, Company, Fields
<1> HIDE DEF Company, Books
<1> QED  BY <1>1, <1>2, OtherBooks

LEMMA ExecutingBooks ==
  ASSUME NEW s, Company(s), Books(s), NEW p, Parsed(p), NEW m
  PROVE  Books(Execute(s, p, m).state)
<1>1. p.op \in Operations
  BY DEF Parsed
<1> HIDE DEF Company, Books
<1> QED  BY <1>1, CreatingBooks, AmendingBooks, ReviewingBooks, RecordingBooks, CorrectingBooks,
            IngestingBooks, ForecastingBooks DEF Execute, Operations

LEMMA DispatchingBooks ==
  ASSUME NEW s, Company(s), Books(s), NEW m, Parsed(m.p)
  PROVE  Books(Dispatch(s, m).state)
<1> DEFINE r == Execute(s, m.p, m)
           memo == Put(r.state.memo, m.id, [payload |-> m.p, data |-> r.data])
           t == [r.state EXCEPT !.memo = memo]
<1>1. Dispatch(s, m).state \in {s, r.state, t}
  BY DEF Dispatch, Reply
<1>2. Books(r.state) /\ Company(r.state)
  <2>1. Books(r.state)
    BY ExecutingBooks
  <2>2. Sound(r, s, m.p, m.id)
    BY Executing
  <2> HIDE DEF Company, r
  <2> QED  BY <2>1, <2>2 DEF Sound, Succeeds
<1> HIDE DEF r, memo
<1>3. SameExcept(r.state, t, {"ledger", "forecasts", "clock", "memo"})
  BY <1>2 DEF SameExcept, Company, Fields
<1> HIDE DEF t, Company, Books
<1>4. Books(t)
  BY <1>2, <1>3, OtherBooks
<1> QED  BY <1>1, <1>2, <1>4

LEMMA SeededBooks ==
  ASSUME NEW time, NEW ids \in Nat \ {0}
  PROVE  Books(Seed(time, ids))
<1> DEFINE s == Seed(time, ids)
           c == [amount |-> SeedAmount, outstanding |-> SeedAmount, revision |-> 1, state |-> "outstanding", created |-> 0]
           spend == [id |-> 0, amount |-> SeedSpend, request |-> NoRequest, at |-> 0, revision |-> 1,
                     scopes |-> {"organization", "department"}, by |-> 0]
           request == [amount |-> SeedAmount, cumulative |-> 0, state |-> "approved", scopes |-> Registered]
           none == [r \in {} |-> c]
<1>1. /\ s.ids = ids /\ s.commitments = [r \in {SeedRequest} |-> c]
      /\ s.requests = [r \in {SeedRequest} |-> <<request>>]
      /\ s.postings = <<spend>> /\ s.corrections = <<>>
      /\ s.budget.recognized = SeedSpend /\ s.budget.outstanding = SeedAmount
      /\ s.budget.available = Authorized - SeedSpend - SeedAmount
  BY DEF Seed
<1>2. c.amount = SeedAmount /\ c.outstanding = SeedAmount /\ spend.amount = SeedSpend /\ request.amount = SeedAmount
  OBVIOUS
<1> HIDE DEF s, c, spend, request
<1>3. SeedSpend \in Nat /\ SeedAmount \in Nat /\ Authorized \in Nat /\ SeedRequest = 0
  BY BudgetAssumption DEF SeedRequest
<1>4. Current(s, SeedRequest) = request
  <2>1. s.requests[SeedRequest] = <<request>>  BY <1>1
  <2>2. List(<<request>>) /\ <<request>> # <<>> /\ DOMAIN <<request>> = {1} /\ <<request>>[1] = request
    BY ShortLists
  <2>3. Last(<<request>>) = request  BY <2>2, LatestOf
  <2> QED  BY <2>1, <2>3 DEF Current
<1>5. OutstandingSum(s.commitments) = SeedAmount
  <2>1. DOMAIN none = {} /\ IsFiniteSet({}) /\ \A q \in DOMAIN none : none[q].outstanding \in Int
    BY FS_EmptySet
  <2>2. s.commitments = Put(none, SeedRequest, c)
    BY <1>1 DEF Put
  <2> DEFINE had == IF SeedRequest \in DOMAIN none THEN none[SeedRequest].outstanding ELSE 0
  <2>3. had = 0 /\ had = IF SeedRequest \in DOMAIN none THEN none[SeedRequest].outstanding ELSE 0
    BY <2>1
  <2>4. OutstandingSum(none) = 0
    <3> DEFINE f == [r \in DOMAIN none |-> none[r].outstanding]
               S == DOMAIN none
    <3>1. OutstandingSum(none) = SumFunction(f) /\ f \in [S -> Int] /\ \A i \in S : f[i] = 0
      BY <2>1 DEF OutstandingSum
    <3>2. IsFiniteSet(S)
      BY <2>1
    <3> HIDE DEF f, S
    <3> QED  BY <3>1, <3>2, SumOfZeros
  <2> HIDE DEF none, had
  <2>5. OutstandingSum(Put(none, SeedRequest, c)) = OutstandingSum(none) + c.outstanding - had
    BY <1>2, <1>3, <2>1, <2>3, OutstandingMore
  <2> QED  BY <1>2, <1>3, <2>2, <2>3, <2>4, <2>5
<1>6. Reservations(s)
  <2>1. DOMAIN s.commitments = {0} /\ DOMAIN s.requests = {0} /\ s.commitments[0] = c /\ IsFiniteSet({0})
    BY <1>1, <1>3, FS_Singleton
  <2>2. DOMAIN s.requests \subseteq 0 .. s.ids - 1
    BY <1>1, <2>1
  <2> QED  BY <1>1, <1>2, <1>3, <1>4, <2>1, <2>2 DEF Reservations
<1>7. Balanced(s)
  <2>1. /\ Total(<<>>, AmountOf) = 0 /\ Amounts(<<>>)
        /\ Total(<<spend>>, AmountOf) = SeedSpend /\ Amounts(<<spend>>)
    BY <1>2, <1>3, TotalOfFew
  <2> DEFINE posted == Total(<<spend>>, AmountOf)
             corrected == Total(<<>>, AmountOf)
  <2>2. posted = SeedSpend /\ corrected = 0 /\ SeedSpend = posted + corrected
    BY <1>3, <2>1
  <2> QED  BY <1>1, <1>5, <2>1, <2>2 DEF Balanced
<1> QED  BY <1>6, <1>7 DEF Books, s

LEMMA BooksStart == MockInit => Books(company)
<1> HIDE DEF Books
<1> QED  BY SeededBooks DEF MockInit

LEMMA BooksStep == MockInv /\ Books(company) /\ [MockNext]_svars => Books(company')
<1> SUFFICES ASSUME MockInv, Books(company), [MockNext]_svars  PROVE Books(company')
  OBVIOUS
<1>1. CASE UNCHANGED company
  BY <1>1
<1>2. ASSUME NEW m \in wire, Handle(m)
      PROVE  Books(company')
  <2>1. Parsed(m.p) /\ Company(company) /\ company' = Dispatch(company, m).state
    BY <1>2 DEF MockInv, Message, Handle
  <2> HIDE DEF Company, Books
  <2> QED  BY <2>1, DispatchingBooks
<1>3. CASE ResetCompany
  <2>1. company' = Seed(company.clock, company.ids) /\ company.ids \in Nat \ {0}
    BY <1>3 DEF ResetCompany, Reset, Books, Reservations
  <2> HIDE DEF Books
  <2> QED  BY <2>1, SeededBooks
<1> HIDE DEF Books
<1> QED  BY <1>1, <1>2, <1>3 DEF MockNext, Send, Timeout, Resend, svars

(***************************************************************************)
(* The budget account, which every handler updates in place, is what the   *)
(* records add up to, and no commitment has more outstanding than it is:   *)
(* for any budget and policy, any parsed commands sent and sent again, and *)
(* any number of resets between them.                                      *)
(***************************************************************************)
THEOREM BudgetIsWhatRecordsSay == MockSpec /\ []InputsAreParsed => []BudgetMatchesRecords
<1>1. Books(company) => BudgetMatchesRecords
  BY DEF Books, Reservations, Balanced, OutstandingSum, BudgetMatchesRecords
<1>2. MockInit => MockInv /\ Books(company)
  BY MockStarts, BooksStart
<1>3. MockInv /\ Books(company) /\ InputsAreParsed /\ [MockNext]_svars => MockInv' /\ Books(company)'
  <2> HIDE DEF MockInv, Books
  <2> QED  BY MockStep, BooksStep
<1> QED  BY <1>1, <1>2, <1>3, PTL DEF MockSpec

-----------------------------------------------------------------------------
(***************************************************************************)
(* The budget account and the decisions a forecast reads: MockCompany.     *)
(***************************************************************************)
For(postings, r) == {i \in DOMAIN postings : postings[i].request = r}
SpentOn(postings, r) == AmountOfThose(postings, For(postings, r))

\* The last approval of a request is of a revision with the amount of its commitment.
LastApproval(s, r, i) ==
  /\ i \in DOMAIN s.decisions /\ s.decisions[i].request = r /\ s.decisions[i].outcome = "approved"
  /\ \A j \in DOMAIN s.decisions : s.decisions[j].request = r /\ s.decisions[j].outcome = "approved" => j <= i
Approved(s, r) ==
  \E i \in DOMAIN s.decisions :
    LET k == s.decisions[i].revision
    IN  LastApproval(s, r, i) /\ k \in DOMAIN s.requests[r] /\ s.requests[r][k].amount = s.commitments[r].amount

\* What is outstanding of a commitment is what was not posted against it.
Reconciled(s, r) ==
  LET c == s.commitments[r]
  IN  /\ "created" \in DOMAIN c /\ c.created \in Int /\ c.created <= s.clock
      /\ c.outstanding = c.amount - SpentOn(s.postings, r)

SameScopes(history) ==
  \A i, j \in DOMAIN history : "scopes" \in DOMAIN history[i] /\ history[i].scopes = history[j].scopes

Dated(s) ==
  /\ s.clock \in Nat
  /\ \A i \in DOMAIN s.decisions : s.decisions[i].at \in Int /\ s.decisions[i].at <= s.clock
  /\ \A i \in DOMAIN s.postings : s.postings[i].at \in Int
  /\ \A i \in DOMAIN s.corrections : s.corrections[i].at \in Int

Recorded(s) ==
  /\ Dated(s)
  /\ \A r \in DOMAIN s.requests : SameScopes(s.requests[r])
  /\ \A i \in DOMAIN s.corrections : HasId(s.postings, s.corrections[i].posting)
  /\ \A i \in DOMAIN s.postings : s.postings[i].request # NoRequest => s.postings[i].request \in DOMAIN s.commitments
  /\ \A r \in DOMAIN s.commitments : Reconciled(s, r)

Traceable(s) == Recorded(s) /\ \A r \in DOMAIN s.commitments : Approved(s, r)

-----------------------------------------------------------------------------
LEMMA SpentOnMore ==
  ASSUME NEW x, List(x), Amounts(x), NEW e, e.amount \in Int, NEW r
  PROVE  /\ SpentOn(x, r) \in Int
         /\ SpentOn(Append(x, e), r) = SpentOn(x, r) + IF e.request = r THEN e.amount ELSE 0
<1> DEFINE y == Append(x, e)
           n == Len(x) + 1
           S == For(x, r)
           f == [i \in For(y, r) |-> y[i].amount]
           g == [i \in S |-> x[i].amount]
<1>1. /\ Len(x) \in Nat /\ DOMAIN x = 1 .. Len(x) /\ DOMAIN y = DOMAIN x \cup {n}
      /\ \A i \in DOMAIN x : y[i] = x[i]
      /\ y[n] = e
  BY Lengthened
<1>2. IsFiniteSet(DOMAIN x) /\ n \notin DOMAIN x
  BY <1>1, FS_Interval
<1> HIDE DEF y, n
<1>3. IsFiniteSet(S) /\ n \notin S /\ S \subseteq DOMAIN x
  BY <1>2, FS_Subset DEF For
<1>4. For(y, r) = IF e.request = r THEN S \cup {n} ELSE S
  BY <1>1, <1>2 DEF For
<1>5. /\ \A i \in S : x[i].amount \in Int /\ y[i].amount = x[i].amount
      /\ y[n].amount = e.amount
  BY <1>1, <1>3 DEF Amounts
<1>6. SpentOn(y, r) = SumFunction(f) /\ SpentOn(x, r) = SumFunction(g)
  BY DEF SpentOn, AmountOfThose
<1>7. g \in [S -> Int]
  BY <1>5
<1>8. SumFunction(g) \in Int
  <2> HIDE DEF g, S
  <2> QED  BY <1>3, <1>7, SumIsInteger
<1>9. CASE e.request = r
  <2>1. f \in [S \cup {n} -> Int] /\ f[n] = e.amount /\ \A i \in S : f[i] = g[i]
    BY <1>4, <1>5, <1>9
  <2> HIDE DEF f, g, S
  <2>2. SumFunction(f) = SumFunction(g) + f[n]
    BY <1>3, <1>7, <2>1, SumExtends
  <2> QED  BY <1>6, <1>8, <1>9, <2>1, <2>2 DEF y
<1>10. CASE e.request # r
  <2>1. f = g
    BY <1>4, <1>5, <1>10
  <2> HIDE DEF f, g
  <2> QED  BY <1>6, <1>8, <1>10, <2>1 DEF y
<1> QED  BY <1>9, <1>10

\* Against a request nothing was posted.
LEMMA NothingSpent ==
  ASSUME NEW x, NEW r, For(x, r) = {}
  PROVE  SpentOn(x, r) = 0
<1> DEFINE S == For(x, r)
           f == [i \in S |-> x[i].amount]
<1>1. SpentOn(x, r) = SumFunction(f) /\ f \in [S -> Int] /\ \A i \in S : f[i] = 0
  BY DEF SpentOn, AmountOfThose
<1>2. IsFiniteSet(S)
  BY FS_EmptySet
<1> HIDE DEF f, S
<1> QED  BY <1>1, <1>2, SumOfZeros
\* What none of this depends on: also a clock that goes on.
LEMMA SameTrace ==
  ASSUME NEW s, Company(s), NEW t, SameExcept(s, t, {"ledger", "forecasts", "clock", "memo", "ids"}),
         t.clock \in Int, s.clock <= t.clock
  PROVE  /\ Recorded(s) => Recorded(t)
         /\ \A r : Approved(s, r) => Approved(t, r)
<1>1. /\ t.requests = s.requests /\ t.commitments = s.commitments /\ t.decisions = s.decisions
      /\ t.postings = s.postings /\ t.corrections = s.corrections
  BY DEF SameExcept, Fields
<1>2. Dated(s) => Dated(t)
  BY <1>1 DEF Dated
<1>3. Dated(s) => \A r : Reconciled(s, r) => Reconciled(t, r)
  BY <1>1 DEF Dated, Reconciled
<1>4. Recorded(s) => Recorded(t)
  BY <1>1, <1>2, <1>3 DEF Recorded
<1>5. \A r, i : LastApproval(s, r, i) => LastApproval(t, r, i)
  BY <1>1 DEF LastApproval
<1> QED  BY <1>1, <1>4, <1>5 DEF Approved

LEMMA LaterDecision ==
  ASSUME NEW s, List(s.decisions), NEW d, NEW t, t.decisions = Append(s.decisions, d)
  PROVE  LET n == Len(s.decisions) + 1
         IN  /\ n \in DOMAIN t.decisions /\ t.decisions[n] = d
             /\ DOMAIN t.decisions = DOMAIN s.decisions \cup {n}
             /\ \A i \in DOMAIN s.decisions : t.decisions[i] = s.decisions[i]
             /\ d.outcome = "approved" => LastApproval(t, d.request, n)
             /\ \A q, i : LastApproval(s, q, i) /\ (q # d.request \/ d.outcome # "approved") => LastApproval(t, q, i)
<1> DEFINE n == Len(s.decisions) + 1
<1>1. /\ Len(s.decisions) \in Nat /\ DOMAIN s.decisions = 1 .. Len(s.decisions)
      /\ DOMAIN t.decisions = DOMAIN s.decisions \cup {n} /\ t.decisions[n] = d
      /\ \A i \in DOMAIN s.decisions : t.decisions[i] = s.decisions[i]
  BY Lengthened
<1>2. \A i \in DOMAIN s.decisions : i <= n
  BY <1>1
<1>3. n <= n
  BY <1>1
<1> HIDE DEF n
<1>4. d.outcome = "approved" => LastApproval(t, d.request, n)
  BY <1>1, <1>2, <1>3 DEF LastApproval
<1>5. ASSUME NEW q, NEW i, LastApproval(s, q, i), q # d.request \/ d.outcome # "approved"
      PROVE  LastApproval(t, q, i)
  BY <1>1, <1>5 DEF LastApproval
<1> QED  BY <1>1, <1>4, <1>5 DEF n

\* A decision of now, about the latest revision of a request.
LEMMA DecisionTrace ==
  ASSUME NEW s, Company(s), Recorded(s), NEW d, d.at = s.clock, NEW t, SameExcept(s, t, {"decisions"}),
         t.decisions = Append(s.decisions, d)
  PROVE  /\ Recorded(t)
         /\ \A q : Approved(s, q) /\ (q # d.request \/ d.outcome # "approved") => Approved(t, q)
         /\ d.outcome = "approved" => LastApproval(t, d.request, Len(s.decisions) + 1)
<1> DEFINE n == Len(s.decisions) + 1
<1>1. /\ t.requests = s.requests /\ t.commitments = s.commitments /\ t.clock = s.clock
      /\ t.postings = s.postings /\ t.corrections = s.corrections
  BY DEF SameExcept, Fields
<1>2. /\ n \in DOMAIN t.decisions /\ t.decisions[n] = d
      /\ DOMAIN t.decisions = DOMAIN s.decisions \cup {n}
      /\ \A i \in DOMAIN s.decisions : t.decisions[i] = s.decisions[i]
      /\ d.outcome = "approved" => LastApproval(t, d.request, n)
      /\ \A q, i : LastApproval(s, q, i) /\ (q # d.request \/ d.outcome # "approved") => LastApproval(t, q, i)
  BY LaterDecision DEF Company
<1> HIDE DEF n
<1>3. Dated(t)
  <2>1. Dated(s)
    BY DEF Recorded
  <2>2. \A i \in DOMAIN t.decisions : t.decisions[i].at \in Int /\ t.decisions[i].at <= t.clock
    BY <1>1, <1>2, <2>1 DEF Dated
  <2> QED  BY <1>1, <2>1, <2>2 DEF Dated
<1>4. Recorded(t)
  BY <1>1, <1>3 DEF Recorded, Reconciled
<1>5. ASSUME NEW q, Approved(s, q), q # d.request \/ d.outcome # "approved"
      PROVE  Approved(t, q)
  <2>1. PICK i \in DOMAIN s.decisions :
               /\ LastApproval(s, q, i) /\ s.decisions[i].revision \in DOMAIN s.requests[q]
               /\ s.requests[q][s.decisions[i].revision].amount = s.commitments[q].amount
    BY <1>5 DEF Approved
  <2>2. LastApproval(t, q, i) /\ i \in DOMAIN t.decisions /\ t.decisions[i] = s.decisions[i]
    BY <1>2, <1>5, <2>1
  <2> QED  BY <1>1, <2>1, <2>2 DEF Approved
<1> QED  BY <1>2, <1>4, <1>5 DEF n

\* A revision of a request, or a request, with the scopes it had.
LEMMA RevisionTrace ==
  ASSUME NEW s, Company(s), Recorded(s), NEW r, NEW revision, "scopes" \in DOMAIN revision,
         r \in DOMAIN s.requests => revision.scopes = Current(s, r).scopes,
         NEW t, SameExcept(s, t, {"requests", "clock"}), t.clock = s.clock + 1,
         t.requests = Put(s.requests, r, IF r \in DOMAIN s.requests
                                         THEN Append(s.requests[r], revision) ELSE <<revision>>)
  PROVE  Recorded(t) /\ \A q \in DOMAIN s.requests : Approved(s, q) => Approved(t, q)
<1> DEFINE history == IF r \in DOMAIN s.requests THEN Append(s.requests[r], revision) ELSE <<revision>>
<1>1. /\ SameScopes(history)
      /\ r \in DOMAIN s.requests => \A k \in DOMAIN s.requests[r] : k \in DOMAIN history /\ history[k] = s.requests[r][k]
  <2>1. CASE r \in DOMAIN s.requests
    <3> DEFINE old == s.requests[r]
               n == Len(old) + 1
    <3>1. List(old) /\ old # <<>> /\ SameScopes(old)
      BY <2>1 DEF Company, Recorded
    <3>2. revision.scopes = old[Len(old)].scopes /\ Len(old) \in DOMAIN old
      BY <2>1, <3>1, LatestOf DEF Current
    <3>3. /\ DOMAIN history = DOMAIN old \cup {n} /\ history[n] = revision
          /\ \A k \in DOMAIN old : history[k] = old[k]
      BY <2>1, <3>1, Lengthened
    <3> HIDE DEF history, old, n
    <3>4. \A k \in DOMAIN history : "scopes" \in DOMAIN history[k] /\ history[k].scopes = revision.scopes
      BY <3>1, <3>2, <3>3 DEF SameScopes
    <3>5. SameScopes(history)
      BY <3>4 DEF SameScopes
    <3> QED  BY <3>3, <3>5 DEF old
  <2>2. CASE r \notin DOMAIN s.requests
    BY <2>2, ShortLists DEF SameScopes
  <2> QED  BY <2>1, <2>2
<1> HIDE DEF history
<1>2. /\ DOMAIN t.requests = DOMAIN s.requests \cup {r} /\ t.requests[r] = history
      /\ \A q \in DOMAIN s.requests \ {r} : t.requests[q] = s.requests[q]
  BY DEF Put, history
<1>3. /\ t.commitments = s.commitments /\ t.decisions = s.decisions
      /\ t.postings = s.postings /\ t.corrections = s.corrections
  BY DEF SameExcept, Fields
<1>4. Dated(t) /\ s.clock \in Int /\ s.clock <= t.clock
  BY <1>3 DEF Recorded, Dated
<1>5. \A q \in DOMAIN s.commitments : Reconciled(t, q)
  BY <1>3, <1>4 DEF Recorded, Reconciled
<1>6. \A q \in DOMAIN t.requests : SameScopes(t.requests[q])
  BY <1>1, <1>2 DEF Recorded
<1>7. Recorded(t)
  BY <1>3, <1>4, <1>5, <1>6 DEF Recorded
<1>8. ASSUME NEW q \in DOMAIN s.requests, Approved(s, q)
      PROVE  Approved(t, q)
  <2>1. PICK i \in DOMAIN s.decisions :
               /\ LastApproval(s, q, i) /\ s.decisions[i].revision \in DOMAIN s.requests[q]
               /\ s.requests[q][s.decisions[i].revision].amount = s.commitments[q].amount
    BY <1>8 DEF Approved
  <2>2. LastApproval(t, q, i)
    BY <1>3, <2>1 DEF LastApproval
  <2>3. \A k \in DOMAIN s.requests[q] : k \in DOMAIN t.requests[q] /\ t.requests[q][k] = s.requests[q][k]
    BY <1>1, <1>2
  <2> QED  BY <1>3, <2>1, <2>2, <2>3 DEF Approved
<1> QED  BY <1>7, <1>8
LEMMA NothingPosted ==
  ASSUME NEW s, Books(s), Recorded(s), NEW r \in DOMAIN s.requests, r \notin DOMAIN s.commitments
  PROVE  SpentOn(s.postings, r) = 0
<1>1. r # NoRequest
  BY DEF Books, Reservations, NoRequest
<1>2. For(s.postings, r) = {}
  BY <1>1 DEF For, Recorded
<1> QED  BY <1>2, NothingSpent

LEMMA ReservedTrace ==
  ASSUME NEW s, Company(s), Books(s), Recorded(s), NEW r \in DOMAIN s.requests, NEW amount \in Nat,
         NEW i, LastApproval(s, r, i), NEW k, k = s.decisions[i].revision,
         k \in DOMAIN s.requests[r], s.requests[r][k].amount = amount,
         \A q \in DOMAIN s.commitments \ {r} : Approved(s, q)
  PROVE  Traceable(ApplyCommitmentReserve(s, r, amount))
<1> DEFINE delta == amount - CommitmentAmount(s, r)
           old == s.commitments[r]
           c == IF r \in DOMAIN s.commitments
                THEN [old EXCEPT !.amount = amount, !.outstanding = old.outstanding + delta,
                                 !.revision = old.revision + 1]
                ELSE [amount |-> amount, outstanding |-> amount, revision |-> 1,
                      state |-> "outstanding", created |-> s.clock]
           state == CASE c.outstanding = 0 -> "posted"
                      [] c.outstanding # 0 /\ c.outstanding < c.amount -> "partially_posted"
                      [] OTHER -> "outstanding"
           e == [c EXCEPT !.state = state]
           u == [s EXCEPT !.commitments = Put(s.commitments, r, e)]
           t == RefreshBudget(u, s.budget.recognized, s.budget.outstanding + delta)
           spent == SpentOn(s.postings, r)
<1>1. ApplyCommitmentReserve(s, r, amount) = t
  BY DEF ApplyCommitmentReserve, RefreshCommitmentState
<1>2. s.clock \in Int
  BY DEF Recorded, Dated
<1>3. /\ {"amount", "outstanding", "revision", "state", "created"} \subseteq DOMAIN c
      /\ c.amount = amount /\ c.created \in Int /\ c.created <= s.clock
      /\ c.outstanding \in Int /\ c.outstanding = amount - spent /\ delta \in Int
  <2>1. CASE r \in DOMAIN s.commitments
    <3>1. /\ CommitmentAmount(s, r) = old.amount /\ Commitment(old)
          /\ old.amount \in Nat /\ old.outstanding \in 0 .. old.amount
      BY <2>1 DEF CommitmentAmount, Company, Books, Reservations
    <3>2. /\ "created" \in DOMAIN old /\ old.created \in Int /\ old.created <= s.clock
          /\ old.outstanding = old.amount - spent
      BY <2>1 DEF Recorded, Reconciled
    <3>3. spent \in Int
      BY SpentOnMore, <2>1
      DEF Company, Books, Balanced
    <3> HIDE DEF old, spent
    <3>4. c = [old EXCEPT !.amount = amount, !.outstanding = old.outstanding + delta, !.revision = old.revision + 1]
      BY <2>1
    <3>5. delta = amount - old.amount
      BY <3>1
    <3> HIDE DEF c, delta
    <3>6. /\ DOMAIN c = DOMAIN old /\ c.amount = amount /\ c.outstanding = old.outstanding + delta
          /\ c.created = old.created
      BY <3>1, <3>2, <3>4 DEF Commitment
    <3> QED  BY <1>2, <3>1, <3>2, <3>3, <3>5, <3>6 DEF Commitment
  <2>2. CASE r \notin DOMAIN s.commitments
    <3>1. spent = 0
      BY <2>2, NothingPosted
    <3>2. CommitmentAmount(s, r) = 0
      BY <2>2 DEF CommitmentAmount
    <3> HIDE DEF spent
    <3> QED  BY <1>2, <2>2, <3>1, <3>2
  <2> QED  BY <2>1, <2>2
<1> HIDE DEF delta, c, state
<1>4. /\ DOMAIN e = DOMAIN c /\ e.amount = amount /\ e.outstanding = c.outstanding /\ e.created = c.created
  BY <1>3
<1>5. Commitment(e)
  BY <1>3, <1>4 DEF Commitment
<1> HIDE DEF e
<1>6. SameExcept(s, u, {"commitments"}) /\ Company(u) /\ u.commitments = Put(s.commitments, r, e)
  <2>1. u.commitments = Put(s.commitments, r, e)
    BY DEF Company, Fields
  <2> QED  BY <1>5, <2>1, Committed
<1>7. s.budget.recognized \in Int /\ s.budget.outstanding + delta \in Int
  BY <1>3 DEF Company, Budget
<1> HIDE DEF u
<1>8. SameExcept(u, t, {"budget"})
  BY <1>6, <1>7, Budgeted
<1> HIDE DEF t
<1>9. /\ t.requests = s.requests /\ t.decisions = s.decisions /\ t.clock = s.clock
      /\ t.postings = s.postings /\ t.corrections = s.corrections
      /\ t.commitments = Put(s.commitments, r, e)
  BY <1>6, <1>8 DEF SameExcept, Fields
<1>10. /\ DOMAIN t.commitments = DOMAIN s.commitments \cup {r} /\ t.commitments[r] = e
       /\ \A q \in DOMAIN s.commitments \ {r} : t.commitments[q] = s.commitments[q]
  BY <1>9 DEF Put
<1>11. Reconciled(t, r)
  BY <1>3, <1>4, <1>9, <1>10 DEF Reconciled
<1>12. \A q \in DOMAIN s.commitments \ {r} : Reconciled(t, q)
  BY <1>9, <1>10 DEF Recorded, Reconciled
<1>13. Recorded(t)
  BY <1>9, <1>10, <1>11, <1>12 DEF Recorded, Dated
<1>14. \A q, j : LastApproval(s, q, j) => LastApproval(t, q, j)
  BY <1>9 DEF LastApproval
<1>15. Approved(t, r)
  BY <1>4, <1>9, <1>10, <1>14 DEF Approved, LastApproval
<1>16. \A q \in DOMAIN s.commitments \ {r} : Approved(t, q)
  BY <1>9, <1>10, <1>14 DEF Approved
<1> QED  BY <1>1, <1>10, <1>13, <1>15, <1>16 DEF Traceable

LEMMA DecidedTrace ==
  ASSUME NEW s, Company(s), Books(s), Traceable(s), NEW r \in 0 .. s.ids - 1, NEW revision, Revision(revision),
         revision.amount \in Nat, r \in DOMAIN s.requests => Current(s, r).amount <= revision.amount,
         "scopes" \in DOMAIN revision, r \in DOMAIN s.requests => revision.scopes = Current(s, r).scopes,
         NEW delta, revision.state = "approved" => HasCapacity(s, delta), NEW by
  PROVE  Traceable(Decided(s, r, revision, delta, by).state)
<1> DEFINE u == [s EXCEPT !.clock = s.clock + 1,
                          !.requests = Put(s.requests, r, IF r \in DOMAIN s.requests
                                                          THEN Append(s.requests[r], revision) ELSE <<revision>>)]
           d == BuildDecision(u, r, revision.state, FALSE, by)
           w == [u EXCEPT !.decisions = Append(u.decisions, d)]
           t == ApplyCommitmentReserve(w, r, revision.amount)
           result == Decided(s, r, revision, delta, by)
           n == Len(u.decisions) + 1
<1>1. SameExcept(s, u, {"clock", "requests"}) /\ Company(u)
  BY RevisionAdded
<1>2. /\ u.clock = s.clock + 1
      /\ u.requests = Put(s.requests, r, IF r \in DOMAIN s.requests
                                         THEN Append(s.requests[r], revision) ELSE <<revision>>)
  BY DEF Company, Fields
<1>3. result.state = IF revision.state # "approved" THEN w ELSE t
  BY DEF Decided, Result
<1>4. /\ d.request = r /\ d.outcome = revision.state /\ d.at = u.clock /\ d.revision = Len(u.requests[r])
  BY DEF BuildDecision
<1> HIDE DEF u, d, result
<1>5. SameExcept(u, w, {"decisions"}) /\ Company(w) /\ w.decisions = Append(u.decisions, d)
  BY <1>1, DecisionAdded
<1> HIDE DEF w
<1>6. SameExcept(s, w, {"requests", "decisions", "clock"}) /\ w.requests = u.requests /\ w.commitments = s.commitments
  BY <1>1, <1>5 DEF SameExcept, Fields
<1>7. Books(w) /\ r \in DOMAIN w.requests /\ Current(w, r) = revision
  <2> HIDE DEF Company, Books
  <2> QED  BY <1>2, <1>6, RevisionBooks
<1>8. Recorded(u) /\ \A q \in DOMAIN s.commitments : Approved(u, q)
  <2>1. SameExcept(s, u, {"requests", "clock"})
    BY <1>1 DEF SameExcept
  <2>2. Recorded(u) /\ \A q \in DOMAIN s.requests : Approved(s, q) => Approved(u, q)
    <3> HIDE DEF Company, Books
    <3> QED  BY <1>2, <2>1, RevisionTrace DEF Traceable
  <2>3. DOMAIN s.commitments \subseteq DOMAIN s.requests
    BY DEF Books, Reservations
  <2> QED  BY <2>2, <2>3 DEF Traceable
<1>9. /\ Recorded(w)
      /\ \A q : Approved(u, q) /\ (q # r \/ revision.state # "approved") => Approved(w, q)
      /\ revision.state = "approved" => LastApproval(w, r, n)
  <2> HIDE DEF Company, Books
  <2> QED  BY <1>1, <1>4, <1>5, <1>8, DecisionTrace
<1>10. CASE revision.state # "approved"
  <2>1. Traceable(w)
    BY <1>6, <1>8, <1>9, <1>10 DEF Traceable
  <2> QED  BY <1>3, <1>10, <2>1 DEF result
<1>11. CASE revision.state = "approved"
  <2> DEFINE k == w.decisions[n].revision
  <2>1. k = Len(w.requests[r])
    <3>1. List(u.decisions)
      BY <1>1 DEF Company
    <3>2. w.decisions[n] = d
      BY <1>5, <3>1, Lengthened
    <3> QED  BY <1>4, <1>6, <3>2
  <2>2. k \in DOMAIN w.requests[r] /\ w.requests[r][k] = revision
    <3>1. List(w.requests[r]) /\ w.requests[r] # <<>>
      BY <1>5, <1>7 DEF Company
    <3> QED  BY <1>7, <2>1, <3>1, LatestOf DEF Current
  <2>3. \A q \in DOMAIN w.commitments \ {r} : Approved(w, q)
    BY <1>6, <1>8, <1>9
  <2>4. Traceable(t)
    <3> HIDE DEF Company, Books, n
    <3> QED  BY <1>5, <1>7, <1>9, <1>11, <2>2, <2>3, ReservedTrace
  <2> QED  BY <1>3, <1>11, <2>4 DEF result
<1> QED  BY <1>10, <1>11
LEMMA CreatingTrace ==
  ASSUME NEW s, Company(s), Books(s), Traceable(s), NEW p, Parsed(p), p.op = "requests.create", NEW m
  PROVE  Traceable(CreateRequest(s, p, m).state)
<1> DEFINE u == [s EXCEPT !.ids = s.ids + 1]
           outcome == EvaluateMockPolicy(p.amount, 0, p.amount, s.budget.available)
           revision == [amount |-> p.amount, cumulative |-> 0, state |-> outcome, scopes |-> p.scopes]
           result == Decided(u, s.ids, revision, p.amount, m.id)
<1>1. CreateRequest(s, p, m).state = s \/ CreateRequest(s, p, m) = result
  BY DEF CreateRequest, Fail, Result
<1>2. SameExcept(s, u, {"ids"}) /\ u.ids = s.ids + 1
  BY DEF SameExcept, Company, Fields
<1> HIDE DEF u
<1>3. Company(u) /\ u.budget = s.budget /\ u.clock = s.clock /\ u.commitments = s.commitments
  BY <1>2 DEF SameExcept, Company, Fields
<1>4. Books(u)
  BY <1>2, SameBooks DEF SameExcept, Books, Reservations
<1>5. Traceable(u)
  <2>1. SameExcept(s, u, {"ledger", "forecasts", "clock", "memo", "ids"})
    BY <1>2 DEF SameExcept
  <2>2. u.clock \in Int /\ s.clock <= u.clock
    BY <1>3 DEF Traceable, Recorded, Dated
  <2> HIDE DEF Company, Books
  <2> QED  BY <1>3, <2>1, <2>2, SameTrace DEF Traceable
<1>6. outcome = "approved" => HasCapacity(u, p.amount)
  BY <1>3 DEF EvaluateMockPolicy, HasCapacity, Parsed, Company, Budget
<1> HIDE DEF outcome
<1>7. /\ Revision(revision) /\ revision.amount \in Nat /\ revision.state = outcome
      /\ "scopes" \in DOMAIN revision
  BY DEF Revision, Parsed
<1>8. s.ids \in 0 .. u.ids - 1 /\ s.ids \notin DOMAIN u.requests
  BY <1>2 DEF SameExcept, Fields, Books, Reservations
<1> HIDE DEF revision, Company, Books
<1>9. Traceable(result.state)
  BY <1>3, <1>4, <1>5, <1>6, <1>7, <1>8, DecidedTrace
<1> QED  BY <1>1, <1>9

LEMMA AmendingTrace ==
  ASSUME NEW s, Company(s), Books(s), Traceable(s), NEW p, Parsed(p), p.op = "requests.amend", NEW m
  PROVE  Traceable(AmendRequest(s, p, m).state)
<1> DEFINE request == Current(s, p.request)
           increase == p.amount - request.amount
           cumulative == request.cumulative + increase
           outcome == EvaluateMockPolicy(p.amount, cumulative, increase, s.budget.available)
           revision == [request EXCEPT !.amount = p.amount, !.cumulative = cumulative, !.state = outcome]
           result == Decided(s, p.request, revision, increase, m.id)
<1>1. \/ AmendRequest(s, p, m).state = s
      \/ AmendRequest(s, p, m) = result /\ p.request \in DOMAIN s.requests /\ ~(increase <= 0)
  BY DEF AmendRequest, Fail, Result
<1>2. CASE AmendRequest(s, p, m) = result /\ p.request \in DOMAIN s.requests /\ ~(increase <= 0)
  <2>1. Revision(request) /\ request.amount \in Nat
    BY <1>2, CurrentRevision DEF Books, Reservations
  <2>2. p.request \in 0 .. s.ids - 1
    BY <1>2 DEF Books, Reservations
  <2>3. "scopes" \in DOMAIN request
    <3>1. List(s.requests[p.request]) /\ s.requests[p.request] # <<>> /\ SameScopes(s.requests[p.request])
      BY <1>2 DEF Company, Traceable, Recorded
    <3> QED  BY <3>1, LatestOf DEF Current, SameScopes
  <2>4. p.amount \in Nat /\ increase \in Int /\ cumulative \in Int /\ request.amount <= p.amount
    <3> HIDE DEF request
    <3> QED  BY <1>2, <2>1 DEF Parsed, Revision
  <2> HIDE DEF increase, cumulative
  <2>5. outcome = "approved" => HasCapacity(s, increase)
    BY <2>4 DEF EvaluateMockPolicy, HasCapacity, Company, Budget
  <2> HIDE DEF outcome
  <2>6. /\ Revision(revision) /\ revision.amount = p.amount /\ revision.state = outcome
        /\ "scopes" \in DOMAIN revision /\ revision.scopes = request.scopes
    <3> HIDE DEF request
    <3> QED  BY <2>1, <2>3, <2>4 DEF Revision
  <2>7. Current(s, p.request).amount <= p.amount /\ revision.scopes = Current(s, p.request).scopes
    BY <2>4, <2>6
  <2> HIDE DEF revision, request, Company, Books
  <2>8. Traceable(result.state)
    BY <2>2, <2>4, <2>5, <2>6, <2>7, DecidedTrace
  <2> QED  BY <1>2, <2>8
<1> QED  BY <1>1, <1>2

LEMMA ReviewingTrace ==
  ASSUME NEW s, Company(s), Books(s), Traceable(s), NEW p, NEW m
  PROVE  Traceable(DecideReview(s, p, m).state)
<1> DEFINE request == Current(s, p.request)
           d == BuildDecision(s, p.request, p.outcome, TRUE, m.id)
           w == [s EXCEPT !.decisions = Append(s.decisions, d)]
           t == ApplyCommitmentReserve(w, p.request, request.amount)
           n == Len(s.decisions) + 1
<1>1. \/ DecideReview(s, p, m).state = s
      \/ DecideReview(s, p, m).state = w /\ p.outcome # "approved"
      \/ DecideReview(s, p, m).state = t /\ p.outcome = "approved" /\ p.request \in DOMAIN s.requests
  BY DEF DecideReview, Fail, Result
<1>2. /\ d.request = p.request /\ d.outcome = p.outcome /\ d.at = s.clock
      /\ d.revision = Len(s.requests[p.request])
  BY DEF BuildDecision
<1> HIDE DEF d
<1>3. SameExcept(s, w, {"decisions"}) /\ Company(w) /\ w.decisions = Append(s.decisions, d)
  BY DecisionAdded
<1> HIDE DEF w
<1>4. /\ Recorded(w)
      /\ \A q : Approved(s, q) /\ (q # p.request \/ p.outcome # "approved") => Approved(w, q)
      /\ p.outcome = "approved" => LastApproval(w, p.request, n)
  <2> HIDE DEF Company, Books
  <2> QED  BY <1>2, <1>3, DecisionTrace DEF Traceable
<1>5. w.requests = s.requests /\ w.commitments = s.commitments
  BY <1>3 DEF SameExcept, Fields
<1>6. p.outcome # "approved" => Traceable(w)
  BY <1>4, <1>5 DEF Traceable
<1>7. ASSUME p.outcome = "approved", p.request \in DOMAIN s.requests
      PROVE  Traceable(t)
  <2> DEFINE k == w.decisions[n].revision
  <2>1. k = Len(w.requests[p.request])
    <3>1. List(s.decisions)
      BY DEF Company
    <3>2. w.decisions[n] = d
      BY <1>3, <3>1, Lengthened
    <3> QED  BY <1>2, <1>5, <3>2
  <2>2. /\ k \in DOMAIN w.requests[p.request] /\ w.requests[p.request][k] = request
        /\ Current(w, p.request) = request
    <3>1. List(w.requests[p.request]) /\ w.requests[p.request] # <<>>
      BY <1>3, <1>5, <1>7 DEF Company
    <3> QED  BY <1>5, <2>1, <3>1, LatestOf DEF Current
  <2>3. \A q \in DOMAIN w.commitments \ {p.request} : Approved(w, q)
    BY <1>4, <1>5 DEF Traceable
  <2>4. request.amount \in Nat
    BY <1>7 DEF Books, Reservations
  <2>5. Books(w)
    <3>1. w.ids = s.ids /\ s.ids \in Nat
      BY <1>3 DEF SameExcept, Fields, Books, Reservations
    <3>2. SameExcept(s, w, {"decisions", "ledger", "forecasts", "clock", "memo", "ids"})
      BY <1>3 DEF SameExcept
    <3> QED  BY <3>1, <3>2, SameBooks
  <2>6. w.requests[p.request][k].amount = request.amount /\ Current(w, p.request).amount = request.amount
    BY <2>2
  <2> HIDE DEF Company, Books, request, n
  <2> QED  BY <1>3, <1>4, <1>5, <1>7, <2>2, <2>3, <2>4, <2>5, <2>6, ReservedTrace
<1> HIDE DEF w, t
<1> QED  BY <1>1, <1>6, <1>7
\* What recording a posting changes, of one that fits its commitment.
LEMMA PostedTrace ==
  ASSUME NEW s, Company(s), Books(s), Traceable(s), NEW posting, posting.amount \in Nat, posting.at \in Int,
         NEW r, posting.request = r, r # NoRequest => r \in DOMAIN s.commitments,
         NEW t, t.postings = Append(s.postings, posting),
         t.requests = s.requests, t.decisions = s.decisions, t.corrections = s.corrections, t.clock = s.clock,
         DOMAIN t.commitments = DOMAIN s.commitments,
         \A q \in DOMAIN s.commitments \ {r} : t.commitments[q] = s.commitments[q],
         r \in DOMAIN s.commitments =>
           LET c == s.commitments[r]
           IN  /\ DOMAIN t.commitments[r] = DOMAIN c /\ t.commitments[r].created = c.created
               /\ t.commitments[r].amount = c.amount
               /\ t.commitments[r].outstanding = c.outstanding - posting.amount
  PROVE  Traceable(t)
<1>1. List(s.postings) /\ Amounts(s.postings)
  BY DEF Company, Books, Balanced
<1>2. posting.amount \in Int
  OBVIOUS
<1> DEFINE n == Len(s.postings) + 1
<1>3. /\ DOMAIN t.postings = DOMAIN s.postings \cup {n} /\ t.postings[n] = posting
      /\ \A i \in DOMAIN s.postings : t.postings[i] = s.postings[i]
  BY <1>1, Lengthened
<1> HIDE DEF n
<1>4. Recorded(s) /\ Dated(s)
  BY DEF Traceable, Recorded
<1>5. Dated(t)
  BY <1>3, <1>4 DEF Dated
<1>6. \A q : /\ SpentOn(s.postings, q) \in Int
             /\ SpentOn(t.postings, q) = SpentOn(s.postings, q) + IF q = r THEN posting.amount ELSE 0
  BY <1>1, <1>2, SpentOnMore
<1>7. \A q \in DOMAIN s.commitments \ {r} : Reconciled(t, q)
  <2>1. \A q \in DOMAIN s.commitments \ {r} : SpentOn(t.postings, q) = SpentOn(s.postings, q)
    BY <1>6
  <2> QED  BY <1>4, <2>1 DEF Recorded, Reconciled
<1>8. r \in DOMAIN s.commitments => Reconciled(t, r)
  <2> SUFFICES ASSUME r \in DOMAIN s.commitments  PROVE Reconciled(t, r)
    OBVIOUS
  <2> DEFINE c == s.commitments[r]
             e == t.commitments[r]
             before == SpentOn(s.postings, r)
  <2>1. /\ "created" \in DOMAIN c /\ c.created \in Int /\ c.created <= s.clock /\ c.outstanding = c.amount - before
        /\ c.amount \in Nat
    BY <1>4 DEF Recorded, Reconciled, Books, Reservations
  <2>2. SpentOn(t.postings, r) = before + posting.amount /\ before \in Int
    BY <1>6
  <2>3. DOMAIN e = DOMAIN c /\ e.created = c.created /\ e.amount = c.amount /\ e.outstanding = c.outstanding - posting.amount
    OBVIOUS
  <2> HIDE DEF c, e, before
  <2>4. e.outstanding = e.amount - SpentOn(t.postings, r)
    BY <1>2, <2>1, <2>2, <2>3
  <2> QED  BY <2>1, <2>3, <2>4 DEF Reconciled, e
<1>9. \A id : HasId(s.postings, id) => HasId(t.postings, id)
  BY <1>3 DEF HasId
<1>10. Recorded(t)
  <2>1. \A q \in DOMAIN t.commitments : Reconciled(t, q)
    BY <1>7, <1>8
  <2>2. \A i \in DOMAIN t.postings : t.postings[i].request # NoRequest => t.postings[i].request \in DOMAIN t.commitments
    BY <1>3, <1>4 DEF Recorded
  <2> QED  BY <1>4, <1>5, <1>9, <2>1, <2>2 DEF Recorded
<1>11. \A q \in DOMAIN s.commitments : Approved(t, q)
  <2>1. \A q \in DOMAIN s.commitments : t.commitments[q].amount = s.commitments[q].amount
    OBVIOUS
  <2> QED  BY <2>1 DEF Traceable, Approved, LastApproval
<1> QED  BY <1>10, <1>11 DEF Traceable

LEMMA RecordingTrace ==
  ASSUME NEW s, Company(s), Books(s), Traceable(s), NEW p, Parsed(p), p.op = "postings.record", NEW m
  PROVE  Traceable(RecordPosting(s, p, m).state)
<1> DEFINE linked == p.request # NoRequest
           posting == [id |-> p.posting, amount |-> p.amount, request |-> p.request, at |-> p.at, revision |-> 1,
                       scopes |-> p.scopes, by |-> m.id]
           reserved == s.commitments[p.request]
           spent == [reserved EXCEPT !.outstanding = reserved.outstanding - p.amount, !.revision = reserved.revision + 1]
           state == CASE spent.outstanding = 0 -> "posted"
                      [] spent.outstanding # 0 /\ spent.outstanding < spent.amount -> "partially_posted"
                      [] OTHER -> "outstanding"
           k == [spent EXCEPT !.state = state]
           after == IF linked THEN [s.commitments EXCEPT ![p.request] = k] ELSE s.commitments
           drawn == IF linked THEN p.amount ELSE 0
           u == [s EXCEPT !.postings = Append(s.postings, posting), !.commitments = after]
           t == RefreshBudget(u, s.budget.recognized + p.amount, s.budget.outstanding - drawn)
<1>1. \/ RecordPosting(s, p, m).state = s
      \/ RecordPosting(s, p, m).state = t /\ (linked => p.request \in DOMAIN s.commitments)
  BY DEF RecordPosting, Fail, Result, RefreshCommitmentState
<1>2. ASSUME linked => p.request \in DOMAIN s.commitments
      PROVE  Traceable(t)
  <2>1. /\ p.amount \in Nat /\ p.at \in Int /\ drawn \in Int
        /\ posting.amount = p.amount /\ posting.at = p.at /\ posting.request = p.request
    BY DEF Parsed
  <2>2. linked =>
          /\ DOMAIN k = DOMAIN reserved /\ k.created = reserved.created /\ k.amount = reserved.amount
          /\ k.outstanding = reserved.outstanding - p.amount
          /\ Commitment(k)
    <3> SUFFICES ASSUME linked
                 PROVE  /\ DOMAIN k = DOMAIN reserved /\ k.created = reserved.created /\ k.amount = reserved.amount
                        /\ k.outstanding = reserved.outstanding - p.amount
                        /\ Commitment(k)
      OBVIOUS
    <3>1. Commitment(reserved) /\ "created" \in DOMAIN reserved
      BY <1>2 DEF Company, Traceable, Recorded, Reconciled
    <3> HIDE DEF reserved, state
    <3> QED  BY <2>1, <3>1 DEF Commitment
  <2> HIDE DEF k
  <2>3. /\ DOMAIN after = DOMAIN s.commitments
        /\ \A q \in DOMAIN s.commitments \ {p.request} : after[q] = s.commitments[q]
        /\ linked => after[p.request] = k
    BY <1>2
  <2>4. p.request \in DOMAIN s.commitments => linked
    BY DEF Books, Reservations, NoRequest
  <2>5. \A q \in DOMAIN after : Commitment(after[q])
    BY <2>2, <2>3, <2>4 DEF Company
  <2>6. List(Append(s.postings, posting))
    BY Lengthened DEF Company
  <2> HIDE DEF after, posting, drawn
  <2>7. /\ SameExcept(s, u, {"postings", "commitments"})
        /\ u.postings = Append(s.postings, posting) /\ u.commitments = after
    BY DEF SameExcept, Company, Fields
  <2> HIDE DEF u
  <2>8. Company(u)
    BY <2>5, <2>6, <2>7 DEF SameExcept, Company, Fields
  <2>9. s.budget.recognized + p.amount \in Int /\ s.budget.outstanding - drawn \in Int
    BY <2>1 DEF Company, Budget
  <2>10. SameExcept(u, t, {"budget"})
    BY <2>8, <2>9, Budgeted
  <2> HIDE DEF t
  <2>11. /\ t.commitments = after /\ t.requests = s.requests /\ t.decisions = s.decisions
         /\ t.postings = Append(s.postings, posting) /\ t.corrections = s.corrections /\ t.clock = s.clock
    BY <2>7, <2>10 DEF SameExcept, Fields
  <2> DEFINE r == p.request
  <2>12. /\ posting.request = r /\ posting.amount \in Nat /\ posting.at \in Int
         /\ r # NoRequest => r \in DOMAIN s.commitments
    BY <1>2, <2>1
  <2>13. r \in DOMAIN s.commitments =>
           LET c == s.commitments[r]
           IN  /\ DOMAIN t.commitments[r] = DOMAIN c /\ t.commitments[r].created = c.created
               /\ t.commitments[r].amount = c.amount
               /\ t.commitments[r].outstanding = c.outstanding - posting.amount
    BY <2>1, <2>2, <2>3, <2>4, <2>11
  <2>14. /\ DOMAIN t.commitments = DOMAIN s.commitments
         /\ \A q \in DOMAIN s.commitments \ {r} : t.commitments[q] = s.commitments[q]
    BY <2>3, <2>11
  <2> HIDE DEF r, Company, Books, linked
  <2> QED  BY <2>11, <2>12, <2>13, <2>14, PostedTrace
<1> HIDE DEF t
<1> QED  BY <1>1, <1>2

LEMMA CorrectingTrace ==
  ASSUME NEW s, Company(s), Traceable(s), NEW p, Parsed(p), p.op = "postings.correct", NEW m
  PROVE  Traceable(CorrectPosting(s, p, m).state)
<1> DEFINE correction == [id |-> p.correction, posting |-> p.posting, amount |-> p.amount, at |-> p.at, by |-> m.id]
           u == [s EXCEPT !.corrections = Append(s.corrections, correction)]
           t == RefreshBudget(u, s.budget.recognized + p.amount, s.budget.outstanding)
           n == Len(s.corrections) + 1
<1>1. \/ CorrectPosting(s, p, m).state = s
      \/ CorrectPosting(s, p, m).state = t /\ HasId(s.postings, p.posting)
  BY DEF CorrectPosting, Fail, Result
<1>2. /\ p.amount \in Int /\ correction.at \in Int /\ correction.posting = p.posting
  BY DEF Parsed
<1>3. List(Append(s.corrections, correction))
  BY Lengthened DEF Company
<1> HIDE DEF correction
<1>4. SameExcept(s, u, {"corrections"}) /\ u.corrections = Append(s.corrections, correction)
  BY DEF SameExcept, Company, Fields
<1> HIDE DEF u
<1>5. Company(u)
  BY <1>3, <1>4 DEF SameExcept, Company, Fields
<1>6. s.budget.recognized + p.amount \in Int /\ s.budget.outstanding \in Int
  BY <1>2 DEF Company, Budget
<1>7. SameExcept(u, t, {"budget"})
  BY <1>5, <1>6, Budgeted
<1> HIDE DEF t
<1>8. /\ t.commitments = s.commitments /\ t.requests = s.requests /\ t.decisions = s.decisions
      /\ t.postings = s.postings /\ t.corrections = Append(s.corrections, correction) /\ t.clock = s.clock
  BY <1>4, <1>7 DEF SameExcept, Fields
<1>9. \A i \in DOMAIN t.corrections : \/ i \in DOMAIN s.corrections /\ t.corrections[i] = s.corrections[i]
                                      \/ t.corrections[i] = correction
  <2>1. List(s.corrections)
    BY DEF Company
  <2>2. /\ DOMAIN t.corrections = DOMAIN s.corrections \cup {n} /\ t.corrections[n] = correction
        /\ \A i \in DOMAIN s.corrections : t.corrections[i] = s.corrections[i]
    BY <1>8, <2>1, Lengthened
  <2> HIDE DEF n
  <2> QED  BY <2>2
<1>10. HasId(s.postings, p.posting) => Recorded(t)
  <2>1. Dated(t)
    BY <1>2, <1>8, <1>9 DEF Traceable, Recorded, Dated
  <2>2. HasId(s.postings, p.posting) =>
          \A i \in DOMAIN t.corrections : HasId(t.postings, t.corrections[i].posting)
    BY <1>2, <1>8, <1>9 DEF Traceable, Recorded
  <2>3. \A r \in DOMAIN t.commitments : Reconciled(t, r)
    BY <1>8 DEF Traceable, Recorded, Reconciled
  <2> QED  BY <1>8, <2>1, <2>2, <2>3 DEF Traceable, Recorded
<1>11. \A r \in DOMAIN t.commitments : Approved(t, r)
  BY <1>8 DEF Traceable, Approved, LastApproval
<1> QED  BY <1>1, <1>10, <1>11 DEF Traceable
LEMMA OtherTrace ==
  ASSUME NEW s, Company(s), Traceable(s), NEW t, SameExcept(s, t, {"ledger", "forecasts", "clock", "memo"}),
         t.clock = s.clock \/ t.clock = s.clock + 1
  PROVE  Traceable(t)
<1>1. SameExcept(s, t, {"ledger", "forecasts", "clock", "memo", "ids"}) /\ t.commitments = s.commitments
  BY DEF SameExcept, Fields
<1>2. s.clock \in Nat
  BY DEF Traceable, Recorded, Dated
<1>3. t.clock \in Int /\ s.clock <= t.clock
  BY <1>2
<1> HIDE DEF Company
<1> QED  BY <1>1, <1>3, SameTrace DEF Traceable

LEMMA IngestingTrace ==
  ASSUME NEW s, Company(s), Traceable(s), NEW p, NEW m
  PROVE  Traceable(IngestSource(s, p, m).state)
<1>1. \E ledger : IngestSource(s, p, m).state = s \/ IngestSource(s, p, m).state = [s EXCEPT !.ledger = ledger]
  BY DEF IngestSource, Result
<1>2. ASSUME NEW ledger
      PROVE  LET t == [s EXCEPT !.ledger = ledger]
             IN  SameExcept(s, t, {"ledger", "forecasts", "clock", "memo"}) /\ t.clock = s.clock
  BY DEF SameExcept, Company, Fields
<1> HIDE DEF Company, Traceable
<1> QED  BY <1>1, <1>2, OtherTrace

LEMMA ForecastingTrace ==
  ASSUME NEW s, Company(s), Traceable(s), NEW p, NEW m
  PROVE  Traceable(RunForecast(s, p, m).state)
<1>1. \E forecasts : \/ RunForecast(s, p, m).state = s
                     \/ RunForecast(s, p, m).state = [s EXCEPT !.forecasts = forecasts, !.clock = s.clock + 1]
  BY DEF RunForecast, Result, Fail
<1>2. ASSUME NEW forecasts
      PROVE  LET t == [s EXCEPT !.forecasts = forecasts, !.clock = s.clock + 1]
             IN  SameExcept(s, t, {"ledger", "forecasts", "clock", "memo"}) /\ t.clock = s.clock + 1
  BY DEF SameExcept, Company, Fields
<1> HIDE DEF Company, Traceable
<1> QED  BY <1>1, <1>2, OtherTrace

LEMMA ExecutingTrace ==
  ASSUME NEW s, Company(s), Books(s), Traceable(s), NEW p, Parsed(p), NEW m
  PROVE  Traceable(Execute(s, p, m).state)
<1>1. p.op \in Operations
  BY DEF Parsed
<1> HIDE DEF Company, Books, Traceable
<1> QED  BY <1>1, CreatingTrace, AmendingTrace, ReviewingTrace, RecordingTrace, CorrectingTrace,
            IngestingTrace, ForecastingTrace DEF Execute, Operations

LEMMA DispatchingTrace ==
  ASSUME NEW s, Company(s), Books(s), Traceable(s), NEW m, Parsed(m.p)
  PROVE  Traceable(Dispatch(s, m).state)
<1> DEFINE r == Execute(s, m.p, m)
           memo == Put(r.state.memo, m.id, [payload |-> m.p, data |-> r.data])
           t == [r.state EXCEPT !.memo = memo]
<1>1. Dispatch(s, m).state \in {s, r.state, t}
  BY DEF Dispatch, Reply
<1>2. Traceable(r.state) /\ Company(r.state)
  <2>1. Traceable(r.state)
    BY ExecutingTrace
  <2>2. Sound(r, s, m.p, m.id)
    BY Executing
  <2> HIDE DEF Company, r
  <2> QED  BY <2>1, <2>2 DEF Sound, Succeeds
<1> HIDE DEF r, memo
<1>3. SameExcept(r.state, t, {"ledger", "forecasts", "clock", "memo"}) /\ t.clock = r.state.clock
  BY <1>2 DEF SameExcept, Company, Fields
<1> HIDE DEF t, Company, Traceable
<1>4. Traceable(t)
  BY <1>2, <1>3, OtherTrace
<1> QED  BY <1>1, <1>2, <1>4

LEMMA SeededTrace ==
  ASSUME NEW time \in Nat, NEW ids
  PROVE  Traceable(Seed(time, ids))
<1> DEFINE s == Seed(time, ids)
           request == [amount |-> SeedAmount, cumulative |-> 0, state |-> "approved", scopes |-> Registered]
           decision == [request |-> SeedRequest, revision |-> 1, outcome |-> "approved", human |-> FALSE, at |-> 0, by |-> 0]
           c == [amount |-> SeedAmount, outstanding |-> SeedAmount, revision |-> 1, state |-> "outstanding", created |-> 0]
           spend == [id |-> 0, amount |-> SeedSpend, request |-> NoRequest, at |-> 0, revision |-> 1,
                     scopes |-> {"organization", "department"}, by |-> 0]
<1>1. /\ s.clock = time /\ s.commitments = [r \in {SeedRequest} |-> c]
      /\ s.requests = [r \in {SeedRequest} |-> <<request>>] /\ s.decisions = <<decision>>
      /\ s.postings = <<spend>> /\ s.corrections = <<>>
  BY DEF Seed
<1>2. /\ "scopes" \in DOMAIN request /\ request.amount = SeedAmount
      /\ decision.request = SeedRequest /\ decision.revision = 1 /\ decision.outcome = "approved" /\ decision.at = 0
      /\ "created" \in DOMAIN c /\ c.created = 0 /\ c.amount = SeedAmount /\ c.outstanding = SeedAmount
      /\ spend.request = NoRequest /\ spend.at = 0
  OBVIOUS
<1> HIDE DEF s, request, decision, c, spend
<1>3. SeedRequest = 0 /\ NoRequest = -1 /\ SeedAmount \in Nat
  BY BudgetAssumption DEF SeedRequest, NoRequest
<1>4. /\ DOMAIN s.requests = {0} /\ DOMAIN s.requests[0] = {1} /\ s.requests[0][1] = request
      /\ DOMAIN s.commitments = {0} /\ s.commitments[0] = c
      /\ DOMAIN s.decisions = {1} /\ s.decisions[1] = decision
      /\ DOMAIN s.postings = {1} /\ s.postings[1] = spend /\ DOMAIN s.corrections = {}
  BY <1>1, <1>3, ShortLists
<1>5. Dated(s)
  BY <1>1, <1>2, <1>4 DEF Dated
<1>6. Reconciled(s, 0)
  <2>1. For(s.postings, 0) = {}
    BY <1>2, <1>3, <1>4 DEF For
  <2>2. SpentOn(s.postings, 0) = 0
    BY <2>1, NothingSpent
  <2> QED  BY <1>1, <1>2, <1>3, <1>4, <2>2 DEF Reconciled
<1>7. SameScopes(s.requests[0])
  BY <1>2, <1>4 DEF SameScopes
<1>8. Approved(s, 0)
  BY <1>2, <1>3, <1>4 DEF Approved, LastApproval
<1> QED  BY <1>2, <1>4, <1>5, <1>6, <1>7, <1>8 DEF Traceable, Recorded, s

-----------------------------------------------------------------------------
LEMMA LargestIs ==
  ASSUME NEW S \in SUBSET Int, NEW x \in S, \A y \in S : y <= x
  PROVE  Max(S) = x
<1>1. \A y \in S : x >= y
  OBVIOUS
<1>2. Max(S) \in S /\ \A y \in S : Max(S) >= y
  BY <1>1 DEF Max
<1> DEFINE largest == Max(S)
<1>3. largest \in Int /\ x \in Int /\ largest <= x /\ largest >= x
  BY <1>2
<1> HIDE DEF largest
<1>4. largest = x
  BY <1>3
<1> QED  BY <1>4 DEF largest

LEMMA OutstandingAgrees ==
  ASSUME NEW s, Company(s), Books(s), Traceable(s), NEW scope, NEW cutoff \in Int, s.clock <= cutoff,
         PostingsAt(s, scope, cutoff) = DOMAIN s.postings,
         NEW r \in DOMAIN s.commitments, scope \in Current(s, r).scopes
  PROVE  OutstandingOf(s, r, scope, cutoff) = s.commitments[r].outstanding
<1> DEFINE c == s.commitments[r]
           A == ApprovedAt(s, r, cutoff)
<1>1. /\ r \in DOMAIN s.requests /\ c.amount \in Nat /\ c.outstanding \in 0 .. c.amount
      /\ List(s.requests[r]) /\ s.requests[r] # <<>> /\ SameScopes(s.requests[r])
      /\ List(s.decisions)
  BY DEF Company, Books, Reservations, Traceable, Recorded
<1>2. c.created \in Int /\ c.created <= s.clock /\ c.outstanding = c.amount - SpentOn(s.postings, r)
  BY DEF Traceable, Recorded, Reconciled
<1>3. s.clock \in Int /\ \A i \in DOMAIN s.decisions : s.decisions[i].at \in Int /\ s.decisions[i].at <= s.clock
  BY DEF Traceable, Recorded, Dated
<1>4. ~(c.created > cutoff)
  BY <1>2, <1>3
<1>5. PICK i \in DOMAIN s.decisions :
             /\ LastApproval(s, r, i) /\ s.decisions[i].revision \in DOMAIN s.requests[r]
             /\ s.requests[r][s.decisions[i].revision].amount = c.amount
  BY DEF Traceable, Approved
<1>6. \A j \in DOMAIN s.decisions : s.decisions[j].at <= cutoff
  BY <1>3
<1>7. A \in SUBSET Int /\ i \in A /\ \A j \in A : j <= i
  <2>1. DOMAIN s.decisions \subseteq Int
    BY <1>1, Lengthened
  <2> QED  BY <1>5, <1>6, <2>1 DEF ApprovedAt, LastApproval
<1>8. Max(A) = i
  <2> HIDE DEF A
  <2> QED  BY <1>7, LargestIs
<1>9. SpentAt(s, r, scope, cutoff) = SpentOn(s.postings, r)
  BY DEF SpentAt, SpentOn, For
<1> DEFINE approved == s.requests[r][s.decisions[i].revision]
<1>10. scope \in approved.scopes /\ approved.amount = c.amount
  <2>1. Current(s, r).scopes = approved.scopes
    BY <1>1, <1>5, LatestOf DEF Current, SameScopes
  <2> QED  BY <1>5, <2>1
<1>11. Max({0, c.outstanding}) = c.outstanding
  <2> DEFINE d == c.outstanding
             S == {0, d}
  <2>1. S \in SUBSET Int /\ d \in S /\ \A y \in S : y <= d
    BY <1>1
  <2> HIDE DEF S, d
  <2>2. Max(S) = d
    BY <2>1, LargestIs
  <2> QED  BY <2>2 DEF S, d
<1>12. OutstandingOf(s, r, scope, cutoff) = Max({0, approved.amount - SpentAt(s, r, scope, cutoff)})
  <2>1. A # {}
    BY <1>7
  <2>2. ~(r \notin DOMAIN s.commitments \/ s.commitments[r].created > cutoff \/ ApprovedAt(s, r, cutoff) = {})
    BY <1>4, <2>1
  <2>3. s.requests[r][s.decisions[Max(ApprovedAt(s, r, cutoff))].revision] = approved
    BY <1>8
  <2> HIDE DEF approved, A
  <2> QED  BY <1>10, <2>2, <2>3 DEF OutstandingOf
<1> QED  BY <1>2, <1>9, <1>10, <1>11, <1>12

\* A forecast that reads all of the records.
LEMMA ForecastAgrees ==
  ASSUME NEW s, Company(s), Books(s), Traceable(s), NEW scope, NEW cutoff \in Moments(s),
         \A t \in Moments(s) : t <= cutoff,
         \A i \in DOMAIN s.postings : scope \in s.postings[i].scopes,
         \A r \in DOMAIN s.commitments : scope \in Current(s, r).scopes
  PROVE  /\ Actual(s, scope, cutoff) = s.budget.recognized
         /\ Outstanding(s, scope, cutoff) = s.budget.outstanding
<1>1. Dated(s) /\ cutoff \in Int /\ s.clock <= cutoff
  <2>1. Dated(s)
    BY DEF Traceable, Recorded
  <2> QED  BY <2>1 DEF Dated, Moments
<1>2. PostingsAt(s, scope, cutoff) = DOMAIN s.postings
  BY DEF PostingsAt, Moments
<1>3. CorrectionsAt(s, scope, cutoff) = DOMAIN s.corrections
  BY <1>2 DEF CorrectionsAt, Moments, Traceable, Recorded, HasId
<1>4. Actual(s, scope, cutoff) = s.budget.recognized
  BY <1>2, <1>3 DEF Actual, AmountOfThose, Total, AmountOf, Books, Balanced
<1> DEFINE f == [r \in DOMAIN s.requests |-> OutstandingOf(s, r, scope, cutoff)]
           g == [r \in DOMAIN s.commitments |-> s.commitments[r].outstanding]
           S == DOMAIN s.requests
           T == DOMAIN s.commitments
<1>5. T \in SUBSET S /\ IsFiniteSet(S) /\ g \in [T -> Int]
  <2>1. IsFiniteSet(0 .. s.ids - 1)
    BY FS_Interval DEF Books, Reservations
  <2>2. S \subseteq 0 .. s.ids - 1
    BY DEF Books, Reservations
  <2>3. IsFiniteSet(S)
    BY <2>1, <2>2, FS_Subset
  <2> QED  BY <2>3 DEF Books, Reservations
<1>6. \A r \in T : f[r] = g[r]
  <2> SUFFICES ASSUME NEW r \in T  PROVE f[r] = g[r]
    OBVIOUS
  <2>1. r \in S /\ scope \in Current(s, r).scopes
    BY <1>5
  <2>2. OutstandingOf(s, r, scope, cutoff) = s.commitments[r].outstanding
    <3> HIDE DEF Company, Books, Traceable
    <3> QED  BY <1>1, <1>2, <2>1, OutstandingAgrees
  <2> QED  BY <2>1, <2>2
<1>7. \A r \in S \ T : f[r] = 0
  BY DEF OutstandingOf
<1>8. f \in [S -> Int]
  <2>1. f = [r \in S |-> f[r]] /\ \A r \in T : g[r] \in Int
    BY <1>5
  <2> HIDE DEF f, g, S, T
  <2>2. \A r \in S : f[r] \in Int
    BY <1>6, <1>7, <2>1
  <2> QED  BY <2>1, <2>2
<1>9. Outstanding(s, scope, cutoff) = SumFunction(f) /\ s.budget.outstanding = SumFunction(g)
  BY DEF Outstanding, Books, Balanced, OutstandingSum
<1> HIDE DEF f, g, S, T
<1>10. SumFunction(f) = SumFunction(g)
  BY <1>5, <1>6, <1>7, <1>8, SumWithoutZeros
<1> QED  BY <1>4, <1>9, <1>10

LEMMA TraceStart == MockInit => Traceable(company)
<1> HIDE DEF Traceable
<1> QED  BY SeededTrace DEF MockInit

LEMMA TraceStep == MockInv /\ Books(company) /\ Traceable(company) /\ [MockNext]_svars => Traceable(company')
<1> SUFFICES ASSUME MockInv, Books(company), Traceable(company), [MockNext]_svars  PROVE Traceable(company')
  OBVIOUS
<1>1. CASE UNCHANGED company
  BY <1>1
<1>2. ASSUME NEW m \in wire, Handle(m)
      PROVE  Traceable(company')
  <2>1. Parsed(m.p) /\ Company(company) /\ company' = Dispatch(company, m).state
    BY <1>2 DEF MockInv, Message, Handle
  <2> HIDE DEF Company, Books, Traceable
  <2> QED  BY <2>1, DispatchingTrace
<1>3. CASE ResetCompany
  <2>1. company' = Seed(company.clock, company.ids) /\ company.clock \in Nat
    BY <1>3 DEF ResetCompany, Reset, Traceable, Recorded, Dated
  <2> HIDE DEF Traceable
  <2> QED  BY <2>1, SeededTrace
<1> HIDE DEF Traceable
<1> QED  BY <1>1, <1>2, <1>3 DEF MockNext, Send, Timeout, Resend, svars

(***************************************************************************)
(* A forecast over everything recorded finds the spend and the open        *)
(* commitments of the budget account, from other records than the account   *)
(* is kept by: for any budget and policy, any parsed commands, sent and     *)
(* sent again, and any number of resets between them.                      *)
(***************************************************************************)
THEOREM ForecastsFindTheBudget == MockSpec /\ []InputsAreParsed => []ForecastAgreesWithBudget
<1> DEFINE Inv == MockInv /\ Books(company) /\ Traceable(company)
<1>1. Inv => ForecastAgreesWithBudget
  <2> SUFFICES ASSUME Inv  PROVE ForecastAgreesWithBudget
    OBVIOUS
  <2>1. Company(company) /\ Books(company) /\ Traceable(company)
    BY DEF MockInv
  <2> HIDE DEF Inv, Company, Books, Traceable
  <2> QED  BY <2>1, ForecastAgrees DEF ForecastAgreesWithBudget
<1>2. MockInit => Inv
  BY MockStarts, BooksStart, TraceStart
<1>3. Inv /\ InputsAreParsed /\ [MockNext]_svars => Inv'
  <2> HIDE DEF MockInv, Books, Traceable
  <2> QED  BY MockStep, BooksStep, TraceStep
<1> HIDE DEF Inv
<1> QED  BY <1>1, <1>2, <1>3, PTL DEF MockSpec

-----------------------------------------------------------------------------
(***************************************************************************)
(* The review page: WebWorkspace.                                          *)
(***************************************************************************)
LEMMA Replaced ==
  ASSUME NEW x, List(x), NEW n \in DOMAIN x, NEW e
  PROVE  LET y == [x EXCEPT ![n] = e]
         IN  /\ List(y) /\ Len(y) = Len(x) /\ DOMAIN y = DOMAIN x /\ y[n] = e
             /\ \A i \in DOMAIN x : i # n => y[i] = x[i]
<1>1. PICK S : x \in Seq(S)
  BY DEF List
<1>2. x \in Seq(S \cup {e})
  BY <1>1
<1>3. [x EXCEPT ![n] = e] \in Seq(S \cup {e}) /\ Len([x EXCEPT ![n] = e]) = Len(x)
  BY <1>2
<1> QED  BY <1>3 DEF List

PageFields == {"company", "demo", "stream", "data", "error", "loading", "dialog", "approving", "dirty"}

PageInv ==
  /\ page = [field \in PageFields |-> page[field]]
  /\ page.company \in Companies /\ page.loading \in BOOLEAN /\ page.dirty \in BOOLEAN
  /\ page.approving = NotApproving \/ page.approving.company \in Companies

\* What a load that is not over has found.
Loading(n, load) ==
  /\ {"company", "step", "read", "fault"} \subseteq DOMAIN load
  /\ load.company \in Companies /\ load.step # "over"
  /\ load.read = NoData \/ (load.read.load = n /\ load.read.company = load.company)

LoadsInv ==
  /\ List(loads) /\ loads # <<>>
  /\ \A n \in DOMAIN loads : loads[n] = Over \/ Loading(n, loads[n])
  /\ LET latest == loads[Len(loads)] IN latest = Over \/ latest.company = page.company

\* The requests of the page and of its tabs.
Requested(m) ==
  /\ m.company \in Companies
  /\ \/ \E nth \in {1, 2} : m = Amend(m.company, nth)
     \/ \E r : m = ApproveReview(m.company, r)

\* A human's decision is remembered as what was asked for.
Remembers(s) ==
  /\ Company(s)
  /\ \A r : <<"decide", r>> \in DOMAIN s.memo => s.memo[<<"decide", r>>].payload = Decision(r)
  /\ \A i \in DOMAIN s.decisions :
       s.decisions[i].human = TRUE => <<"decide", s.decisions[i].revision>> \in DOMAIN s.memo

ServerInv == server = [c \in Companies |-> server[c]] /\ \A c \in Companies : Remembers(server[c])

WebInv == PageInv /\ LoadsInv /\ PageShowsSelection /\ ServerInv /\ \A m \in strays : Requested(m)

LEMMA RequestsAreParsed ==
  ASSUME NEW m, Requested(m)
  PROVE  Parsed(m.p) /\ m.fault = "none" /\ m.principal # "unknown"
BY WorkspaceAssumption DEF Requested, Amend, ApproveReview, Command, Decision, Parsed, Operations

LEMMA Asked ==
  ASSUME NEW c \in Companies
  PROVE  /\ \A nth \in {1, 2} : Requested(Amend(c, nth)) /\ Amend(c, nth).company = c
         /\ \A r : Requested(ApproveReview(c, r)) /\ ApproveReview(c, r).company = c
BY DEF Requested, Amend, ApproveReview, Command

\* However a request of the page is answered, human decisions stay remembered.
LEMMA Served ==
  ASSUME NEW s, Remembers(s), NEW m, Requested(m)
  PROVE  /\ Remembers(Dispatch(s, m).state) /\ Answered(Dispatch(s, m), s, m)
<1> DEFINE reply == Dispatch(s, m)
           t == reply.state
<1>1. Answered(reply, s, m)
  BY RequestsAreParsed, Dispatching DEF Remembers
<1> HIDE DEF reply
<1>2. CASE t = s
  BY <1>1, <1>2 DEF reply
<1>3. CASE Carried(s, t, m)
  <2>1. /\ Company(t) /\ DOMAIN t.memo = DOMAIN s.memo \cup {m.id} /\ t.memo[m.id].payload = m.p
        /\ \A id \in DOMAIN s.memo : t.memo[id] = s.memo[id]
    BY <1>3 DEF Carried
  <2>2. CASE \E nth \in {1, 2} : m = Amend(m.company, nth)
    <3>1. (\A r : m.id # <<"decide", r>>) /\ m.p.op = "requests.amend"
      BY <2>2 DEF Amend, Command
    <3>2. \A i \in DOMAIN t.decisions :
            t.decisions[i].human = TRUE => i \in DOMAIN s.decisions /\ t.decisions[i] = s.decisions[i]
      BY <1>3, <3>1 DEF Carried
    <3> HIDE DEF t
    <3> QED  BY <1>1, <2>1, <3>1, <3>2 DEF Remembers, t, reply
  <2>3. ASSUME NEW r, m = ApproveReview(m.company, r)
        PROVE  Remembers(t)
    <3>1. m.id = <<"decide", r>> /\ m.p = Decision(r) /\ m.p.revision = r
      BY <2>3 DEF ApproveReview, Command, Decision
    <3>2. \A i \in DOMAIN t.decisions :
            t.decisions[i].human = TRUE => \/ i \in DOMAIN s.decisions /\ t.decisions[i] = s.decisions[i]
                                           \/ t.decisions[i].revision = r
      BY <1>3, <3>1 DEF Carried
    <3> HIDE DEF t
    <3>3. \A q : <<"decide", q>> = <<"decide", r>> => q = r
      OBVIOUS
    <3> QED  BY <2>1, <3>1, <3>2, <3>3 DEF Remembers
  <2> QED  BY <1>1, <2>2, <2>3 DEF Requested, reply
<1> QED  BY <1>1, <1>2, <1>3 DEF Answered, reply

LEMMA ResetRemembers ==
  ASSUME NEW s
  PROVE  Remembers(Reset(s))
<1> DEFINE time == s.clock
           ids == s.ids
           t == Seed(time, ids)
<1> HIDE DEF time, ids
<1>1. Company(t) /\ DOMAIN t.memo = {} /\ \A i \in DOMAIN t.decisions : t.decisions[i].human = FALSE
  BY Seeded
<1> HIDE DEF t
<1>2. Remembers(t)
  BY <1>1 DEF Remembers
<1> QED  BY <1>2 DEF t, time, ids, Reset

\* What is shown and loaded is as it should be, whatever the server holds.
ShownInv == PageInv /\ LoadsInv /\ PageShowsSelection

LEMMA LoadStarts ==
  ASSUME ShownInv, NEW p, p = [field \in PageFields |-> p[field]], p.company \in Companies,
         p.approving = NotApproving \/ p.approving.company \in Companies, StartLoad(p)
  PROVE  ShownInv'
<1> DEFINE load == [company |-> p.company, step |-> FirstStep(p.demo), read |-> NoData,
                    fault |-> IF p.demo = "unavailable" THEN "DEPENDENCY_UNAVAILABLE" ELSE "none"]
<1>1. /\ loads' = Append(loads, load)
      /\ page' = [p EXCEPT !.loading = TRUE, !.error = "none", !.dirty = FALSE]
  BY DEF StartLoad
<1>2. /\ page' = [field \in PageFields |-> page'[field]] /\ page'.loading = TRUE /\ page'.dirty = FALSE
      /\ page'.company = p.company /\ page'.approving = p.approving
  BY <1>1 DEF PageFields
<1>3. FirstStep(p.demo) # "over"
  BY DEF FirstStep
<1>4. load.company = p.company /\ \A n : Loading(n, load)
  <2>1. /\ DOMAIN load = {"company", "step", "read", "fault"}
        /\ load.company = p.company /\ load.step = FirstStep(p.demo) /\ load.read = NoData
    OBVIOUS
  <2> HIDE DEF load
  <2> QED  BY <1>3, <2>1 DEF Loading
<1> HIDE DEF load
<1>5. /\ List(loads') /\ loads' # <<>> /\ Len(loads') = Len(loads) + 1 /\ loads'[Len(loads')] = load
      /\ \A n \in DOMAIN loads' : (n \in DOMAIN loads /\ loads'[n] = loads[n]) \/ loads'[n] = load
  <2>1. List(loads)
    BY DEF ShownInv, LoadsInv
  <2> QED  BY <1>1, <2>1, Lengthened
<1>6. PageInv'
  BY <1>2 DEF PageInv
<1>7. LoadsInv'
  BY <1>2, <1>4, <1>5 DEF ShownInv, LoadsInv
<1>8. PageShowsSelection'
  BY <1>2 DEF PageShowsSelection
<1> QED  BY <1>6, <1>7, <1>8 DEF ShownInv

\* A load that ends has failed, or has read the company it was started for.
LEMMA LoadEnds ==
  ASSUME ShownInv, NEW n \in DOMAIN loads, loads[n] # Over, NEW result,
         \/ result.error # "none"
         \/ result.error = "none" /\ result.data = loads[n].read /\ loads[n].read # NoData,
         EndLoad(n, result)
  PROVE  ShownInv'
<1>1. /\ loads' = [loads EXCEPT ![n] = Over] /\ page' = Heed(n, result)
      /\ List(loads) /\ loads # <<>> /\ Loading(n, loads[n])
  BY DEF EndLoad, ShownInv, LoadsInv
<1>2. /\ List(loads') /\ Len(loads') = Len(loads) /\ DOMAIN loads' = DOMAIN loads /\ loads'[n] = Over
      /\ \A i \in DOMAIN loads : i # n => loads'[i] = loads[i]
  BY <1>1, Replaced
<1>3. Len(loads) \in DOMAIN loads /\ loads' # <<>>
  BY <1>1, <1>2, LatestOf
<1>4. /\ PageInv' /\ page'.company = page.company
      /\ IF n # Len(loads) THEN page' = page
         ELSE /\ page'.data = IF result.error = "none" THEN result.data ELSE page.data
              /\ page'.error = IF result.error = "none" THEN page.error ELSE result.error
  <2>1. CASE n # Len(loads)
    BY <1>1, <2>1 DEF Heed, ShownInv, PageInv
  <2>2. CASE n = Len(loads)
    <3>1. /\ page' = [page EXCEPT !.data = IF result.error = "none" THEN result.data ELSE page.data,
                                  !.error = IF result.error = "none" THEN page.error ELSE result.error,
                                  !.loading = FALSE]
          /\ page = [field \in PageFields |-> page[field]]
      BY <1>1, <2>2 DEF Heed, ShownInv, PageInv
    <3>2. /\ page' = [field \in PageFields |-> page'[field]] /\ page'.loading = FALSE
          /\ page'.company = page.company /\ page'.approving = page.approving /\ page'.dirty = page.dirty
          /\ page'.data = IF result.error = "none" THEN result.data ELSE page.data
          /\ page'.error = IF result.error = "none" THEN page.error ELSE result.error
      BY <3>1 DEF PageFields
    <3> QED  BY <2>2, <3>2 DEF ShownInv, PageInv
  <2> QED  BY <2>1, <2>2
<1>5. LoadsInv'
  BY <1>2, <1>3, <1>4 DEF ShownInv, LoadsInv
<1>6. PageShowsSelection'
  <2>1. CASE n # Len(loads)
    BY <1>2, <1>4, <2>1 DEF ShownInv, PageShowsSelection
  <2>2. CASE n = Len(loads)
    <3>1. loads[n].company = page.company
      BY <2>2 DEF ShownInv, LoadsInv
    <3> QED  BY <1>1, <1>2, <1>4, <2>2, <3>1 DEF Loading, PageShowsSelection
  <2> QED  BY <2>1, <2>2
<1> QED  BY <1>4, <1>5, <1>6 DEF ShownInv

\* A load goes on.
LEMMA LoadGoesOn ==
  ASSUME ShownInv, NEW n \in DOMAIN loads, loads[n] # Over, NEW load, Loading(n, load),
         load.company = loads[n].company, loads' = [loads EXCEPT ![n] = load], page' = page
  PROVE  ShownInv'
<1>1. List(loads) /\ loads # <<>>
  BY DEF ShownInv, LoadsInv
<1> DEFINE after == [loads EXCEPT ![n] = load]
<1>2. /\ List(loads') /\ Len(loads') = Len(loads) /\ DOMAIN loads' = DOMAIN loads /\ loads'[n] = load
      /\ \A i \in DOMAIN loads : i # n => loads'[i] = loads[i]
  <2>1. /\ List(after) /\ Len(after) = Len(loads) /\ DOMAIN after = DOMAIN loads /\ after[n] = load
        /\ \A i \in DOMAIN loads : i # n => after[i] = loads[i]
    BY <1>1, Replaced
  <2>2. loads' = after
    OBVIOUS
  <2> HIDE DEF after
  <2> QED  BY <2>1, <2>2
<1>3. Len(loads) \in DOMAIN loads /\ loads' # <<>>
  BY <1>1, <1>2, LatestOf
<1>4. PageInv' /\ PageShowsSelection'
  BY <1>2 DEF ShownInv, PageInv, PageShowsSelection
<1>5. LoadsInv'
  BY <1>2, <1>3 DEF ShownInv, LoadsInv
<1> QED  BY <1>4, <1>5 DEF ShownInv

\* The dialog, and what becomes of an approval.
LEMMA DialogMoves ==
  ASSUME ShownInv, loads' = loads, OpenDialog \/ CloseDialog \/ Confirm \/ ApprovalTimesOut
  PROVE  ShownInv'
<1>1. page = [field \in PageFields |-> page[field]]
  BY DEF ShownInv, PageInv
<1>2. /\ page' = [field \in PageFields |-> page'[field]] /\ page'.loading = page.loading
      /\ page'.company = page.company /\ page'.dirty = page.dirty /\ page'.data = page.data
      /\ page'.approving = NotApproving \/ page'.approving = page.approving \/ page'.approving.company = page.company
      /\ page'.error = page.error \/ page'.error # "none"
  <2>1. CASE OpenDialog \/ CloseDialog
    BY <1>1, <2>1 DEF PageFields, OpenDialog, CloseDialog
  <2>2. CASE Confirm
    <3> DEFINE asked == [company |-> page.company, revision |-> page.data.request.revision]
    <3>1. page' = [page EXCEPT !.approving = asked] /\ asked.company = page.company
      BY <2>2 DEF Confirm
    <3> HIDE DEF asked
    <3> QED  BY <1>1, <3>1 DEF PageFields
  <2>3. CASE ApprovalTimesOut
    <3>1. page' = [page EXCEPT !.error = "DEPENDENCY_UNAVAILABLE", !.approving = NotApproving]
      BY <2>3 DEF ApprovalTimesOut
    <3> QED  BY <1>1, <3>1 DEF PageFields
  <2> QED  BY <2>1, <2>2, <2>3
<1> QED  BY <1>2 DEF ShownInv, PageInv, LoadsInv, PageShowsSelection

-----------------------------------------------------------------------------
LEMMA WebStarts == WebInit => WebInv
<1> SUFFICES ASSUME WebInit  PROVE WebInv
  OBVIOUS
<1> DEFINE load == [company |-> FirstCompany, step |-> "reset_first", read |-> NoData, fault |-> "none"]
<1>1. /\ page = [field \in PageFields |-> page[field]] /\ page.company = FirstCompany /\ page.loading = TRUE
      /\ page.dirty = FALSE /\ page.approving = NotApproving
  BY DEF WebInit, FirstPage, PageFields
<1>2. PageInv /\ PageShowsSelection
  BY <1>1, WorkspaceAssumption DEF PageInv, PageShowsSelection
<1>3. load.company = FirstCompany /\ \A n : Loading(n, load)
  <2>1. /\ DOMAIN load = {"company", "step", "read", "fault"}
        /\ load.company = FirstCompany /\ load.step = "reset_first" /\ load.read = NoData
    OBVIOUS
  <2> HIDE DEF load
  <2> QED  BY <2>1, WorkspaceAssumption DEF Loading
<1>4. LoadsInv
  <2>1. loads = <<load>>
    BY DEF WebInit
  <2> HIDE DEF load
  <2>2. List(loads) /\ loads # <<>> /\ DOMAIN loads = {1} /\ loads[1] = load
    BY <2>1, ShortLists
  <2>3. Len(loads) = 1
    BY <2>1
  <2> QED  BY <1>1, <1>3, <2>2, <2>3 DEF LoadsInv
<1>5. ServerInv
  <2> DEFINE ids == 1
             s == Seed(0, ids)
  <2> HIDE DEF ids
  <2>1. Company(s) /\ DOMAIN s.memo = {} /\ \A i \in DOMAIN s.decisions : s.decisions[i].human = FALSE
    BY Seeded
  <2> HIDE DEF s
  <2>2. Remembers(s)
    BY <2>1 DEF Remembers
  <2> QED  BY <2>2 DEF WebInit, ServerInv, s, ids
<1> QED  BY <1>2, <1>4, <1>5 DEF WebInit, WebInv

\* The server of one company goes on to a state that remembers.
LEMMA ServerGoesOn ==
  ASSUME ServerInv, NEW c \in Companies, NEW s, Remembers(s), server' = [server EXCEPT ![c] = s]
  PROVE  ServerInv'
<1>1. /\ server' = [b \in Companies |-> server'[b]]
      /\ \A b \in Companies : server'[b] = s \/ server'[b] = server[b]
  BY DEF ServerInv
<1> QED  BY <1>1 DEF ServerInv

\* The page and its loads are as they were.
LEMMA ShownStays == ShownInv /\ UNCHANGED <<page, loads>> => ShownInv'
BY DEF ShownInv, PageInv, LoadsInv, PageShowsSelection

LEMMA ServerStays == ServerInv /\ UNCHANGED server => ServerInv'
BY DEF ServerInv

LEMMA Selecting == WebInv /\ (Select \/ RunEffect) => WebInv'
<1> SUFFICES ASSUME WebInv, Select \/ RunEffect  PROVE WebInv'
  OBVIOUS
<1>1. page = [field \in PageFields |-> page[field]]
  BY DEF WebInv, PageInv
<1>2. PICK p : /\ p = [field \in PageFields |-> p[field]] /\ p.company \in Companies
               /\ p.approving = page.approving /\ StartLoad(p)
  <2>1. ASSUME NEW c \in Companies, StartLoad([page EXCEPT !.company = c])
        PROVE  \E p : /\ p = [field \in PageFields |-> p[field]] /\ p.company \in Companies
                      /\ p.approving = page.approving /\ StartLoad(p)
    <3> DEFINE p == [page EXCEPT !.company = c]
    <3>1. p = [field \in PageFields |-> p[field]] /\ p.company \in Companies /\ p.approving = page.approving
      BY <1>1 DEF PageFields
    <3> QED  BY <2>1, <3>1
  <2>2. ASSUME NEW d, StartLoad([page EXCEPT !.demo = d])
        PROVE  \E p : /\ p = [field \in PageFields |-> p[field]] /\ p.company \in Companies
                      /\ p.approving = page.approving /\ StartLoad(p)
    <3> DEFINE p == [page EXCEPT !.demo = d]
    <3>1. p = [field \in PageFields |-> p[field]] /\ p.company \in Companies /\ p.approving = page.approving
      BY <1>1 DEF PageFields, WebInv, PageInv
    <3> QED  BY <2>2, <3>1
  <2>3. CASE StartLoad([page EXCEPT !.stream = ~page.stream])
    <3> DEFINE shown == ~page.stream
               p == [page EXCEPT !.stream = shown]
    <3> HIDE DEF shown
    <3>1. p = [field \in PageFields |-> p[field]] /\ p.company \in Companies /\ p.approving = page.approving
      BY <1>1 DEF PageFields, WebInv, PageInv
    <3>2. StartLoad(p)
      BY <2>3 DEF shown
    <3> QED  BY <3>1, <3>2
  <2>4. CASE StartLoad(page)
    BY <1>1, <2>4 DEF WebInv, PageInv
  <2> QED  BY <2>1, <2>2, <2>3, <2>4 DEF Select, RunEffect
<1>3. ShownInv'
  BY <1>2, LoadStarts DEF WebInv, ShownInv, PageInv
<1>4. UNCHANGED <<server, strays>>
  BY DEF Select, RunEffect
<1> QED  BY <1>3, <1>4, ServerStays DEF WebInv, ShownInv

LEMMA Preparing ==
  ASSUME WebInv, NEW n \in DOMAIN loads, Prepare(n)
  PROVE  WebInv'
<1> DEFINE load == loads[n]
           c == load.company
           s == server[c]
           again == load.step \in {"reset_first", "reset"}
           asked == Amend(c, IF load.step = "amend_first" THEN 1 ELSE 2)
           reply == IF again THEN Reply("ok", Reset(s)) ELSE Dispatch(s, asked)
<1>1. /\ load.step # "over" /\ server' = [server EXCEPT ![c] = reply.state] /\ strays' = strays
      /\ IF reply.code = "ok"
         THEN loads' = [loads EXCEPT ![n] = [load EXCEPT !.step = NextStep(load.step)]] /\ page' = page
         ELSE EndLoad(n, Failed(reply.code))
  BY DEF Prepare
<1>2. load # Over /\ Loading(n, load)
  BY <1>1 DEF Over, WebInv, LoadsInv
<1>3. c \in Companies /\ Remembers(s)
  BY <1>2 DEF Loading, WebInv, ServerInv
<1> HIDE DEF s, c
<1>4. Requested(asked)
  BY <1>3, Asked
<1> HIDE DEF asked, again
<1>5. Remembers(reply.state) /\ reply.code # "none"
  BY <1>3, <1>4, Served, ResetRemembers DEF Reply, Answered
<1> HIDE DEF reply
<1>6. ServerInv'
  BY <1>1, <1>3, <1>5, ServerGoesOn DEF WebInv
<1>7. ShownInv'
  <2>1. CASE reply.code = "ok"
    <3> DEFINE further == [load EXCEPT !.step = NextStep(load.step)]
    <3>1. NextStep(load.step) # "over"
      BY DEF NextStep
    <3> HIDE DEF load
    <3>2. Loading(n, further) /\ further.company = load.company
      BY <1>2, <3>1 DEF Loading
    <3> HIDE DEF further
    <3> QED  BY <1>1, <1>2, <2>1, <3>2, LoadGoesOn DEF load, further, WebInv, ShownInv
  <2>2. CASE reply.code # "ok"
    <3>1. Failed(reply.code).error # "none"
      BY <1>5 DEF Failed
    <3> QED  BY <1>1, <1>2, <2>2, <3>1, LoadEnds DEF WebInv, ShownInv
  <2> QED  BY <2>1, <2>2
<1> QED  BY <1>1, <1>6, <1>7 DEF WebInv, ShownInv

LEMMA Reading ==
  ASSUME WebInv, NEW n \in DOMAIN loads, Read(n) \/ Loaded(n)
  PROVE  WebInv'
<1> DEFINE load == loads[n]
<1>1. load.step = "read" /\ UNCHANGED <<server, strays>>
  BY DEF Read, Loaded
<1>2. load # Over /\ Loading(n, load)
  BY <1>1 DEF Over, WebInv, LoadsInv
<1>3. CASE Read(n) /\ load.fault # "none"
  <2>1. EndLoad(n, Failed(load.fault)) /\ Failed(load.fault).error # "none"
    BY <1>3 DEF Read, Failed
  <2>2. ShownInv'
    BY <1>2, <2>1, LoadEnds DEF WebInv, ShownInv
  <2> QED  BY <1>1, <2>2, ServerStays DEF WebInv, ShownInv
<1>4. CASE Read(n) /\ load.fault = "none"
  <2> DEFINE found == [load |-> n, company |-> load.company, request |-> Shown(server[load.company])]
             further == [load EXCEPT !.read = found]
  <2>1. loads' = [loads EXCEPT ![n] = further] /\ page' = page
    BY <1>4 DEF Read
  <2>2. found.load = n /\ found.company = load.company
    OBVIOUS
  <2> HIDE DEF load, found
  <2>3. Loading(n, further) /\ further.company = load.company
    BY <1>2, <2>2 DEF Loading
  <2> HIDE DEF further
  <2>4. ShownInv'
    BY <1>2, <2>1, <2>3, LoadGoesOn DEF WebInv, ShownInv, load
  <2> QED  BY <1>1, <2>4, ServerStays DEF WebInv, ShownInv
<1>5. CASE Loaded(n)
  <2> DEFINE result == Succeeded(load)
  <2>1. EndLoad(n, result) /\ load.read # NoData /\ result.error = "none" /\ result.data = load.read
    BY <1>5 DEF Loaded, Succeeded
  <2> HIDE DEF result
  <2>2. ShownInv'
    BY <1>2, <2>1, LoadEnds DEF WebInv, ShownInv
  <2> QED  BY <1>1, <2>2, ServerStays DEF WebInv, ShownInv
<1> QED  BY <1>3, <1>4, <1>5

LEMMA TimingOut ==
  ASSUME WebInv, NEW n \in DOMAIN loads, LoadTimesOut(n)
  PROVE  WebInv'
<1> DEFINE load == loads[n]
<1>1. /\ load.step \in {"amend_first", "amend_second", "read"} /\ UNCHANGED server
      /\ EndLoad(n, Failed("DEPENDENCY_UNAVAILABLE"))
      /\ \A m \in strays' : m \in strays \/ \E nth \in {1, 2} : m = Amend(load.company, nth)
  BY DEF LoadTimesOut
<1>2. load # Over /\ Loading(n, load)
  BY <1>1 DEF Over, WebInv, LoadsInv
<1>3. \A m \in strays' : Requested(m)
  BY <1>1, <1>2, Asked DEF Loading, WebInv
<1>4. Failed("DEPENDENCY_UNAVAILABLE").error # "none"
  BY DEF Failed
<1>5. ShownInv'
  BY <1>1, <1>2, <1>4, LoadEnds DEF WebInv, ShownInv
<1> QED  BY <1>1, <1>3, <1>5, ServerStays DEF WebInv, ShownInv

LEMMA DialogSteps == WebInv /\ (OpenDialog \/ CloseDialog \/ Confirm \/ ApprovalTimesOut) => WebInv'
<1> SUFFICES ASSUME WebInv, OpenDialog \/ CloseDialog \/ Confirm \/ ApprovalTimesOut  PROVE WebInv'
  OBVIOUS
<1>1. UNCHANGED <<server, loads>>
  BY DEF OpenDialog, CloseDialog, Confirm, ApprovalTimesOut
<1>2. \A m \in strays' : Requested(m)
  <2>1. CASE strays' = strays
    BY <2>1 DEF WebInv
  <2>2. CASE ApprovalTimesOut
    <3> DEFINE a == page.approving
    <3>1. a.company \in Companies /\ strays' = strays \cup {ApproveReview(a.company, a.revision)}
      BY <2>2 DEF ApprovalTimesOut, WebInv, PageInv
    <3> QED  BY <3>1, Asked DEF WebInv
  <2> QED  BY <2>1, <2>2 DEF OpenDialog, CloseDialog, Confirm
<1>3. ShownInv'
  BY <1>1, DialogMoves DEF WebInv, ShownInv
<1> QED  BY <1>1, <1>2, <1>3, ServerStays DEF WebInv, ShownInv

LEMMA Approving == WebInv /\ Approve => WebInv'
<1> SUFFICES ASSUME WebInv, Approve  PROVE WebInv'
  OBVIOUS
<1> DEFINE a == page.approving
           m == ApproveReview(a.company, a.revision)
           reply == Dispatch(server[a.company], m)
<1>1. /\ a.company \in Companies /\ server' = [server EXCEPT ![a.company] = reply.state]
      /\ UNCHANGED <<loads, strays>>
      /\ page' = IF reply.code = "ok"
                 THEN [page EXCEPT !.dialog = FALSE, !.demo = "baseline", !.dirty = TRUE, !.approving = NotApproving]
                 ELSE [page EXCEPT !.error = reply.code, !.approving = NotApproving]
  BY DEF Approve, WebInv, PageInv
<1>2. Remembers(server[a.company]) /\ Requested(m)
  BY <1>1, Asked DEF WebInv, ServerInv
<1>3. Remembers(reply.state) /\ reply.code # "none"
  BY <1>2, Served DEF Answered
<1> HIDE DEF reply
<1>4. ServerInv'
  BY <1>1, <1>3, ServerGoesOn DEF WebInv
<1>5. page = [field \in PageFields |-> page[field]]
  BY DEF WebInv, PageInv
<1>6. /\ page' = [field \in PageFields |-> page'[field]] /\ page'.loading = page.loading
      /\ page'.company = page.company /\ page'.dirty \in BOOLEAN /\ page'.data = page.data
      /\ page'.approving = NotApproving
      /\ page'.error = page.error \/ page'.error # "none"
  BY <1>1, <1>3, <1>5 DEF PageFields, WebInv, PageInv
<1> QED  BY <1>1, <1>4, <1>6 DEF WebInv, PageInv, LoadsInv, PageShowsSelection

LEMMA Elsewhere ==
  ASSUME WebInv, (\E m \in strays : ServeStray(m)) \/ \E c \in Companies : OtherTab(c)
  PROVE  WebInv'
<1>1. UNCHANGED <<page, loads>> /\ strays' \subseteq strays
  BY DEF ServeStray, OtherTab
<1>2. PICK c \in Companies : \E s : Remembers(s) /\ server' = [server EXCEPT ![c] = s]
  <2>1. ASSUME NEW c \in Companies, NEW m, Requested(m), server' = [server EXCEPT ![c] = Dispatch(server[c], m).state]
        PROVE  \E s : Remembers(s) /\ server' = [server EXCEPT ![c] = s]
    BY <2>1, Served DEF WebInv, ServerInv
  <2>2. ASSUME NEW m \in strays, ServeStray(m)
        PROVE  \E c \in Companies : \E s : Remembers(s) /\ server' = [server EXCEPT ![c] = s]
    <3>1. Requested(m) /\ m.company \in Companies
      BY DEF WebInv, Requested
    <3>2. server' = [server EXCEPT ![m.company] = Dispatch(server[m.company], m).state]
      BY <2>2 DEF ServeStray
    <3> QED  BY <2>1, <3>1, <3>2
  <2>3. ASSUME NEW c \in Companies, OtherTab(c)
        PROVE  \E s : Remembers(s) /\ server' = [server EXCEPT ![c] = s]
    <3>1. CASE server' = [server EXCEPT ![c] = Reset(server[c])]
      BY <3>1, ResetRemembers
    <3>2. ASSUME NEW m \in {Amend(c, 1), Amend(c, 2), ApproveReview(c, 3)},
                 server' = [server EXCEPT ![c] = Dispatch(server[c], m).state]
          PROVE  \E s : Remembers(s) /\ server' = [server EXCEPT ![c] = s]
      <4>1. Requested(m)
        BY Asked
      <4> QED  BY <2>1, <3>2, <4>1
    <3> QED  BY <2>3, <3>1, <3>2 DEF OtherTab
  <2> QED  BY <2>2, <2>3
<1>3. ServerInv'
  BY <1>2, ServerGoesOn DEF WebInv
<1> QED  BY <1>1, <1>3, ShownStays DEF WebInv, ShownInv

LEMMA WebStep == WebInv /\ [WebNext]_wvars => WebInv'
<1> SUFFICES ASSUME WebInv, [WebNext]_wvars  PROVE WebInv'
  OBVIOUS
<1>1. CASE UNCHANGED wvars
  BY <1>1, ShownStays, ServerStays DEF wvars, WebInv, ShownInv
<1> QED  BY <1>1, Selecting, Preparing, Reading, TimingOut, DialogSteps, Approving, Elsewhere DEF WebNext

\* Nothing but its answer or its ten seconds end an approval.
LEMMA ApprovingStays ==
  ASSUME WebInv, WebNext, page.approving # NotApproving, page'.approving = NotApproving
  PROVE  Approve \/ ApprovalTimesOut
<1>1. page = [field \in PageFields |-> page[field]]
  BY DEF WebInv, PageInv
<1>2. ASSUME NEW p, p = [field \in PageFields |-> p[field]], p.approving = page.approving, StartLoad(p)
      PROVE  FALSE
  <2>1. page' = [p EXCEPT !.loading = TRUE, !.error = "none", !.dirty = FALSE]
    BY <1>2 DEF StartLoad
  <2> QED  BY <1>2, <2>1 DEF PageFields
<1>3. CASE Select \/ RunEffect
  <2>1. ASSUME NEW c, StartLoad([page EXCEPT !.company = c])
        PROVE  FALSE
    <3> DEFINE p == [page EXCEPT !.company = c]
    <3>1. p = [field \in PageFields |-> p[field]] /\ p.approving = page.approving
      BY <1>1 DEF PageFields
    <3> QED  BY <1>2, <2>1, <3>1
  <2>2. ASSUME NEW d, StartLoad([page EXCEPT !.demo = d])
        PROVE  FALSE
    <3> DEFINE p == [page EXCEPT !.demo = d]
    <3>1. p = [field \in PageFields |-> p[field]] /\ p.approving = page.approving
      BY <1>1 DEF PageFields
    <3> QED  BY <1>2, <2>2, <3>1
  <2>3. CASE StartLoad([page EXCEPT !.stream = ~page.stream])
    <3> DEFINE shown == ~page.stream
               p == [page EXCEPT !.stream = shown]
    <3> HIDE DEF shown
    <3>1. p = [field \in PageFields |-> p[field]] /\ p.approving = page.approving
      BY <1>1 DEF PageFields
    <3>2. StartLoad(p)
      BY <2>3 DEF shown
    <3> QED  BY <1>2, <3>1, <3>2
  <2>4. ~StartLoad(page)
    BY <1>1, <1>2
  <2> QED  BY <1>3, <2>1, <2>2, <2>3, <2>4 DEF Select, RunEffect
<1>4. ASSUME NEW n, NEW result, EndLoad(n, result)
      PROVE  FALSE
  <2>1. \/ page' = page
        \/ \E data, error : page' = [page EXCEPT !.data = data, !.error = error, !.loading = FALSE]
    BY <1>4 DEF EndLoad, Heed
  <2>2. ASSUME NEW data, NEW error
        PROVE  [page EXCEPT !.data = data, !.error = error, !.loading = FALSE].approving = page.approving
    BY <1>1 DEF PageFields
  <2> QED  BY <2>1, <2>2
<1>5. ASSUME NEW n \in DOMAIN loads, Prepare(n) \/ Read(n) \/ Loaded(n) \/ LoadTimesOut(n)
      PROVE  FALSE
  BY <1>4, <1>5 DEF Prepare, Read, Loaded, LoadTimesOut
<1>6. CASE CloseDialog
  BY <1>1, <1>6 DEF CloseDialog, PageFields
<1> QED  BY <1>3, <1>5, <1>6 DEF WebNext, OpenDialog, Confirm, ServeStray, OtherTab

(***************************************************************************)
(* However loads overlap, end out of order, fail and are given up, for any *)
(* companies and amounts: a page that shows neither a sheet nor an error   *)
(* shows what the latest load found of the company that is selected.       *)
(***************************************************************************)
THEOREM PagesShowTheirSelection == WebSpec => []PageShowsSelection
<1>1. WebInv => PageShowsSelection
  BY DEF WebInv
<1> QED  BY <1>1, WebStarts, WebStep, PTL DEF WebSpec

(***************************************************************************)
(* A page that is told its approval was refused can rely on it: a decision *)
(* of that revision that is on record is remembered under the id that the  *)
(* approval was sent with, so that the answer would have been its success. *)
(***************************************************************************)
THEOREM RefusalsAreTrue == WebSpec => RefusedApprovalsAreNotRecorded
<1> DEFINE True ==
      LET a == page.approving
      IN  a # NotApproving /\ page'.approving = NotApproving /\ ~page'.dirty /\ page'.error # "DEPENDENCY_UNAVAILABLE"
          => \A i \in DOMAIN server'[a.company].decisions :
               LET d == server'[a.company].decisions[i] IN ~(d.human /\ d.revision = a.revision)
<1>1. WebInv /\ [WebNext]_wvars => [True]_wvars
  <2> SUFFICES ASSUME WebInv, WebNext, page.approving # NotApproving, page'.approving = NotApproving,
                      ~page'.dirty, page'.error # "DEPENDENCY_UNAVAILABLE"
               PROVE  LET a == page.approving
                      IN  \A i \in DOMAIN server'[a.company].decisions :
                            LET d == server'[a.company].decisions[i] IN ~(d.human /\ d.revision = a.revision)
    OBVIOUS
  <2> DEFINE a == page.approving
  <2>1. CASE Approve
    <3> DEFINE s == server[a.company]
               m == ApproveReview(a.company, a.revision)
               reply == Dispatch(s, m)
    <3>1. a.company \in Companies /\ server' = [server EXCEPT ![a.company] = reply.state]
      BY <2>1 DEF Approve, WebInv, PageInv
    <3>2. Remembers(s) /\ Requested(m)
      BY <3>1, Asked DEF WebInv, ServerInv
    <3>3. Answered(reply, s, m)
      BY <3>2, Served
    <3>4. reply.code # "ok"
      <4>1. page = [field \in PageFields |-> page[field]]
        BY DEF WebInv, PageInv
      <4>2. reply.code = "ok" => page' = [page EXCEPT !.dialog = FALSE, !.demo = "baseline", !.dirty = TRUE,
                                                      !.approving = NotApproving]
        BY <2>1 DEF Approve
      <4> HIDE DEF reply
      <4>3. reply.code = "ok" => page'.dirty = TRUE
        BY <4>1, <4>2 DEF PageFields
      <4> QED  BY <4>3
    <3>5. server'[a.company] = s
      BY <3>1, <3>3, <3>4 DEF Answered, WebInv, ServerInv
    <3>6. /\ m.id = <<"decide", a.revision>> /\ m.p = Decision(a.revision)
          /\ m.fault = "none" /\ m.principal # "unknown"
      BY DEF ApproveReview, Command
    <3> HIDE DEF m, reply
    <3>7. <<"decide", a.revision>> \notin DOMAIN s.memo
      BY <3>2, <3>3, <3>4, <3>6 DEF Answered, Remembers
    <3> HIDE DEF s
    <3>8. \A i \in DOMAIN s.decisions : ~(s.decisions[i].human = TRUE /\ s.decisions[i].revision = a.revision)
      BY <3>2, <3>7 DEF Remembers
    <3> QED  BY <3>5, <3>8
  <2>2. CASE ApprovalTimesOut
    <3>1. page' = [page EXCEPT !.error = "DEPENDENCY_UNAVAILABLE", !.approving = NotApproving]
      BY <2>2 DEF ApprovalTimesOut
    <3>2. page = [field \in PageFields |-> page[field]]
      BY DEF WebInv, PageInv
    <3>3. page'.error = "DEPENDENCY_UNAVAILABLE"
      BY <3>1, <3>2 DEF PageFields
    <3> QED  BY <3>3
  <2>3. Approve \/ ApprovalTimesOut
    BY ApprovingStays
  <2> QED  BY <2>1, <2>2, <2>3
<1> QED  BY <1>1, WebStarts, WebStep, PTL DEF WebSpec, RefusedApprovalsAreNotRecorded, True

-----------------------------------------------------------------------------
(***************************************************************************)
(* The synthetic stream of a page: DemoStream.                             *)
(***************************************************************************)
StreamTyped ==
  /\ stream = [tick |-> stream.tick, recognized |-> stream.recognized, committed |-> stream.committed,
               available |-> stream.available, forecast |-> stream.forecast]
  /\ stream.tick \in Nat /\ stream.recognized \in Nat /\ stream.committed \in Nat
  /\ stream.available \in Nat /\ stream.forecast \in Nat

\* A share of an amount is part of it.
LEMMA CappedFits ==
  ASSUME NEW amount \in Nat, NEW available \in Nat, NEW percent \in {8, 12}
  PROVE  Capped(amount, available, percent) \in 0 .. available
<1>1. Share(available, 8) \in 0 .. available
  BY DEF Share
<1>2. Share(available, 12) \in 0 .. available
  BY DEF Share
<1> QED  BY <1>1, <1>2 DEF Capped, Least

LEMMA BaselineFits ==
  LET s == FinanceBaseline
  IN  /\ s.recognized \in Nat /\ s.committed \in Nat /\ s.available \in Nat /\ s.forecast \in Nat
      /\ s.recognized <= s.forecast
<1> DEFINE x == Cap * RecognizedShare
           y == Cap * CommittedShare
           z == Cap * 86
<1>1. /\ Cap \in Nat /\ RecognizedShare \in 0 .. 86 /\ CommittedShare \in Nat
      /\ Cap * (RecognizedShare + CommittedShare) + 100 <= Cap * 100
  BY StreamAssumption
<1>2. x \in Nat /\ y \in Nat /\ z \in Nat /\ x <= z /\ x + y + 100 <= 100 * Cap
  <2>1. Cap * (RecognizedShare + CommittedShare) = x + y
    BY <1>1
  <2>2. x <= z
    <3>1. Cap * (86 - RecognizedShare) \in Nat
      BY <1>1
    <3>2. Cap * (86 - RecognizedShare) = z - x
      BY <1>1
    <3> QED  BY <1>1, <3>1, <3>2
  <2> QED  BY <1>1, <2>1, <2>2
<1>3. /\ Share(Cap, RecognizedShare) = (2 * x + 100) \div 200
      /\ Share(Cap, CommittedShare) = (2 * y + 100) \div 200
      /\ Share(Cap, 86) = (2 * z + 100) \div 200
  <2>1. /\ 2 * Cap * RecognizedShare = 2 * x /\ 2 * Cap * CommittedShare = 2 * y
        /\ 2 * Cap * 86 = 2 * z
    BY <1>1
  <2> QED  BY <2>1 DEF Share
<1> HIDE DEF x, y, z
<1>4. /\ (2 * x + 100) \div 200 \in Nat /\ (2 * y + 100) \div 200 \in Nat /\ (2 * z + 100) \div 200 \in Nat
      /\ (2 * x + 100) \div 200 <= (2 * z + 100) \div 200
      /\ Cap - (2 * x + 100) \div 200 - (2 * y + 100) \div 200 \in Nat
  BY <1>1, <1>2
<1> QED  BY <1>3, <1>4 DEF FinanceBaseline

LEMMA StreamStarts == StreamInit => StreamTyped /\ StreamStaysInBudget
<1> SUFFICES ASSUME stream = FinanceBaseline  PROVE StreamTyped /\ StreamStaysInBudget
  BY DEF StreamInit
<1>1. /\ FinanceBaseline.tick = 0 /\ FinanceBaseline.available = Cap - FinanceBaseline.recognized - FinanceBaseline.committed
      /\ FinanceBaseline = [tick |-> FinanceBaseline.tick, recognized |-> FinanceBaseline.recognized,
                            committed |-> FinanceBaseline.committed, available |-> FinanceBaseline.available,
                            forecast |-> FinanceBaseline.forecast]
  BY DEF FinanceBaseline
<1>2. Cap \in Nat
  BY StreamAssumption
<1> QED  BY <1>1, <1>2, BaselineFits DEF StreamTyped, StreamStaysInBudget

LEMMA StreamStep == StreamTyped /\ StreamStaysInBudget /\ [Advance]_stream => (StreamTyped /\ StreamStaysInBudget)'
<1> SUFFICES ASSUME StreamTyped, StreamStaysInBudget, Advance  PROVE StreamTyped' /\ StreamStaysInBudget'
  BY DEF StreamTyped, StreamStaysInBudget
<1> DEFINE s == stream
           most == FinanceBaseline.forecast - FinanceBaseline.recognized - FinanceBaseline.committed
<1>1. /\ s.tick \in Nat /\ s.recognized \in Nat /\ s.committed \in Nat /\ s.available \in Nat /\ s.forecast \in Nat
      /\ s.recognized + s.committed + s.available = Cap /\ s.recognized <= s.forecast
      /\ s.forecast - s.recognized - s.committed <= most
      /\ Cap \in Nat /\ most \in Int
  BY StreamAssumption, BaselineFits DEF StreamTyped, StreamStaysInBudget
<1> HIDE DEF most
<1>2. PICK recognized, committed, forecast :
        /\ stream' = Moved(s, recognized, committed, forecast)
        /\ recognized \in Nat /\ committed \in Nat /\ forecast \in Nat
        /\ recognized + committed <= Cap /\ recognized <= forecast
        /\ forecast - recognized - committed <= most
  <2>1. PICK mode \in {"posting", "request", "decision"}, amount \in Drawn : stream' = AdvanceSyntheticStream(s, mode, amount)
    BY DEF Advance
  <2> DEFINE tick == s.tick + 1
             sign == IF tick % 9 = 0 THEN -1 ELSE 1
             taken == Capped(amount, s.available, 8)
             posted == taken * sign
             reserved == Capped(amount, s.available, 12)
  <2>2. /\ taken \in 0 .. s.available /\ reserved \in 0 .. s.available
        /\ posted \in Int /\ (posted = taken \/ posted = 0 - taken)
    <3>1. amount \in Nat
      BY StreamAssumption
    <3>2. taken \in 0 .. s.available /\ reserved \in 0 .. s.available
      BY <1>1, <3>1, CappedFits
    <3> HIDE DEF taken, reserved
    <3> QED  BY <1>1, <3>2
  <2>3. stream' \in {Moved(s, AtLeastZero(s.recognized + posted), s.committed, AtLeastZero(s.forecast + posted)),
                     Moved(s, s.recognized, s.committed + reserved, s.forecast + reserved),
                     Moved(s, s.recognized, s.committed, s.forecast)}
    BY <2>1 DEF AdvanceSyntheticStream
  <2> HIDE DEF posted, reserved, taken
  <2>4. CASE stream' = Moved(s, AtLeastZero(s.recognized + posted), s.committed, AtLeastZero(s.forecast + posted))
    <3> DEFINE r == AtLeastZero(s.recognized + posted)
               f == AtLeastZero(s.forecast + posted)
    <3>1. /\ r \in Nat /\ f \in Nat /\ r + s.committed <= Cap /\ r <= f
          /\ f - r - s.committed <= most
      BY <1>1, <2>2 DEF AtLeastZero
    <3> QED  BY <1>1, <2>4, <3>1
  <2>5. CASE stream' = Moved(s, s.recognized, s.committed + reserved, s.forecast + reserved)
    BY <1>1, <2>2, <2>5
  <2>6. CASE stream' = Moved(s, s.recognized, s.committed, s.forecast)
    BY <1>1, <2>6
  <2> QED  BY <2>3, <2>4, <2>5, <2>6
<1>3. AtLeastZero(Cap - recognized - committed) = Cap - recognized - committed
  BY <1>1, <1>2 DEF AtLeastZero
<1>4. stream' = [tick |-> s.tick + 1, recognized |-> recognized, committed |-> committed,
                 available |-> Cap - recognized - committed, forecast |-> forecast]
  BY <1>2, <1>3 DEF Moved
<1>5. /\ stream'.tick = s.tick + 1 /\ stream'.recognized = recognized /\ stream'.committed = committed
      /\ stream'.available = Cap - recognized - committed /\ stream'.forecast = forecast
  BY <1>4
<1>6. StreamTyped'
  BY <1>1, <1>2, <1>4, <1>5 DEF StreamTyped
<1>7. StreamStaysInBudget'
  BY <1>1, <1>2, <1>5 DEF StreamStaysInBudget, most
<1> QED  BY <1>6, <1>7

(***************************************************************************)
(* The budget a page's stream shows adds up to what was authorized, and    *)
(* its forecast stays between: for any cap, any shares that leave a        *)
(* hundredth of it, any drawn amounts and any number of ticks.             *)
(***************************************************************************)
THEOREM StreamAddsUp == StreamSpec => []StreamStaysInBudget
<1> QED  BY StreamStarts, StreamStep, PTL DEF StreamSpec

-----------------------------------------------------------------------------
(***************************************************************************)
(* The store in memory: ReferenceStore.                                    *)
(***************************************************************************)
(* The records a submission was computed from, and the versions of any of   *)
(* them.                                                                    *)
Objects == UNION {DOMAIN s.inputs : s \in Submissions}
InputVersions == UNION {[known -> Nat] : known \in SUBSET Objects}

States == Waiting \cup Terminal \cup {"running", "waiting_for_approval"}

Job ==
  [partition : {s.partition : s \in Submissions}, essential : {s.essential : s \in Submissions},
   principal : {s.principal : s \in Submissions}, priority : {"P0", "P1", "P2"},
   inputs : InputVersions, eligibleAt : Int, deadline : Int, state : States,
   lease : [owner : Workers \cup {"none"}, generation : Nat, expiresAt : Int],
   lastGeneration : Nat, seen : InputVersions]

(* What a job owes to a submission that is in it.                          *)
Keeps(job, submission, eligibleAt) ==
  /\ Rank(job.priority) <= Rank(submission.priority) /\ job.deadline <= submission.deadline
  /\ job.state = "pending" => job.eligibleAt <= eligibleAt
  /\ Covers(job.inputs, submission.inputs)
  /\ job.state \in {"running", "completed"} => Covers(job.seen, submission.inputs)

StoreTyped ==
  /\ clock \in Nat
  /\ \E n \in Nat : jobs \in [1..n -> Job]
  /\ \A w \in Workers : held[w] = Nothing \/ held[w].job \in DOMAIN jobs
  /\ held = [w \in Workers |-> held[w]]
  /\ \A a \in accepted : a.submission \in Submissions /\ a.job \in DOMAIN jobs /\ a.eligibleAt \in Int

StoreInv == StoreTyped /\ \A a \in accepted : Keeps(jobs[a.job], a.submission, a.eligibleAt)

-----------------------------------------------------------------------------
(***************************************************************************)
(* The operators.                                                          *)
(***************************************************************************)
LEMMA SubmissionTypes ==
  ASSUME NEW s \in Submissions
  PROVE  /\ s.priority \in {"P0", "P1", "P2"} /\ s.inputs \in InputVersions
         /\ s.delay \in Nat /\ s.deadline \in Int
<1>1. DOMAIN s.inputs \in SUBSET Objects /\ s.inputs \in [DOMAIN s.inputs -> Nat]
  BY SubmissionsAssumption DEF Objects
<1> QED
  BY <1>1, SubmissionsAssumption DEF InputVersions

LEMMA RankIsOrder ==
  ASSUME NEW p \in {"P0", "P1", "P2"}, NEW q \in {"P0", "P1", "P2"}
  PROVE  /\ HigherPriority(p, q) \in {"P0", "P1", "P2"}
         /\ Rank(p) \in Nat
         /\ Rank(HigherPriority(p, q)) <= Rank(p) /\ Rank(HigherPriority(p, q)) <= Rank(q)
BY DEF Rank, HigherPriority

LEMMA EarlierIsBoth ==
  ASSUME NEW s \in Int, NEW t \in Int
  PROVE  Earlier(s, t) \in Int /\ Earlier(s, t) <= s /\ Earlier(s, t) <= t
BY DEF Earlier

(* Of two numbers, Max is one that is as large as both.                    *)
LEMMA MaxOfTwo ==
  ASSUME NEW S, NEW a \in Nat, NEW b \in Nat, S = {a, b}
  PROVE  Max(S) \in Nat /\ \A x \in S : Max(S) >= x
<1>1. \E x \in S : \A y \in S : x >= y
  <2>1. CASE a >= b
    BY <2>1
  <2>2. CASE b >= a
    BY <2>2
  <2> QED
    BY <2>1, <2>2
<1> QED
  BY <1>1 DEF Max

(* Merging two versions of the inputs covers both.                         *)
LEMMA MergeCovers ==
  ASSUME NEW left \in InputVersions, NEW right \in InputVersions
  PROVE  /\ MergeInputVersions(left, right) \in InputVersions
         /\ Covers(MergeInputVersions(left, right), left)
         /\ Covers(MergeInputVersions(left, right), right)
<1> DEFINE merged == MergeInputVersions(left, right)
           newest(o) == {left[x] : x \in DOMAIN left \cap {o}} \cup {right[x] : x \in DOMAIN right \cap {o}}
<1>1. /\ DOMAIN left \in SUBSET Objects /\ left \in [DOMAIN left -> Nat]
      /\ DOMAIN right \in SUBSET Objects /\ right \in [DOMAIN right -> Nat]
  BY DEF InputVersions
<1>2. ASSUME NEW o \in DOMAIN left \cup DOMAIN right
      PROVE  Max(newest(o)) \in Nat /\ \A x \in newest(o) : Max(newest(o)) >= x
  <2>1. CASE o \in DOMAIN left \cap DOMAIN right
    <3>1. newest(o) = {left[o], right[o]}
      BY <2>1
    <3> QED
      BY <1>1, <2>1, <3>1, MaxOfTwo
  <2>2. CASE o \notin DOMAIN left
    <3>1. newest(o) = {right[o], right[o]}
      BY <1>2, <2>2
    <3> QED
      BY <1>1, <1>2, <2>2, <3>1, MaxOfTwo
  <2>3. CASE o \notin DOMAIN right
    <3>1. newest(o) = {left[o], left[o]}
      BY <1>2, <2>3
    <3> QED
      BY <1>1, <1>2, <2>3, <3>1, MaxOfTwo
  <2> QED
    BY <2>1, <2>2, <2>3
<1>3. merged = [o \in DOMAIN left \cup DOMAIN right |-> Max(newest(o))]
  BY DEF MergeInputVersions
<1>4. merged \in [DOMAIN left \cup DOMAIN right -> Nat]
  BY <1>2, <1>3
<1>5. merged \in InputVersions
  BY <1>1, <1>4 DEF InputVersions
<1>6. Covers(merged, left)
  <2> SUFFICES ASSUME NEW o \in DOMAIN left PROVE o \in DOMAIN merged /\ merged[o] >= left[o]
    BY DEF Covers
  <2>1. left[o] \in newest(o)
    OBVIOUS
  <2> QED
    BY <1>2, <1>3, <2>1
<1>7. Covers(merged, right)
  <2> SUFFICES ASSUME NEW o \in DOMAIN right PROVE o \in DOMAIN merged /\ merged[o] >= right[o]
    BY DEF Covers
  <2>1. right[o] \in newest(o)
    OBVIOUS
  <2> QED
    BY <1>2, <1>3, <2>1
<1> QED
  BY <1>5, <1>6, <1>7

LEMMA CoversIsReflexive ==
  ASSUME NEW x \in InputVersions
  PROVE  Covers(x, x)
BY DEF Covers, InputVersions

LEMMA CoversIsTransitive ==
  ASSUME NEW x \in InputVersions, NEW y \in InputVersions, NEW z \in InputVersions, Covers(x, y), Covers(y, z)
  PROVE  Covers(x, z)
<1> SUFFICES ASSUME NEW o \in DOMAIN z PROVE o \in DOMAIN x /\ x[o] >= z[o]
  BY DEF Covers
<1>1. o \in DOMAIN y /\ y[o] >= z[o] /\ o \in DOMAIN x /\ x[o] >= y[o]
  BY DEF Covers
<1>2. x[o] \in Nat /\ y[o] \in Nat /\ z[o] \in Nat
  BY <1>1 DEF InputVersions
<1> QED
  BY <1>1, <1>2

-----------------------------------------------------------------------------
(***************************************************************************)
(* One job and what it owes.                                               *)
(***************************************************************************)
LEMMA CoalesceKeeps ==
  ASSUME NEW job \in Job, NEW s \in Submissions, job.state \in Waiting, clock \in Nat
  PROVE  /\ Coalesce(job, s) \in Job
         /\ Keeps(Coalesce(job, s), s, clock + s.delay)
         /\ \A t \in Submissions : \A eligibleAt \in Int :
              Keeps(job, t, eligibleAt) => Keeps(Coalesce(job, s), t, eligibleAt)
<1> DEFINE merged == Coalesce(job, s)
<1>1. /\ s.priority \in {"P0", "P1", "P2"} /\ s.inputs \in InputVersions
      /\ s.delay \in Nat /\ s.deadline \in Int
  BY SubmissionTypes
<1>2. /\ job.priority \in {"P0", "P1", "P2"} /\ job.inputs \in InputVersions
      /\ job.eligibleAt \in Int /\ job.deadline \in Int
  BY DEF Job
<1>3. merged = [job EXCEPT !.priority = HigherPriority(job.priority, s.priority),
                           !.inputs = MergeInputVersions(job.inputs, s.inputs),
                           !.eligibleAt = Earlier(job.eligibleAt, clock + s.delay),
                           !.deadline = Earlier(job.deadline, s.deadline)]
  BY DEF Coalesce
<1>4. /\ merged.priority = HigherPriority(job.priority, s.priority)
      /\ merged.inputs = MergeInputVersions(job.inputs, s.inputs)
      /\ merged.eligibleAt = Earlier(job.eligibleAt, clock + s.delay)
      /\ merged.deadline = Earlier(job.deadline, s.deadline)
      /\ merged.state = job.state
  BY <1>3 DEF Job
<1>5. /\ HigherPriority(job.priority, s.priority) \in {"P0", "P1", "P2"}
      /\ Rank(job.priority) \in Nat /\ Rank(s.priority) \in Nat /\ Rank(merged.priority) \in Nat
      /\ Rank(merged.priority) <= Rank(job.priority) /\ Rank(merged.priority) <= Rank(s.priority)
  BY <1>1, <1>2, <1>4, RankIsOrder
<1>6. /\ merged.eligibleAt \in Int /\ merged.eligibleAt <= job.eligibleAt /\ merged.eligibleAt <= clock + s.delay
      /\ merged.deadline \in Int /\ merged.deadline <= job.deadline /\ merged.deadline <= s.deadline
  <2>1. clock + s.delay \in Int
    BY <1>1
  <2> QED
    BY <1>1, <1>2, <1>4, <2>1, EarlierIsBoth
<1>7. merged.inputs \in InputVersions /\ Covers(merged.inputs, job.inputs) /\ Covers(merged.inputs, s.inputs)
  BY <1>1, <1>2, <1>4, MergeCovers
<1>8. merged \in Job
  BY <1>3, <1>4, <1>5, <1>6, <1>7 DEF Job
<1>9. merged.state \notin {"running", "completed"}
  BY <1>4 DEF Waiting
<1>10. Keeps(merged, s, clock + s.delay)
  BY <1>5, <1>6, <1>7, <1>9 DEF Keeps
<1>11. ASSUME NEW t \in Submissions, NEW eligibleAt \in Int, Keeps(job, t, eligibleAt)
       PROVE  Keeps(merged, t, eligibleAt)
  <2>1. t.priority \in {"P0", "P1", "P2"} /\ t.inputs \in InputVersions /\ t.deadline \in Int
    BY SubmissionTypes
  <2>2. Rank(t.priority) \in Nat
    BY <2>1, RankIsOrder
  <2>3. Rank(merged.priority) <= Rank(t.priority)
    BY <1>5, <2>2, <1>11 DEF Keeps
  <2>4. merged.deadline <= t.deadline
    BY <1>2, <1>6, <2>1, <1>11 DEF Keeps
  <2>5. merged.state = "pending" => merged.eligibleAt <= eligibleAt
    BY <1>2, <1>4, <1>6, <1>11 DEF Keeps
  <2>6. Covers(merged.inputs, t.inputs)
    BY <1>2, <1>7, <2>1, <1>11, CoversIsTransitive DEF Keeps
  <2> QED
    BY <2>3, <2>4, <2>5, <2>6, <1>9 DEF Keeps
<1> QED
  BY <1>8, <1>10, <1>11

LEMMA NewJobKeeps ==
  ASSUME NEW s \in Submissions, clock \in Nat
  PROVE  NewJob(s) \in Job /\ Keeps(NewJob(s), s, clock + s.delay)
<1>1. /\ s.priority \in {"P0", "P1", "P2"} /\ s.inputs \in InputVersions
      /\ s.delay \in Nat /\ s.deadline \in Int
  BY SubmissionTypes
<1>2. <<>> \in InputVersions
  <2>1. <<>> \in [{} -> Nat] /\ {} \in SUBSET Objects
    OBVIOUS
  <2> QED
    BY <2>1 DEF InputVersions
<1>3. Rank(s.priority) \in Nat
  BY <1>1, RankIsOrder
<1> QED
  BY <1>1, <1>2, <1>3, CoversIsReflexive DEF NewJob, Job, Keeps, NoLease, States, Waiting

(* Whatever ends, fails or puts off a job, or lets it complete while it     *)
(* runs, changes neither its terms nor its inputs.                          *)
LEMMA SettleKeeps ==
  ASSUME NEW job \in Job, NEW state \in States, state \notin {"pending", "running"},
         state = "completed" => job.state = "running", NEW eligible \in Int
  PROVE  /\ [Settle(job, state) EXCEPT !.eligibleAt = eligible] \in Job
         /\ Settle(job, state) \in Job
         /\ \A t, eligibleAt : Keeps(job, t, eligibleAt) =>
              /\ Keeps(Settle(job, state), t, eligibleAt)
              /\ Keeps([Settle(job, state) EXCEPT !.eligibleAt = eligible], t, eligibleAt)
<1> DEFINE settled == Settle(job, state)
           later == [settled EXCEPT !.eligibleAt = eligible]
<1>1. settled = [job EXCEPT !.state = state, !.lease = NoLease]
  BY DEF Settle
<1>2. NoLease \in [owner : Workers \cup {"none"}, generation : Nat, expiresAt : Int]
  BY DEF NoLease
<1>3. settled \in Job
  BY <1>1, <1>2 DEF Job
<1>4. later \in Job
  BY <1>3 DEF Job
<1>5. /\ settled.priority = job.priority /\ settled.deadline = job.deadline
      /\ settled.inputs = job.inputs /\ settled.seen = job.seen /\ settled.state = state
  BY <1>1 DEF Job
<1>6. /\ later.priority = job.priority /\ later.deadline = job.deadline
      /\ later.inputs = job.inputs /\ later.seen = job.seen /\ later.state = state
  BY <1>3, <1>5 DEF Job
<1> HIDE DEF settled, later
<1>7. ASSUME NEW t, NEW eligibleAt, Keeps(job, t, eligibleAt)
      PROVE  Keeps(settled, t, eligibleAt) /\ Keeps(later, t, eligibleAt)
  BY <1>5, <1>6, <1>7 DEF Keeps
<1> QED
  BY <1>3, <1>4, <1>7 DEF settled, later

Claimed(job, w, generation, expiry) ==
  [job EXCEPT !.state = "running", !.lastGeneration = generation, !.seen = job.inputs,
              !.lease = [owner |-> w, generation |-> generation, expiresAt |-> expiry]]

LEMMA ClaimedKeeps ==
  ASSUME NEW job \in Job, NEW w \in Workers, NEW generation \in Nat, NEW expiry \in Int
  PROVE  /\ Claimed(job, w, generation, expiry) \in Job
         /\ \A t, eligibleAt : Keeps(job, t, eligibleAt) => Keeps(Claimed(job, w, generation, expiry), t, eligibleAt)
BY DEF Claimed, Job, Keeps, States

-----------------------------------------------------------------------------
(***************************************************************************)
(* The steps.                                                              *)
(***************************************************************************)
LEMMA StoreStarts == RefInit => StoreInv
<1> SUFFICES ASSUME RefInit PROVE StoreInv
  OBVIOUS
<1>1. jobs \in [1..0 -> Job]
  BY DEF RefInit
<1> QED
  BY <1>1 DEF RefInit, StoreInv, StoreTyped

(* A step that rewrites jobs without losing what they owe.                 *)
LEMMA RewrittenJobs ==
  ASSUME StoreInv, accepted' = accepted, clock' \in Nat,
         jobs' = [j \in DOMAIN jobs |-> jobs'[j]],
         \A j \in DOMAIN jobs : /\ jobs'[j] \in Job
                                /\ \A t, eligibleAt : Keeps(jobs[j], t, eligibleAt) => Keeps(jobs'[j], t, eligibleAt),
         held' = [w \in Workers |-> held'[w]],
         \A w \in Workers : held'[w] = Nothing \/ held'[w].job \in DOMAIN jobs
  PROVE  StoreInv'
<1>1. PICK n \in Nat : jobs \in [1..n -> Job]
  BY DEF StoreInv, StoreTyped
<1>2. jobs' \in [1..n -> Job] /\ DOMAIN jobs' = DOMAIN jobs
  BY <1>1
<1>3. StoreTyped'
  BY <1>2 DEF StoreInv, StoreTyped
<1>4. \A a \in accepted' : Keeps(jobs'[a.job], a.submission, a.eligibleAt)
  BY DEF StoreInv, StoreTyped
<1> QED
  BY <1>3, <1>4 DEF StoreInv, Keeps

LEMMA EnqueueKept ==
  ASSUME StoreInv, NEW s \in Submissions, Enqueue(s)
  PROVE  StoreInv'
<1>1. PICK n \in Nat : jobs \in [1..n -> Job]
  BY DEF StoreInv, StoreTyped
<1>2. s.delay \in Nat /\ clock \in Nat /\ clock + s.delay \in Int
  BY SubmissionTypes DEF StoreInv, StoreTyped
<1>3. CASE \E j \in Matching(s) : jobs' = [jobs EXCEPT ![j] = Coalesce(@, s)] /\ Accept(j, s)
  <2>1. PICK j \in Matching(s) : jobs' = [jobs EXCEPT ![j] = Coalesce(@, s)] /\ Accept(j, s)
    BY <1>3
  <2>2. j \in 1..n /\ jobs[j] \in Job /\ jobs[j].state \in Waiting
    BY <1>1 DEF Matching
  <2>3. /\ Coalesce(jobs[j], s) \in Job
        /\ Keeps(Coalesce(jobs[j], s), s, clock + s.delay)
        /\ \A t \in Submissions : \A eligibleAt \in Int :
             Keeps(jobs[j], t, eligibleAt) => Keeps(Coalesce(jobs[j], s), t, eligibleAt)
    BY <2>2, <1>2, CoalesceKeeps
  <2>4. jobs' \in [1..n -> Job] /\ jobs'[j] = Coalesce(jobs[j], s) /\ \A k \in 1..n \ {j} : jobs'[k] = jobs[k]
    BY <1>1, <2>1, <2>2, <2>3
  <2>5. accepted' = accepted \cup {[submission |-> s, job |-> j, eligibleAt |-> clock + s.delay]}
    BY <2>1 DEF Accept
  <2>6. StoreTyped'
    BY <1>1, <1>2, <2>2, <2>4, <2>5 DEF StoreInv, StoreTyped, Enqueue
  <2>7. \A a \in accepted' : Keeps(jobs'[a.job], a.submission, a.eligibleAt)
    BY <1>1, <2>3, <2>4, <2>5 DEF StoreInv, StoreTyped
  <2> QED
    BY <2>6, <2>7 DEF StoreInv, Keeps
<1>4. CASE \E id \in {Cardinality(DOMAIN jobs) + 1} :
             /\ jobs' = [j \in DOMAIN jobs \cup {id} |-> IF j = id THEN NewJob(s) ELSE jobs[j]]
             /\ Accept(id, s)
  <2>1. Cardinality(DOMAIN jobs) = n
    BY <1>1, FS_Interval
  <2>2. jobs' = [j \in (1..n) \cup {n + 1} |-> IF j = n + 1 THEN NewJob(s) ELSE jobs[j]]
    BY <1>1, <1>4, <2>1
  <2>3. NewJob(s) \in Job /\ Keeps(NewJob(s), s, clock + s.delay)
    BY <1>2, NewJobKeeps
  <2>4. (1..n) \cup {n + 1} = 1..(n + 1) /\ n + 1 \notin 1..n /\ n + 1 \in Nat
    OBVIOUS
  <2>5. jobs' \in [1..(n + 1) -> Job] /\ jobs'[n + 1] = NewJob(s) /\ \A k \in 1..n : jobs'[k] = jobs[k]
    BY <1>1, <2>2, <2>3, <2>4
  <2>6. accepted' = accepted \cup {[submission |-> s, job |-> n + 1, eligibleAt |-> clock + s.delay]}
    BY <1>4, <2>1 DEF Accept
  <2>7. DOMAIN jobs = 1..n /\ DOMAIN jobs' = 1..(n + 1) /\ 1..n \subseteq 1..(n + 1) /\ n + 1 \in 1..(n + 1)
    BY <1>1, <2>4, <2>5
  <2>8. \A a \in accepted' : a.submission \in Submissions /\ a.job \in DOMAIN jobs' /\ a.eligibleAt \in Int
    BY <1>2, <2>6, <2>7 DEF StoreInv, StoreTyped
  <2>9. StoreTyped'
    BY <2>4, <2>5, <2>7, <2>8 DEF StoreInv, StoreTyped, Enqueue
  <2>10. \A a \in accepted' : Keeps(jobs'[a.job], a.submission, a.eligibleAt)
    BY <2>3, <2>5, <2>6, <2>7 DEF StoreInv, StoreTyped
  <2> QED
    BY <2>9, <2>10 DEF StoreInv, Keeps
<1> QED
  BY <1>3, <1>4 DEF Enqueue

LEMMA ClaimKept ==
  ASSUME StoreInv, NEW w \in Workers, NEW fairness, ClaimNext(w, fairness)
  PROVE  StoreInv'
<1>1. PICK j \in Candidates :
        LET generation == jobs[j].lastGeneration + 1
        IN  /\ jobs' = [jobs EXCEPT ![j] =
                 [@ EXCEPT !.state = "running", !.lastGeneration = generation, !.seen = jobs[j].inputs,
                           !.lease = [owner |-> w, generation |-> generation, expiresAt |-> clock + LeaseDuration]]]
            /\ held' = [held EXCEPT ![w] = [job |-> j, generation |-> generation]]
  BY DEF ClaimNext
<1> DEFINE generation == jobs[j].lastGeneration + 1
           claimed == Claimed(jobs[j], w, generation, clock + LeaseDuration)
<1>2. j \in DOMAIN jobs /\ jobs \in [DOMAIN jobs -> Job] /\ jobs[j] \in Job
  BY DEF Candidates, StoreInv, StoreTyped
<1>3. generation \in Nat /\ clock + LeaseDuration \in Int /\ clock \in Nat
  BY <1>2, SubmissionsAssumption DEF Job, StoreInv, StoreTyped
<1>4. jobs' = [jobs EXCEPT ![j] = claimed] /\ held' = [held EXCEPT ![w] = [job |-> j, generation |-> generation]]
  BY <1>1 DEF Claimed
<1> HIDE DEF generation
<1>5. /\ claimed \in Job
      /\ \A t, eligibleAt : Keeps(jobs[j], t, eligibleAt) => Keeps(claimed, t, eligibleAt)
  BY <1>2, <1>3, ClaimedKeeps
<1> HIDE DEF claimed
<1>6. jobs' = [k \in DOMAIN jobs |-> jobs'[k]] /\ jobs'[j] = claimed /\ \A k \in DOMAIN jobs \ {j} : jobs'[k] = jobs[k]
  BY <1>2, <1>4
<1>7. \A k \in DOMAIN jobs : /\ jobs'[k] \in Job
                             /\ \A t, eligibleAt : Keeps(jobs[k], t, eligibleAt) => Keeps(jobs'[k], t, eligibleAt)
  BY <1>2, <1>5, <1>6
<1>8. /\ held' = [v \in Workers |-> held'[v]]
      /\ \A v \in Workers : held'[v] = Nothing \/ held'[v].job \in DOMAIN jobs
  BY <1>2, <1>4 DEF StoreInv, StoreTyped
<1> QED
  BY <1>3, <1>6, <1>7, <1>8, RewrittenJobs DEF ClaimNext

LEMMA RenewKept ==
  ASSUME StoreInv, NEW w \in Workers, Renew(w)
  PROVE  StoreInv'
<1> DEFINE j == held[w].job
           renewed == [jobs[j] EXCEPT !.lease = [@ EXCEPT !.expiresAt = clock + LeaseDuration]]
<1>1. j \in DOMAIN jobs /\ jobs \in [DOMAIN jobs -> Job] /\ jobs[j] \in Job
  BY DEF Renew, ActiveLease, StoreInv, StoreTyped
<1>2. clock + LeaseDuration \in Int /\ clock \in Nat
  BY SubmissionsAssumption DEF StoreInv, StoreTyped
<1>3. jobs' = [jobs EXCEPT ![j] = renewed]
  BY <1>1 DEF Renew, Job
<1>4. renewed \in Job /\ \A t, eligibleAt : Keeps(jobs[j], t, eligibleAt) => Keeps(renewed, t, eligibleAt)
  BY <1>1, <1>2 DEF Job, Keeps
<1> HIDE DEF renewed, j
<1>5. jobs' = [k \in DOMAIN jobs |-> jobs'[k]] /\ jobs'[j] = renewed /\ \A k \in DOMAIN jobs \ {j} : jobs'[k] = jobs[k]
  BY <1>1, <1>3
<1>6. \A k \in DOMAIN jobs : /\ jobs'[k] \in Job
                             /\ \A t, eligibleAt : Keeps(jobs[k], t, eligibleAt) => Keeps(jobs'[k], t, eligibleAt)
  BY <1>1, <1>4, <1>5
<1>7. held' = held /\ accepted' = accepted /\ clock' = clock
  BY DEF Renew
<1> QED
  BY <1>2, <1>5, <1>6, <1>7, RewrittenJobs DEF StoreInv, StoreTyped

LEMMA ReleaseKept ==
  ASSUME StoreInv, NEW w \in Workers, NEW state \in Releases, Release(w, state)
  PROVE  StoreInv'
<1> DEFINE j == held[w].job
           eligible == IF state = "waiting_for_retry" THEN clock + 1 ELSE jobs[j].eligibleAt
           released == [Settle(jobs[j], state) EXCEPT !.eligibleAt = eligible]
<1>1. j \in DOMAIN jobs /\ jobs \in [DOMAIN jobs -> Job] /\ jobs[j] \in Job /\ jobs[j].state = "running"
  BY DEF Release, ActiveLease, StoreInv, StoreTyped
<1>2. clock \in Nat
  BY DEF StoreInv, StoreTyped
<1>3. jobs' = [jobs EXCEPT ![j] = released]
  BY DEF Release
<1>4. state \in States /\ state \notin {"pending", "running"}
  BY DEF Releases, States, Waiting, Terminal
<1>5. jobs[j].eligibleAt \in Int
  BY <1>1 DEF Job
<1>6. eligible \in Int
  BY <1>2, <1>5
<1> HIDE DEF eligible
<1>7. released \in Job /\ \A t, eligibleAt : Keeps(jobs[j], t, eligibleAt) => Keeps(released, t, eligibleAt)
  BY <1>1, <1>4, <1>6, SettleKeeps
<1> HIDE DEF released, j
<1>8. jobs' = [k \in DOMAIN jobs |-> jobs'[k]] /\ jobs'[j] = released /\ \A k \in DOMAIN jobs \ {j} : jobs'[k] = jobs[k]
  BY <1>1, <1>3
<1>9. \A k \in DOMAIN jobs : /\ jobs'[k] \in Job
                             /\ \A t, eligibleAt : Keeps(jobs[k], t, eligibleAt) => Keeps(jobs'[k], t, eligibleAt)
  BY <1>1, <1>7, <1>8
<1>10. /\ held' = [v \in Workers |-> held'[v]]
       /\ \A v \in Workers : held'[v] = Nothing \/ held'[v].job \in DOMAIN jobs
  BY DEF Release, StoreInv, StoreTyped
<1>11. accepted' = accepted /\ clock' = clock
  BY DEF Release
<1> QED
  BY <1>2, <1>8, <1>9, <1>10, <1>11, RewrittenJobs

LEMMA CancelKept ==
  ASSUME StoreInv, NEW j \in DOMAIN jobs, Cancel(j)
  PROVE  StoreInv'
<1>1. jobs \in [DOMAIN jobs -> Job] /\ jobs[j] \in Job /\ clock \in Nat /\ 0 \in Int
  BY DEF StoreInv, StoreTyped
<1>2. "canceled" \in States
  BY DEF States, Terminal
<1>3. /\ Settle(jobs[j], "canceled") \in Job
      /\ \A t, eligibleAt : Keeps(jobs[j], t, eligibleAt) => Keeps(Settle(jobs[j], "canceled"), t, eligibleAt)
  BY <1>1, <1>2, SettleKeeps
<1>4. /\ jobs' = [k \in DOMAIN jobs |-> jobs'[k]]
      /\ \A k \in DOMAIN jobs : jobs'[k] = IF k = j THEN Settle(jobs[j], "canceled") ELSE jobs[k]
  BY <1>1 DEF Cancel
<1>5. \A k \in DOMAIN jobs : /\ jobs'[k] \in Job
                             /\ \A t, eligibleAt : Keeps(jobs[k], t, eligibleAt) => Keeps(jobs'[k], t, eligibleAt)
  BY <1>1, <1>3, <1>4
<1>6. held' = held /\ accepted' = accepted /\ clock' = clock
  BY DEF Cancel
<1> QED
  BY <1>1, <1>4, <1>5, <1>6, RewrittenJobs DEF StoreInv, StoreTyped

LEMMA ExpireKept ==
  ASSUME StoreInv, ExpireDeadlines
  PROVE  StoreInv'
<1>1. PICK due \in SUBSET DOMAIN jobs :
        jobs' = [j \in DOMAIN jobs |-> IF j \in due THEN Settle(jobs[j], "failed") ELSE jobs[j]]
  BY DEF ExpireDeadlines
<1>2. jobs \in [DOMAIN jobs -> Job] /\ clock \in Nat /\ 0 \in Int /\ "failed" \in States
  BY DEF StoreInv, StoreTyped, States, Terminal
<1>3. ASSUME NEW k \in DOMAIN jobs
      PROVE  /\ jobs'[k] \in Job
             /\ \A t, eligibleAt : Keeps(jobs[k], t, eligibleAt) => Keeps(jobs'[k], t, eligibleAt)
  <2>1. /\ Settle(jobs[k], "failed") \in Job
        /\ \A t, eligibleAt : Keeps(jobs[k], t, eligibleAt) => Keeps(Settle(jobs[k], "failed"), t, eligibleAt)
    BY <1>2, SettleKeeps
  <2>2. jobs'[k] = Settle(jobs[k], "failed") \/ jobs'[k] = jobs[k]
    BY <1>1
  <2> QED
    BY <1>2, <2>1, <2>2
<1>4. jobs' = [k \in DOMAIN jobs |-> jobs'[k]]
  BY <1>1
<1>5. held' = held /\ accepted' = accepted /\ clock' = clock
  BY DEF ExpireDeadlines
<1> QED
  BY <1>2, <1>3, <1>4, <1>5, RewrittenJobs DEF StoreInv, StoreTyped

-----------------------------------------------------------------------------
(***************************************************************************)
(* The theorems.                                                           *)
(***************************************************************************)
LEMMA StoreStep == StoreInv /\ [RefNext]_rvars => StoreInv'
<1> SUFFICES ASSUME StoreInv, [RefNext]_rvars PROVE StoreInv'
  OBVIOUS
<1>1. ASSUME NEW w \in Workers, Abandon(w) PROVE StoreInv'
  BY <1>1 DEF Abandon, StoreInv, StoreTyped, Keeps
<1>2. CASE Tick
  BY <1>2 DEF Tick, StoreInv, StoreTyped, Keeps
<1>3. CASE UNCHANGED rvars
  BY <1>3 DEF rvars, StoreInv, StoreTyped, Keeps
<1> QED
  BY <1>1, <1>2, <1>3, EnqueueKept, ClaimKept, RenewKept, ReleaseKept, CancelKept, ExpireKept DEF RefNext

LEMMA StoreInvariant == RefSpec => []StoreInv
BY StoreStarts, StoreStep, PTL DEF RefSpec

(* SubmissionsKeepTheirTerms: coalescing never makes work less urgent, due  *)
(* later, or, while it waits for the first time, eligible later than any of *)
(* the submissions that joined it asked for (coalesceJobs).                 *)
THEOREM TermsAreKept == RefSpec => []SubmissionsKeepTheirTerms
<1>1. StoreInv => SubmissionsKeepTheirTerms
  BY DEF StoreInv, Keeps, SubmissionsKeepTheirTerms
<1> QED
  BY <1>1, StoreInvariant, PTL

(* CompletedWorkWasSeen: nothing is submitted into a job behind the back of *)
(* the run that completes it (enqueue, claimNext, release).                 *)
THEOREM CompletionsAreInformed == RefSpec => []CompletedWorkWasSeen
<1>1. StoreInv => CompletedWorkWasSeen
  BY DEF StoreInv, Keeps, CompletedWorkWasSeen
<1> QED
  BY <1>1, StoreInvariant, PTL

-----------------------------------------------------------------------------
(***************************************************************************)
(* The leases of the store.  One call of expireDeadlines ends every job    *)
(* that is due, which JobLeases does in a step for each, so what the store *)
(* promises is what JobLeases says of each job by itself.                  *)
(***************************************************************************)
StageOf(x)    == IF x \in DOMAIN jobs THEN jobs[x].state ELSE "absent"
GrantsOf(x)   == IF x \in DOMAIN jobs THEN jobs[x].lastGeneration ELSE 0
ClaimOf(w, x) == IF held[w].job = x THEN {[job |-> x, grant |-> held[w].generation]} ELSE {}

OneJob(j) == INSTANCE JobLeases WITH
  Jobs <- {j},
  stage <- [x \in {j} |-> StageOf(x)],
  grants <- [x \in {j} |-> GrantsOf(x)],
  claims <- [w \in Workers |-> ClaimOf(w, j)]

(* The lease of a job that runs is its latest.                              *)
LeaseIsLatest == \A k \in DOMAIN jobs : jobs[k].state = "running" => jobs[k].lease.generation = jobs[k].lastGeneration

LeasedInv == StoreInv /\ LeaseIsLatest

(* What JobLeases can tell of a job.                                        *)
SameLease(before, after) ==
  /\ after.state = before.state /\ after.lastGeneration = before.lastGeneration
  /\ after.lease.generation = before.lease.generation

(* The jobs in due, and no others, come to rest.                            *)
Ends(due, state) ==
  /\ DOMAIN jobs' = DOMAIN jobs
  /\ \A k \in DOMAIN jobs : IF k \in due THEN /\ jobs'[k].state = state
                                              /\ jobs'[k].lastGeneration = jobs[k].lastGeneration
                                         ELSE jobs'[k] = jobs[k]

LEMMA SettledJob ==
  ASSUME NEW job \in Job, NEW state, NEW eligible
  PROVE  /\ Settle(job, state).state = state
         /\ Settle(job, state).lastGeneration = job.lastGeneration
         /\ [Settle(job, state) EXCEPT !.eligibleAt = eligible].state = state
         /\ [Settle(job, state) EXCEPT !.eligibleAt = eligible].lastGeneration = job.lastGeneration
BY DEF Settle, Job

LEMMA JobsByID ==
  ASSUME StoreInv
  PROVE  \E n \in Nat : DOMAIN jobs = 1..n /\ jobs \in [1..n -> Job]
BY DEF StoreInv, StoreTyped

LEMMA EnqueueIs ==
  ASSUME StoreInv, NEW s \in Submissions, Enqueue(s)
  PROVE  \E n \in Nat :
           /\ DOMAIN jobs = 1..n
           /\ \/ DOMAIN jobs' = 1..n /\ \A k \in 1..n : SameLease(jobs[k], jobs'[k])
              \/ /\ DOMAIN jobs' = 1..(n + 1) /\ \A k \in 1..n : jobs'[k] = jobs[k]
                 /\ jobs'[n + 1].state = "pending" /\ jobs'[n + 1].lastGeneration = 0
<1>1. PICK n \in Nat : DOMAIN jobs = 1..n /\ jobs \in [1..n -> Job]
  BY JobsByID
<1>2. CASE \E j \in Matching(s) : jobs' = [jobs EXCEPT ![j] = Coalesce(@, s)]
  <2>1. PICK j \in Matching(s) : jobs' = [jobs EXCEPT ![j] = Coalesce(jobs[j], s)]
    BY <1>2
  <2>2. j \in 1..n /\ jobs[j] \in Job
    BY <1>1 DEF Matching
  <2>3. SameLease(jobs[j], Coalesce(jobs[j], s))
    BY <2>2 DEF SameLease, Coalesce, Job
  <2>4. DOMAIN jobs' = 1..n /\ jobs'[j] = Coalesce(jobs[j], s) /\ \A k \in 1..n \ {j} : jobs'[k] = jobs[k]
    BY <1>1, <2>1, <2>2
  <2>5. \A k \in 1..n : SameLease(jobs[k], jobs'[k])
    BY <2>3, <2>4 DEF SameLease
  <2> QED
    BY <1>1, <2>4, <2>5
<1>3. CASE jobs' = [j \in DOMAIN jobs \cup {Cardinality(DOMAIN jobs) + 1} |->
                     IF j = Cardinality(DOMAIN jobs) + 1 THEN NewJob(s) ELSE jobs[j]]
  <2>1. Cardinality(DOMAIN jobs) = n
    BY <1>1, FS_Interval
  <2>2. jobs' = [j \in (1..n) \cup {n + 1} |-> IF j = n + 1 THEN NewJob(s) ELSE jobs[j]]
    BY <1>1, <1>3, <2>1
  <2>3. (1..n) \cup {n + 1} = 1..(n + 1) /\ n + 1 \notin 1..n
    OBVIOUS
  <2>4. NewJob(s).state = "pending" /\ NewJob(s).lastGeneration = 0
    BY DEF NewJob
  <2>5. DOMAIN jobs' = 1..(n + 1) /\ jobs'[n + 1] = NewJob(s) /\ \A k \in 1..n : jobs'[k] = jobs[k]
    BY <2>2, <2>3
  <2> QED
    BY <1>1, <2>4, <2>5
<1> QED
  BY <1>2, <1>3 DEF Enqueue

LEMMA ClaimIs ==
  ASSUME StoreInv, NEW w \in Workers, NEW fairness, ClaimNext(w, fairness)
  PROVE  \E k \in DOMAIN jobs :
           /\ jobs[k].state \in Waiting \cup {"running"}
           /\ DOMAIN jobs' = DOMAIN jobs
           /\ \A i \in DOMAIN jobs \ {k} : jobs'[i] = jobs[i]
           /\ jobs'[k].state = "running" /\ jobs'[k].lastGeneration = jobs[k].lastGeneration + 1
           /\ jobs'[k].lease.generation = jobs[k].lastGeneration + 1
           /\ held[w] = Nothing
           /\ held' = [held EXCEPT ![w] = [job |-> k, generation |-> jobs[k].lastGeneration + 1]]
<1>1. PICK k \in Candidates :
        LET generation == jobs[k].lastGeneration + 1
        IN  /\ jobs' = [jobs EXCEPT ![k] =
                 [@ EXCEPT !.state = "running", !.lastGeneration = generation, !.seen = jobs[k].inputs,
                           !.lease = [owner |-> w, generation |-> generation, expiresAt |-> clock + LeaseDuration]]]
            /\ held' = [held EXCEPT ![w] = [job |-> k, generation |-> generation]]
  BY DEF ClaimNext
<1> DEFINE generation == jobs[k].lastGeneration + 1
           claimed == Claimed(jobs[k], w, generation, clock + LeaseDuration)
<1>2. k \in DOMAIN jobs /\ jobs[k] \in Job /\ jobs[k].state \in Waiting \cup {"running"}
  BY DEF Candidates, LeaseExpired, StoreInv, StoreTyped
<1>3. jobs' = [jobs EXCEPT ![k] = claimed] /\ held' = [held EXCEPT ![w] = [job |-> k, generation |-> generation]]
  BY <1>1 DEF Claimed
<1>4. jobs \in [DOMAIN jobs -> Job]
  BY DEF StoreInv, StoreTyped
<1>5. claimed.state = "running" /\ claimed.lastGeneration = generation /\ claimed.lease.generation = generation
  BY <1>2 DEF Claimed, Job
<1> HIDE DEF claimed
<1>6. DOMAIN jobs' = DOMAIN jobs /\ jobs'[k] = claimed /\ \A i \in DOMAIN jobs \ {k} : jobs'[i] = jobs[i]
  BY <1>2, <1>3, <1>4
<1>7. held[w] = Nothing
  BY DEF ClaimNext
<1> QED
  BY <1>2, <1>3, <1>5, <1>6, <1>7

LEMMA RenewIs ==
  ASSUME StoreInv, NEW w \in Workers, Renew(w)
  PROVE  DOMAIN jobs' = DOMAIN jobs /\ \A k \in DOMAIN jobs : SameLease(jobs[k], jobs'[k])
<1> DEFINE j == held[w].job
           renewed == [jobs[j] EXCEPT !.lease = [@ EXCEPT !.expiresAt = clock + LeaseDuration]]
<1>1. j \in DOMAIN jobs /\ jobs \in [DOMAIN jobs -> Job] /\ jobs[j] \in Job
  BY DEF Renew, ActiveLease, StoreInv, StoreTyped
<1>2. jobs' = [jobs EXCEPT ![j] = renewed]
  BY <1>1 DEF Renew, Job
<1>3. SameLease(jobs[j], renewed)
  BY <1>1 DEF SameLease, Job
<1> HIDE DEF renewed, j
<1>4. DOMAIN jobs' = DOMAIN jobs /\ jobs'[j] = renewed /\ \A k \in DOMAIN jobs \ {j} : jobs'[k] = jobs[k]
  BY <1>1, <1>2
<1> QED
  BY <1>3, <1>4 DEF SameLease

LEMMA ReleaseIs ==
  ASSUME StoreInv, NEW w \in Workers, NEW state \in Releases, Release(w, state)
  PROVE  /\ held[w].job \in DOMAIN jobs /\ ActiveLease(w)
         /\ Ends({held[w].job}, state)
         /\ held' = [held EXCEPT ![w] = Nothing]
<1> DEFINE j == held[w].job
           eligible == IF state = "waiting_for_retry" THEN clock + 1 ELSE jobs[j].eligibleAt
           released == [Settle(jobs[j], state) EXCEPT !.eligibleAt = eligible]
<1>1. j \in DOMAIN jobs /\ jobs \in [DOMAIN jobs -> Job] /\ jobs[j] \in Job
  BY DEF Release, ActiveLease, StoreInv, StoreTyped
<1>2. jobs' = [jobs EXCEPT ![j] = released] /\ held' = [held EXCEPT ![w] = Nothing] /\ ActiveLease(w)
  BY DEF Release
<1>3. released.state = state /\ released.lastGeneration = jobs[j].lastGeneration
  BY <1>1, SettledJob
<1> HIDE DEF released, j
<1>4. DOMAIN jobs' = DOMAIN jobs /\ jobs'[j] = released /\ \A k \in DOMAIN jobs \ {j} : jobs'[k] = jobs[k]
  BY <1>1, <1>2
<1>5. Ends({j}, state)
  BY <1>3, <1>4 DEF Ends
<1> QED
  BY <1>1, <1>2, <1>5 DEF j

LEMMA CancelIs ==
  ASSUME StoreInv, NEW j \in DOMAIN jobs, Cancel(j)
  PROVE  Ends({j}, "canceled") /\ jobs[j].state \notin Terminal
<1>1. jobs \in [DOMAIN jobs -> Job] /\ jobs[j] \in Job
  BY DEF StoreInv, StoreTyped
<1>2. /\ Settle(jobs[j], "canceled").state = "canceled"
      /\ Settle(jobs[j], "canceled").lastGeneration = jobs[j].lastGeneration
  BY <1>1, SettledJob
<1>3. /\ DOMAIN jobs' = DOMAIN jobs /\ jobs'[j] = Settle(jobs[j], "canceled")
      /\ \A k \in DOMAIN jobs \ {j} : jobs'[k] = jobs[k]
  BY <1>1 DEF Cancel
<1> QED
  BY <1>2, <1>3 DEF Ends, Cancel

LEMMA ExpireIs ==
  ASSUME StoreInv, ExpireDeadlines
  PROVE  \E due \in SUBSET DOMAIN jobs : Ends(due, "failed") /\ \A k \in due : jobs[k].state \notin Terminal
<1> DEFINE due == {j \in DOMAIN jobs : jobs[j].state \notin Terminal /\ jobs[j].deadline <= clock}
<1>1. jobs' = [j \in DOMAIN jobs |-> IF j \in due THEN Settle(jobs[j], "failed") ELSE jobs[j]]
  BY DEF ExpireDeadlines
<1>2. due \in SUBSET DOMAIN jobs /\ \A k \in due : jobs[k].state \notin Terminal
  OBVIOUS
<1> HIDE DEF due
<1>3. ASSUME NEW k \in DOMAIN jobs
      PROVE  /\ Settle(jobs[k], "failed").state = "failed"
             /\ Settle(jobs[k], "failed").lastGeneration = jobs[k].lastGeneration
  <2>1. jobs[k] \in Job
    BY DEF StoreInv, StoreTyped
  <2> QED
    BY <2>1, SettledJob
<1>4. Ends(due, "failed")
  BY <1>1, <1>3 DEF Ends
<1> QED
  BY <1>2, <1>4

-----------------------------------------------------------------------------
(***************************************************************************)
(* The invariant: a job ends without a lease, and a claim grants the next. *)
(***************************************************************************)
LEMMA LatestStays ==
  ASSUME LeaseIsLatest, NEW due, NEW state, state # "running", Ends(due, state)
  PROVE  LeaseIsLatest'
BY DEF LeaseIsLatest, Ends

LEMMA LeasedStep == LeasedInv /\ [RefNext]_rvars => LeasedInv'
<1> SUFFICES ASSUME LeasedInv, [RefNext]_rvars PROVE LeasedInv'
  OBVIOUS
<1>1. StoreInv /\ LeaseIsLatest /\ StoreInv'
  BY StoreStep DEF LeasedInv
<1>2. ASSUME NEW s \in Submissions, Enqueue(s) PROVE LeaseIsLatest'
  <2>1. PICK n \in Nat :
           /\ DOMAIN jobs = 1..n
           /\ \/ DOMAIN jobs' = 1..n /\ \A k \in 1..n : SameLease(jobs[k], jobs'[k])
              \/ /\ DOMAIN jobs' = 1..(n + 1) /\ \A k \in 1..n : jobs'[k] = jobs[k]
                 /\ jobs'[n + 1].state = "pending" /\ jobs'[n + 1].lastGeneration = 0
    BY <1>1, <1>2, EnqueueIs
  <2>2. 1..(n + 1) = (1..n) \cup {n + 1}
    BY <2>1
  <2> QED
    BY <1>1, <2>1, <2>2 DEF LeaseIsLatest, SameLease
<1>3. ASSUME NEW w \in Workers, NEW fairness, ClaimNext(w, fairness) PROVE LeaseIsLatest'
  BY <1>1, <1>3, ClaimIs DEF LeaseIsLatest
<1>4. ASSUME NEW w \in Workers, Renew(w) PROVE LeaseIsLatest'
  BY <1>1, <1>4, RenewIs DEF LeaseIsLatest, SameLease
<1>5. ASSUME NEW w \in Workers, NEW state \in Releases, Release(w, state) PROVE LeaseIsLatest'
  <2>1. state # "running"
    BY DEF Releases
  <2> QED
    BY <1>1, <1>5, <2>1, ReleaseIs, LatestStays
<1>6. ASSUME NEW j \in DOMAIN jobs, Cancel(j) PROVE LeaseIsLatest'
  BY <1>1, <1>6, CancelIs, LatestStays
<1>7. ASSUME ExpireDeadlines PROVE LeaseIsLatest'
  <2>1. PICK due \in SUBSET DOMAIN jobs : Ends(due, "failed")
    BY <1>1, <1>7, ExpireIs
  <2> QED
    BY <1>1, <2>1, LatestStays
<1>8. ASSUME jobs' = jobs PROVE LeaseIsLatest'
  BY <1>1, <1>8 DEF LeaseIsLatest
<1>9. LeaseIsLatest'
  <2>1. ASSUME NEW w \in Workers, Abandon(w) PROVE LeaseIsLatest'
    BY <1>8, <2>1 DEF Abandon
  <2>2. CASE Tick
    BY <1>8, <2>2 DEF Tick
  <2>3. CASE UNCHANGED rvars
    BY <1>8, <2>3 DEF rvars
  <2> QED
    BY <1>2, <1>3, <1>4, <1>5, <1>6, <1>7, <2>1, <2>2, <2>3 DEF RefNext
<1> QED
  BY <1>1, <1>9 DEF LeasedInv

LEMMA LeasedInvariant == RefSpec => []LeasedInv
<1>1. RefInit => LeasedInv
  BY StoreStarts DEF RefInit, LeasedInv, LeaseIsLatest
<1> QED
  BY <1>1, LeasedStep, PTL DEF RefSpec

-----------------------------------------------------------------------------
(***************************************************************************)
(* The refinement, for one job.                                            *)
(***************************************************************************)
LEMMA OtherJobsMove ==
  ASSUME NEW j, StageOf(j)' = StageOf(j), GrantsOf(j)' = GrantsOf(j),
         \A w \in Workers : ClaimOf(w, j)' = ClaimOf(w, j)
  PROVE  UNCHANGED OneJob(j)!vars
<1>1. [x \in {j} |-> StageOf(x)]' = [x \in {j} |-> StageOf(x)]
  OBVIOUS
<1>2. [x \in {j} |-> GrantsOf(x)]' = [x \in {j} |-> GrantsOf(x)]
  OBVIOUS
<1>3. [w \in Workers |-> ClaimOf(w, j)]' = [w \in Workers |-> ClaimOf(w, j)]
  OBVIOUS
<1> QED
  BY <1>1, <1>2, <1>3 DEF OneJob!vars

(* A claim that a step leaves alone, because it leaves held alone.          *)
LEMMA SameClaims ==
  ASSUME held' = held, NEW j
  PROVE  \A w \in Workers : ClaimOf(w, j)' = ClaimOf(w, j)
BY DEF ClaimOf

LEMMA SameStage ==
  ASSUME NEW j, DOMAIN jobs' = DOMAIN jobs, j \in DOMAIN jobs => SameLease(jobs[j], jobs'[j])
  PROVE  StageOf(j)' = StageOf(j) /\ GrantsOf(j)' = GrantsOf(j)
BY DEF StageOf, GrantsOf, SameLease

(* Cancellation and deadlines end a job, or concern other jobs.             *)
LEMMA EndsIsEnd ==
  ASSUME NEW j \in Nat \ {0}, NEW due \in SUBSET DOMAIN jobs, NEW state \in {"failed", "canceled"},
         Ends(due, state), \A k \in due : jobs[k].state \notin Terminal, held' = held,
         j \in DOMAIN jobs => jobs[j] \in Job
  PROVE  [OneJob(j)!Next]_(OneJob(j)!vars)
<1>1. CASE j \in due
  <2>1. /\ StageOf(j) = jobs[j].state /\ StageOf(j)' = state /\ GrantsOf(j)' = GrantsOf(j)
    BY <1>1 DEF StageOf, GrantsOf, Ends
  <2>2. jobs[j].state \notin Terminal \cup {"absent"}
    BY <1>1 DEF Job, States, Waiting, Terminal
  <2>3. [x \in {j} |-> StageOf(x)]' = [[x \in {j} |-> StageOf(x)] EXCEPT ![j] = state]
    BY <2>1
  <2>4. [x \in {j} |-> GrantsOf(x)]' = [x \in {j} |-> GrantsOf(x)]
    BY <2>1
  <2>5. [w \in Workers |-> ClaimOf(w, j)]' = [w \in Workers |-> ClaimOf(w, j)]
    BY SameClaims
  <2>6. OneJob(j)!Unended(j)
    BY <2>1, <2>2 DEF OneJob!Unended, OneJob!Terminal, Terminal
  <2>7. OneJob(j)!End(j, state)
    BY <2>3, <2>4, <2>5, <2>6 DEF OneJob!End
  <2> QED
    BY <2>7 DEF OneJob!Next
<1>2. CASE j \notin due
  <2>1. UNCHANGED OneJob(j)!vars
    BY <1>2, SameClaims, OtherJobsMove DEF StageOf, GrantsOf, Ends
  <2> QED
    BY <2>1
<1> QED
  BY <1>1, <1>2

LEMMA EnqueueLeases ==
  ASSUME StoreInv, NEW j \in Nat \ {0}, NEW s \in Submissions, Enqueue(s)
  PROVE  [OneJob(j)!Next]_(OneJob(j)!vars)
<1>1. PICK n \in Nat :
        /\ DOMAIN jobs = 1..n
        /\ \/ DOMAIN jobs' = 1..n /\ \A k \in 1..n : SameLease(jobs[k], jobs'[k])
           \/ /\ DOMAIN jobs' = 1..(n + 1) /\ \A k \in 1..n : jobs'[k] = jobs[k]
              /\ jobs'[n + 1].state = "pending" /\ jobs'[n + 1].lastGeneration = 0
  BY EnqueueIs
<1>2. held' = held
  BY DEF Enqueue
<1>3. CASE j = n + 1 /\ DOMAIN jobs' = 1..(n + 1)
  <2>1. j \notin DOMAIN jobs /\ j \in DOMAIN jobs'
    BY <1>1, <1>3
  <2>2. jobs'[j].state = "pending" /\ jobs'[j].lastGeneration = 0
    BY <1>1, <1>3
  <2>3. StageOf(j) = "absent" /\ StageOf(j)' = "pending" /\ GrantsOf(j)' = GrantsOf(j)
    BY <2>1, <2>2 DEF StageOf, GrantsOf
  <2>4. [x \in {j} |-> StageOf(x)]' = [[x \in {j} |-> StageOf(x)] EXCEPT ![j] = "pending"]
    BY <2>3
  <2>5. [x \in {j} |-> GrantsOf(x)]' = [x \in {j} |-> GrantsOf(x)]
    BY <2>3
  <2>6. [w \in Workers |-> ClaimOf(w, j)]' = [w \in Workers |-> ClaimOf(w, j)]
    BY <1>2, SameClaims
  <2>7. OneJob(j)!Enqueue(j)
    BY <2>3, <2>4, <2>5, <2>6 DEF OneJob!Enqueue
  <2> QED
    BY <2>7 DEF OneJob!Next
<1>4. CASE ~(j = n + 1 /\ DOMAIN jobs' = 1..(n + 1))
  <2>1. StageOf(j)' = StageOf(j) /\ GrantsOf(j)' = GrantsOf(j)
    <3>1. CASE DOMAIN jobs' = 1..n /\ \A k \in 1..n : SameLease(jobs[k], jobs'[k])
      BY <1>1, <3>1, SameStage
    <3>2. CASE DOMAIN jobs' = 1..(n + 1) /\ \A k \in 1..n : jobs'[k] = jobs[k]
      <4>1. j \in DOMAIN jobs' <=> j \in DOMAIN jobs
        BY <1>1, <1>4, <3>2
      <4> QED
        BY <1>1, <3>2, <4>1 DEF StageOf, GrantsOf
    <3> QED
      BY <1>1, <3>1, <3>2
  <2>2. UNCHANGED OneJob(j)!vars
    BY <1>2, <2>1, SameClaims, OtherJobsMove
  <2> QED
    BY <2>2
<1> QED
  BY <1>3, <1>4

LEMMA ClaimLeases ==
  ASSUME StoreInv, NEW j \in Nat \ {0}, NEW w \in Workers, NEW fairness, ClaimNext(w, fairness)
  PROVE  [OneJob(j)!Next]_(OneJob(j)!vars)
<1>1. PICK k \in DOMAIN jobs :
        /\ jobs[k].state \in Waiting \cup {"running"}
        /\ DOMAIN jobs' = DOMAIN jobs
        /\ \A i \in DOMAIN jobs \ {k} : jobs'[i] = jobs[i]
        /\ jobs'[k].state = "running" /\ jobs'[k].lastGeneration = jobs[k].lastGeneration + 1
        /\ jobs'[k].lease.generation = jobs[k].lastGeneration + 1
        /\ held[w] = Nothing
        /\ held' = [held EXCEPT ![w] = [job |-> k, generation |-> jobs[k].lastGeneration + 1]]
  BY ClaimIs
<1>2. held = [v \in Workers |-> held[v]]
  BY DEF StoreInv, StoreTyped
<1>3. /\ held'[w] = [job |-> k, generation |-> jobs[k].lastGeneration + 1]
      /\ \A v \in Workers \ {w} : held'[v] = held[v]
  BY <1>1, <1>2
<1>4. ClaimOf(w, j) = {} /\ \A v \in Workers \ {w} : ClaimOf(v, j)' = ClaimOf(v, j)
  BY <1>1, <1>3 DEF ClaimOf, Nothing
<1>5. CASE k = j
  <2>1. /\ StageOf(j) = jobs[j].state /\ StageOf(j)' = "running"
        /\ GrantsOf(j) = jobs[j].lastGeneration /\ GrantsOf(j)' = jobs[j].lastGeneration + 1
    BY <1>1, <1>5 DEF StageOf, GrantsOf
  <2>2. ClaimOf(w, j)' = {[job |-> j, grant |-> jobs[j].lastGeneration + 1]}
    BY <1>3, <1>5 DEF ClaimOf
  <2>3. [x \in {j} |-> StageOf(x)]' = [[x \in {j} |-> StageOf(x)] EXCEPT ![j] = "running"]
    BY <2>1
  <2>4. [x \in {j} |-> GrantsOf(x)]' = [[x \in {j} |-> GrantsOf(x)] EXCEPT ![j] = @ + 1]
    BY <2>1
  <2>5. [v \in Workers |-> ClaimOf(v, j)]'
        = [[v \in Workers |-> ClaimOf(v, j)] EXCEPT ![w] = {[job |-> j, grant |-> GrantsOf(j) + 1]}]
    BY <1>4, <2>1, <2>2
  <2>6. StageOf(j) \in Waiting \cup {"running"}
    BY <1>1, <1>5, <2>1
  <2>7. OneJob(j)!Claim(w, j)
    BY <1>4, <2>3, <2>4, <2>5, <2>6 DEF OneJob!Claim, OneJob!Waiting, Waiting
  <2> QED
    BY <2>7 DEF OneJob!Next
<1>6. CASE k # j
  <2>1. StageOf(j)' = StageOf(j) /\ GrantsOf(j)' = GrantsOf(j)
    BY <1>1, <1>6 DEF StageOf, GrantsOf
  <2>2. ClaimOf(w, j)' = {}
    BY <1>3, <1>6 DEF ClaimOf
  <2>3. UNCHANGED OneJob(j)!vars
    BY <1>4, <2>1, <2>2, OtherJobsMove
  <2> QED
    BY <2>3
<1> QED
  BY <1>5, <1>6

LEMMA ReleaseLeases ==
  ASSUME LeasedInv, NEW j \in Nat \ {0}, NEW w \in Workers, NEW state \in Releases, Release(w, state)
  PROVE  [OneJob(j)!Next]_(OneJob(j)!vars)
<1> DEFINE k == held[w].job
<1>1. /\ k \in DOMAIN jobs /\ ActiveLease(w) /\ Ends({k}, state)
      /\ held' = [held EXCEPT ![w] = Nothing]
  BY ReleaseIs DEF LeasedInv
<1>2. held = [v \in Workers |-> held[v]]
  BY DEF LeasedInv, StoreInv, StoreTyped
<1>3. held'[w] = Nothing /\ \A v \in Workers \ {w} : held'[v] = held[v]
  BY <1>1, <1>2
<1>4. ClaimOf(w, j)' = {} /\ \A v \in Workers \ {w} : ClaimOf(v, j)' = ClaimOf(v, j)
  BY <1>3 DEF ClaimOf, Nothing
<1>5. CASE k = j
  <2>1. jobs[j].state = "running" /\ jobs[j].lease.generation = held[w].generation
    BY <1>1, <1>5 DEF ActiveLease
  <2>2. jobs[j].lastGeneration = held[w].generation
    BY <1>1, <1>5, <2>1 DEF LeasedInv, LeaseIsLatest
  <2>3. /\ StageOf(j) = "running" /\ StageOf(j)' = state
        /\ GrantsOf(j) = held[w].generation /\ GrantsOf(j)' = GrantsOf(j)
    BY <1>1, <1>5, <2>1, <2>2 DEF StageOf, GrantsOf, Ends
  <2>4. ClaimOf(w, j) = {[job |-> j, grant |-> held[w].generation]}
    BY <1>5 DEF ClaimOf
  <2>5. [x \in {j} |-> StageOf(x)]' = [[x \in {j} |-> StageOf(x)] EXCEPT ![j] = state]
    BY <2>3
  <2>6. [x \in {j} |-> GrantsOf(x)]' = [x \in {j} |-> GrantsOf(x)]
    BY <2>3
  <2>7. [v \in Workers |-> ClaimOf(v, j)]' = [[v \in Workers |-> ClaimOf(v, j)] EXCEPT ![w] = {}]
    BY <1>4
  <2>8. PICK c \in ClaimOf(w, j) : c.job = j /\ c.grant = held[w].generation
    BY <2>4
  <2>9. [v \in Workers |-> ClaimOf(v, j)][w] = ClaimOf(w, j)
    OBVIOUS
  <2>10. [x \in {j} |-> StageOf(x)][j] = "running" /\ [x \in {j} |-> GrantsOf(x)][j] = held[w].generation
    BY <2>3
  <2>11. OneJob(j)!Active(w)
    BY <2>8, <2>9, <2>10 DEF OneJob!Active
  <2>12. \E d \in [v \in Workers |-> ClaimOf(v, j)][w] :
            [x \in {j} |-> StageOf(x)]' = [[x \in {j} |-> StageOf(x)] EXCEPT ![d.job] = state]
    BY <2>5, <2>8, <2>9
  <2>13. OneJob(j)!Release(w, state, FALSE)
    BY <2>6, <2>7, <2>11, <2>12 DEF OneJob!Release
  <2>14. state \in OneJob(j)!Releases
    BY DEF Releases, OneJob!Releases
  <2> QED
    BY <2>13, <2>14 DEF OneJob!Next
<1>6. CASE k # j
  <2>1. StageOf(j)' = StageOf(j) /\ GrantsOf(j)' = GrantsOf(j)
    BY <1>1, <1>6 DEF StageOf, GrantsOf, Ends
  <2>2. ClaimOf(w, j) = {}
    BY <1>6 DEF ClaimOf
  <2>3. UNCHANGED OneJob(j)!vars
    BY <1>4, <2>1, <2>2, OtherJobsMove
  <2> QED
    BY <2>3
<1> QED
  BY <1>5, <1>6

LEMMA AbandonLeases ==
  ASSUME StoreInv, NEW j \in Nat \ {0}, NEW w \in Workers, Abandon(w)
  PROVE  [OneJob(j)!Next]_(OneJob(j)!vars)
<1>1. held = [v \in Workers |-> held[v]] /\ held' = [held EXCEPT ![w] = Nothing] /\ jobs' = jobs
  BY DEF StoreInv, StoreTyped, Abandon
<1>2. held'[w] = Nothing /\ \A v \in Workers \ {w} : held'[v] = held[v]
  BY <1>1
<1>3. ClaimOf(w, j)' = {} /\ \A v \in Workers \ {w} : ClaimOf(v, j)' = ClaimOf(v, j)
  BY <1>2 DEF ClaimOf, Nothing
<1>4. [v \in Workers |-> ClaimOf(v, j)]' = [[v \in Workers |-> ClaimOf(v, j)] EXCEPT ![w] = {}]
  BY <1>3
<1>5. StageOf(j)' = StageOf(j) /\ GrantsOf(j)' = GrantsOf(j)
  BY <1>1 DEF StageOf, GrantsOf
<1>6. [x \in {j} |-> StageOf(x)]' = [x \in {j} |-> StageOf(x)]
  BY <1>5
<1>7. [x \in {j} |-> GrantsOf(x)]' = [x \in {j} |-> GrantsOf(x)]
  BY <1>5
<1>8. OneJob(j)!Drop(w)
  BY <1>4, <1>6, <1>7 DEF OneJob!Drop
<1> QED
  BY <1>8 DEF OneJob!Next

LEMMA StoreStepLeases ==
  ASSUME NEW j \in Nat \ {0}, LeasedInv, [RefNext]_rvars
  PROVE  [OneJob(j)!Next]_(OneJob(j)!vars)
<1>1. StoreInv
  BY DEF LeasedInv
<1>2. ASSUME NEW w \in Workers, Renew(w) PROVE [OneJob(j)!Next]_(OneJob(j)!vars)
  <2>1. held' = held
    BY <1>2 DEF Renew
  <2>2. StageOf(j)' = StageOf(j) /\ GrantsOf(j)' = GrantsOf(j)
    BY <1>1, <1>2, RenewIs, SameStage
  <2>3. UNCHANGED OneJob(j)!vars
    BY <2>1, <2>2, SameClaims, OtherJobsMove
  <2> QED
    BY <2>3
<1>3. j \in DOMAIN jobs => jobs[j] \in Job
  BY <1>1 DEF StoreInv, StoreTyped
<1>4. ASSUME NEW k \in DOMAIN jobs, Cancel(k) PROVE [OneJob(j)!Next]_(OneJob(j)!vars)
  <2>1. held' = held /\ {k} \in SUBSET DOMAIN jobs
    BY <1>4 DEF Cancel
  <2>2. Ends({k}, "canceled") /\ \A i \in {k} : jobs[i].state \notin Terminal
    BY <1>1, <1>4, CancelIs
  <2> QED
    BY <1>3, <2>1, <2>2, EndsIsEnd
<1>5. CASE ExpireDeadlines
  <2>1. held' = held
    BY <1>5 DEF ExpireDeadlines
  <2>2. PICK due \in SUBSET DOMAIN jobs : Ends(due, "failed") /\ \A k \in due : jobs[k].state \notin Terminal
    BY <1>1, <1>5, ExpireIs
  <2> QED
    BY <1>3, <2>1, <2>2, EndsIsEnd
<1>6. ASSUME jobs' = jobs, held' = held PROVE [OneJob(j)!Next]_(OneJob(j)!vars)
  <2>1. StageOf(j)' = StageOf(j) /\ GrantsOf(j)' = GrantsOf(j)
    BY <1>6 DEF StageOf, GrantsOf
  <2>2. UNCHANGED OneJob(j)!vars
    BY <1>6, <2>1, SameClaims, OtherJobsMove
  <2> QED
    BY <2>2
<1> QED
  BY <1>1, <1>2, <1>4, <1>5, <1>6, EnqueueLeases, ClaimLeases, ReleaseLeases, AbandonLeases DEF RefNext, Tick, rvars

LEMMA StoreStartsLeases ==
  ASSUME NEW j \in Nat \ {0}, RefInit
  PROVE  OneJob(j)!Init
<1>1. StageOf(j) = "absent" /\ GrantsOf(j) = 0 /\ \A w \in Workers : ClaimOf(w, j) = {}
  BY DEF RefInit, StageOf, GrantsOf, ClaimOf, Nothing
<1> QED
  BY <1>1 DEF OneJob!Init

(* Each job of the store moves as JobLeases says: it is claimed while it    *)
(* waits or after its lease ran out, only the worker of its latest claim    *)
(* releases it, and a worker that was fenced, however late it calls, and a  *)
(* submission that joins it change neither its state nor its claims         *)
(* (repository.ts: enqueue, claimNext, renew, release, cancel,              *)
(* expireDeadlines).                                                        *)
THEOREM StoreImplementsLeases ==
  ASSUME NEW j \in Nat \ {0}
  PROVE  RefSpec => OneJob(j)!Spec
<1>1. RefInit => OneJob(j)!Init
  BY StoreStartsLeases
<1>2. LeasedInv /\ [RefNext]_rvars => [OneJob(j)!Next]_(OneJob(j)!vars)
  BY StoreStepLeases
<1> QED
  BY <1>1, <1>2, LeasedInvariant, PTL DEF RefSpec, OneJob!Spec
=============================================================================
