------------------------------ MODULE MCDoubles ------------------------------
(***************************************************************************)
(* The two doubles that tests and embedders run instead of the service. In  *)
(* some behaviours, the mock service and a caller that makes three calls,   *)
(* giving up on some while their copies travel on, on a budget that one     *)
(* more request nearly exhausts; in the others, the scheduler's store in    *)
(* memory, with two workers and three submissions of one forecast.          *)
(***************************************************************************)
EXTENDS MockService, ReferenceStore, TLC

CONSTANTS w1, w2

Narrow == {"organization"}
Wide == {"organization", "department"}
Expect(type, id, revision) == {[type |-> type, id |-> id, revision |-> revision]}
Input(p, expected) ==
  [p |-> p, expected |-> expected, fault |-> "none",
   principal |-> IF p.op = "reviews.decide" THEN "finance_manager" ELSE "employee"]

\* Requests are created small, too large for what is left, above the limit and above the
\* hard limit; the newest request is amended, reviewed and spent against as it was read.
MCInputs(s) ==
  LET r == Max(DOMAIN s.requests)
      revision == Len(s.requests[r])
      create == [op |-> "requests.create", amount |-> 2, scopes |-> Wide, entitiesKnown |-> TRUE]
      amend == [op |-> "requests.amend", request |-> r, amount |-> Current(s, r).amount + 1]
      review == [op |-> "reviews.decide", request |-> r, revision |-> revision, outcome |-> "approved"]
      post == [op |-> "postings.record", posting |-> 1, amount |-> 1, request |-> r, at |-> s.clock, scopes |-> Wide]
      correct == [op |-> "postings.correct", correction |-> 1, posting |-> 0, amount |-> -1, at |-> s.clock]
      forecast == [op |-> "forecasts.run", scope |-> "department", cutoff |-> s.clock, horizon |-> s.clock + 1,
                   assumptions |-> <<>>]
      fresh == s.requests = Seed(0, 0).requests /\ s.postings = Seed(0, 0).postings
  IN  {Input(create, {}),
       Input(amend, Expect("request", r, revision)), Input([amend EXCEPT !.amount = 4], Expect("request", r, 1)),
       Input(review, {}), Input([review EXCEPT !.outcome = "denied"], {}),
       Input(post, IF r \in DOMAIN s.commitments THEN Expect("commitment", r, s.commitments[r].revision) ELSE {}),
       Input(correct, Expect("posting", 0, 1)), Input(forecast, {})}
      \cup IF ~fresh THEN {} ELSE
      {Input([create EXCEPT !.amount = 4], {}), Input([create EXCEPT !.amount = 5], {}),
       Input([create EXCEPT !.amount = 1, !.scopes = Narrow], {}), Input([create EXCEPT !.scopes = {"foreign"}], {}),
       [Input(create, {}) EXCEPT !.fault = "DEPENDENCY_UNAVAILABLE"], [Input(create, {}) EXCEPT !.principal = "unknown"],
       Input([amend EXCEPT !.request = 9], Expect("request", 9, 1)), Input(amend, {}),
       Input([review EXCEPT !.request = 9], {}), [Input(review, {}) EXCEPT !.principal = "employee"],
       Input([post EXCEPT !.request = NoRequest], {}), Input([post EXCEPT !.amount = 9], Expect("commitment", 0, 1)),
       Input([correct EXCEPT !.posting = 5], Expect("posting", 5, 1)),
       Input([op |-> "imports.ingest", key |-> "k", simulated |-> TRUE], {}),
       Input([op |-> "imports.ingest", key |-> "k", simulated |-> FALSE], {}),
       Input([forecast EXCEPT !.scope = "foreign"], {}),
       Input([forecast EXCEPT !.cutoff = 0, !.assumptions = <<[kind |-> "percentage_change", value |-> 5000],
                                                              [kind |-> "fixed_adjustment", value |-> -9]>>], {})}

-----------------------------------------------------------------------------
Submission(partition, priority, object, revision, delay, deadline) ==
  [partition |-> partition, priority |-> priority, essential |-> TRUE, principal |-> "ana",
   inputs |-> object :> revision, delay |-> delay, deadline |-> deadline]

\* On different inputs and terms: the first may wait, join, run or be retried when each
\* of the others arrives.
MCSubmissions ==
  {Submission("forecast", "P1", "posting", 1, 1, MaxTime + 1),
   Submission("forecast", "P0", "posting", 2, 0, MaxTime + 1),
   Submission("forecast", "P2", "request", 1, 0, MaxTime)}

Symmetry == Permutations(Workers)

VARIABLE double       \* the one a behaviour is about

MCInit == MockInit /\ RefInit /\ double \in {"mock", "reference"}

MCNext == /\ \/ double = "mock" /\ MockNext /\ UNCHANGED rvars
             \/ double = "reference" /\ RefNext /\ UNCHANGED svars
          /\ UNCHANGED double

Spec == MCInit /\ [][MCNext]_<<svars, rvars, double>>
=============================================================================
