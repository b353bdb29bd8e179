-------------------------- MODULE ForecastSnapshots --------------------------
(***************************************************************************)
(* The forecast repository: immutable snapshots, a pointer to the latest   *)
(* one, and callers whose refreshes are snapshot transactions.  A refresh  *)
(* reads at Start and commits, or restarts when a document it writes was   *)
(* written meanwhile.  A read without a revision takes two steps.          *)
(***************************************************************************)
EXTENDS ForecastCalculation

CONSTANTS Refreshers,     \* concurrent callers of refresh
          Readers,        \* concurrent callers of get
          ForecastInputs  \* the inputs submitted: calculation inputs of one forecast

\* What the input schema checks before a refresh begins.
ASSUME ForecastInputsAssumption ==
  \A i \in ForecastInputs :
    /\ DOMAIN i = {"scope", "start", "cutoff", "horizon", "watermarks", "postings", "commitments",
                   "schedules", "assumptions"}
    /\ i.start \in Int /\ i.cutoff \in Int /\ i.horizon \in Int
    /\ \A kind \in {"postings", "commitments", "schedules", "assumptions"} : IsFiniteSet(i[kind])
    /\ \A p \in i.postings : p.amount \in Nat /\ p.refunded \in BOOLEAN
    /\ \A c \in i.commitments : c.outstanding \in Nat /\ c.at \in Int
    /\ \A s \in i.schedules : s.amount \in Nat /\ s.obligation # NoObligation
    /\ \A a \in i.assumptions :
         a.kind \in {"fixed_adjustment", "percentage_change", "timing_shift"} /\ a.value \in Int

VARIABLES snapshots,      \* stored snapshots of the forecast, never rewritten
          pointer,        \* revision of forecast_current, 0 when there is none
          refreshing,     \* per caller: idle or the input and what its snapshot read
          reading         \* per reader: idle, the pointer it read, or its answer

fvars == <<snapshots, pointer, refreshing, reading>>

IdleRefresh == [at |-> "idle"]
IdleRead == [at |-> "idle"]

ForecastInit ==
  /\ snapshots = {}
  /\ pointer = 0
  /\ refreshing = [r \in Refreshers |-> IdleRefresh]
  /\ reading = [r \in Readers |-> IdleRead]

\* The input schema is parsed and hashed before the transaction starts; the hash
\* ignores the order of records, here sets, and completedAt, which no input has.
StartRefresh(r) ==
  /\ refreshing[r].at = "idle"
  /\ \E i \in ForecastInputs :
       refreshing' = [refreshing EXCEPT ![r] =
         [at |-> "open", input |-> i, stored |-> snapshots, current |-> pointer]]
  /\ UNCHANGED <<snapshots, pointer, reading>>

Duplicates(t) == {s \in t.stored : s.input = t.input}

NextSnapshot(t) ==
  [input |-> t.input, revision |-> t.current + 1, corrects |-> t.current,
   forecast |-> CalculateForecast(t.input)]

PointerConflictNever(t) == \E s \in snapshots : s.input = t.input

\* The pointer document, or the insertion of the revision, was written since.
PointerConflict(t) == pointer # t.current

CommitRefresh(r) ==
  LET t == refreshing[r] IN
  /\ t.at = "open"
  /\ \/ Duplicates(t) # {} /\ UNCHANGED <<snapshots, pointer>>
     \/ /\ Duplicates(t) = {} /\ ~Calculable(t.input)
        /\ UNCHANGED <<snapshots, pointer>>
     \/ /\ Duplicates(t) = {} /\ Calculable(t.input) /\ ~PointerConflict(t)
        /\ snapshots' = snapshots \union {NextSnapshot(t)}
        /\ pointer' = t.current + 1
  /\ refreshing' = [refreshing EXCEPT ![r] = IdleRefresh]
  /\ UNCHANGED reading

\* The driver runs the work again on a write conflict; a duplicate key goes to the caller.
RestartRefresh(r) ==
  LET t == refreshing[r] IN
  /\ t.at = "open" /\ Duplicates(t) = {} /\ Calculable(t.input) /\ PointerConflict(t)
  /\ \/ refreshing' = [refreshing EXCEPT ![r].stored = snapshots, ![r].current = pointer]
     \/ refreshing' = [refreshing EXCEPT ![r] = IdleRefresh]
  /\ UNCHANGED <<snapshots, pointer, reading>>

ReadPointer(r) ==
  /\ reading[r].at = "idle"
  /\ reading' = [reading EXCEPT ![r] = [at |-> "pointed", revision |-> pointer]]
  /\ UNCHANGED <<snapshots, pointer, refreshing>>

ReadSnapshot(r) ==
  /\ reading[r].at = "pointed"
  /\ reading' = [reading EXCEPT ![r] =
       [at |-> "answered", revision |-> reading[r].revision,
        found |-> {s \in snapshots : s.revision = reading[r].revision}]]
  /\ UNCHANGED <<snapshots, pointer, refreshing>>

ForecastNext ==
  \/ \E r \in Refreshers : StartRefresh(r) \/ CommitRefresh(r) \/ RestartRefresh(r)
  \/ \E r \in Readers : ReadPointer(r) \/ ReadSnapshot(r)

ForecastSpec == ForecastInit /\ [][ForecastNext]_fvars

(***************************************************************************)
(* contributionDeltas: the change of every kind between two snapshots.     *)
(***************************************************************************)
ContributionDeltas(current, prior) ==
  [kind \in DOMAIN current.forecast.components \union DOMAIN prior.forecast.components |->
     current.forecast.components[kind] - prior.forecast.components[kind]]

(***************************************************************************)
(* Properties.                                                             *)
(***************************************************************************)

\* Whatever refreshes race, one snapshot exists per input, the revisions form the
\* chain 1, 2, ... in which each corrects the one before, the pointer names the
\* last, and a reader that was given a revision finds exactly its snapshot.
HistoryIsAChain ==
  /\ \A s, t \in snapshots : s.input = t.input \/ s.revision = t.revision => s = t
  /\ {s.revision : s \in snapshots} = 1 .. pointer
  /\ \A s \in snapshots : s.corrects = s.revision - 1
  /\ \A r \in Readers : reading[r].at = "answered" =>
       Cardinality(reading[r].found) = IF reading[r].revision = 0 THEN 0 ELSE 1

\* The only occurrence of schedule x in the month that commitment c, and no other of
\* its obligation, falls in.
IsThePayment(x, c, i) ==
  /\ x \in i.schedules /\ ScopeMatches(x.scopes, i.scope)
  /\ x.obligation = c.obligation /\ x.amount = c.outstanding
  /\ \A y \in i.schedules : y.obligation = c.obligation => y = x
  /\ \A o \in Outstanding(i) : o.obligation = c.obligation /\ Month(o.at) = Month(c.at) => o = c
  /\ Cardinality({d \in Occurrences(x, i.cutoff, i.horizon) : Month(d) = Month(c.at)}) = 1

\* A payment is projected once: committing to the only scheduled payment of an
\* obligation in a month, for its amount, replaces the expectation and leaves the
\* total as it was, unless a scenario moves that commitment; and the deltas between
\* two snapshots explain their difference.
PaymentsAreProjectedOnce ==
  \A s, t \in snapshots :
    /\ SumFunction(ContributionDeltas(s, t)) = s.forecast.total - t.forecast.total
    /\ \A c \in Outstanding(s.input), x \in s.input.schedules :
         /\ t.input = [s.input EXCEPT !.commitments = @ \ {c}]
         /\ IsThePayment(x, c, s.input)
         /\ \A a \in s.input.assumptions : a.kind = "timing_shift" => a.target # c.id
         => s.forecast.total = t.forecast.total
=============================================================================
