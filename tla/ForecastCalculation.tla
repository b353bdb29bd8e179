------------------------- MODULE ForecastCalculation -------------------------
(***************************************************************************)
(* The projection of packages/forecast as an operator over records: what   *)
(* was spent in the period, what is committed or recurs up to the horizon, *)
(* an extrapolated baseline, and scenario assumptions.  Dates are days,    *)
(* months have MonthDays days; references are record identifiers.          *)
(***************************************************************************)
EXTENDS Integers, FiniteSets, Functions

CONSTANTS MonthDays,      \* days in a month
          Organization,   \* the scope that every record belongs to
          NoObligation    \* a record without an obligation

ASSUME MonthDaysAssumption == MonthDays \in Nat \ {0}

Month(day) == day \div MonthDays

ScopeMatches(scopes, scope) == scope = Organization \/ scope \in scopes

SignedAmount(posting) ==
  IF posting.refunded THEN -posting.amount ELSE posting.amount

\* JavaScript's Math.round on a quotient: half away from zero upwards.
Rounded(n, d) == (2 * n + d) \div (2 * d)

Step(cadence) == [weekly |-> 7, monthly |-> MonthDays,
                  quarterly |-> 3 * MonthDays, annual |-> 12 * MonthDays][cadence]

Occurrences(s, cutoff, horizon) ==
  {d \in cutoff .. horizon :
     /\ s.active
     /\ IF s.cadence = "once"
        THEN d = s.due
        ELSE d >= s.due /\ (d - s.due) % Step(s.cadence) = 0 /\ d <= s.ends}

(***************************************************************************)
(* The records a forecast of input i selects.                              *)
(***************************************************************************)
Selected(i) == {p \in i.postings : ScopeMatches(p.scopes, i.scope)}

Actual(i) == {p \in Selected(i) : p.at \in i.start .. i.cutoff}

Open(i) ==
  {c \in i.commitments : /\ ScopeMatches(c.scopes, i.scope)
                         /\ c.state \in {"outstanding", "partially_posted"}
                         /\ c.outstanding > 0}

Outstanding(i) == {c \in Open(i) : c.at \in i.cutoff .. i.horizon}

CommittedPeriodsExact(i) ==
  {<<c.obligation, c.at>> : c \in {o \in Outstanding(i) : o.obligation # NoObligation}}

CommittedPeriods(i) ==
  {<<c.obligation, Month(c.at)>> :
     c \in {o \in Outstanding(i) : o.obligation # NoObligation}}

\* Pairs of a schedule and a due day that no commitment of that month covers.
Recurring(i) ==
  UNION {{<<s, d>> : d \in {o \in Occurrences(s, i.cutoff, i.horizon) :
                              <<s.obligation, Month(o)>> \notin CommittedPeriods(i)}} :
           s \in {x \in i.schedules : ScopeMatches(x.scopes, i.scope)}}

Historical(i) ==
  {p \in Actual(i) : \A s \in i.schedules : s.obligation # p.obligation}

Baseline(i) ==
  Rounded(SumFunction([p \in Historical(i) |-> SignedAmount(p)]) * (i.horizon - i.cutoff),
          i.cutoff - i.start + 1)

Relevant(i) ==
  {a \in i.assumptions : /\ ScopeMatches({a.scope}, i.scope)
                         /\ a.from <= i.horizon /\ a.to >= i.cutoff}

Targets(a, i) == {c \in Open(i) : c.id = a.target}

Adjustment(a, i) ==
  CASE a.kind = "fixed_adjustment"  -> a.value
    [] a.kind = "percentage_change" -> Rounded(Baseline(i) * a.value, 10000)
    [] a.kind = "timing_shift"      ->
         LET c == CHOOSE x \in Targets(a, i) : TRUE
             Within(d) == IF d \in i.cutoff .. i.horizon THEN c.outstanding ELSE 0
         IN  Within(c.at + a.value) - Within(c.at)

ActualAmount(i) == SumFunction([p \in Actual(i) |-> SignedAmount(p)])
OutstandingAmount(i) == SumFunction([c \in Outstanding(i) |-> c.outstanding])
RecurringAmount(i) == SumFunction([sd \in Recurring(i) |-> sd[1].amount])

\* The amounts a snapshot of input i records by kind, and its total.
Components(i) ==
  [actual_spend           |-> ActualAmount(i),
   outstanding_commitment |-> OutstandingAmount(i),
   uncommitted_baseline   |-> Baseline(i) + RecurringAmount(i),
   scenario_adjustment    |-> SumFunction([a \in Relevant(i) |-> Adjustment(a, i)])]

ForecastTotal(i) == SumFunction(Components(i))

\* The calculation throws on an impossible period, on refunds that exceed the
\* recognized spend, on a shift of an unknown commitment and on a negative total.
Calculable(i) ==
  /\ i.start <= i.cutoff /\ i.cutoff <= i.horizon
  /\ ActualAmount(i) >= 0 /\ Baseline(i) >= 0
  /\ \A a \in Relevant(i) : a.kind = "timing_shift" => Targets(a, i) # {}
  /\ ForecastTotal(i) >= 0

Sensitivity(i) ==
  LET total == ForecastTotal(i)
      swing == Rounded(Baseline(i), 10)
  IN  [low |-> IF total > swing THEN total - swing ELSE 0,
       base |-> total, high |-> total + swing]

CalculateForecast(i) ==
  [kind |-> IF i.assumptions = {} THEN "baseline" ELSE "scenario",
   components |-> Components(i), total |-> ForecastTotal(i),
   sensitivity |-> Sensitivity(i), watermarks |-> i.watermarks, cutoff |-> i.cutoff,
   inputs |-> Selected(i) \union Outstanding(i) \union i.schedules]
=============================================================================
