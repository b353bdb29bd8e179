------------------------------- MODULE MCService -------------------------------
(***************************************************************************)
(* What serves an organization, as the runtime composes it: the imports,   *)
(* the forecasts and the two queries of imported context; the commands of  *)
(* finance, with the cases of its rules; and the processes, as they come   *)
(* and go.  No document is written by two of these parts, and the queries  *)
(* seed and import what they read themselves, so a behaviour explores one  *)
(* of them.                                                                *)
(***************************************************************************)
EXTENDS FinanceCommands, RuleCases, ServiceLifecycle,
        SourceImports, ForecastSnapshots, GraphContext, MemoryPages

(***************************************************************************)
(* The commands: two requests of one purpose under an allowance of four,   *)
(* in a race with the publication of a tighter revision and of a policy of *)
(* the project.                                                            *)
(***************************************************************************)
Org == <<"organization", "org">>
Project == <<"project", "alpha">>

Permit == [effect |-> "permit", categories |-> {"software"}, roles |-> {"employee"},
           vendors |-> None, activePurpose |-> TRUE, evidence |-> {}, maxAge |-> None,
           maxFull |-> 9, maxCumulative |-> 4, dimension |-> "purpose",
           approverRole |-> None, noSelfApproval |-> FALSE]

PolicyOf(id, revision, scope, limit) ==
  [id |-> id, revision |-> revision, epoch |-> revision, organization |-> "org", from |-> 0,
   to |-> None, scope |-> scope, rules |-> {[Permit EXCEPT !.maxCumulative = limit]}]

Draft(r, project) ==
  [id |-> r, organization |-> "org", revision |-> 1, previous |-> None, requester |-> "eve",
   purpose |-> "tools", project |-> project, vendor |-> "v", category |-> "software",
   scopes |-> {Org} \union (IF project = None THEN {} ELSE {Project}),
   amount |-> 2, increase |-> 0, cumulative |-> 0, evaluation |-> "submitted"]

Create(id, r, project) ==
  [id |-> id, kind |-> "create", principal |-> "eve", request |-> r,
   draft |-> Draft(r, project), expected |-> {}]
Amend(id, r, amount, revision) ==
  [id |-> id, kind |-> "amend", principal |-> "eve", request |-> r, amount |-> amount,
   expected |-> {[ref |-> <<"request", r>>, revision |-> revision]}]
Review(id, r, kind) ==
  [id |-> id, kind |-> kind, principal |-> "max", request |-> r, revision |-> 2,
   expected |-> {[ref |-> <<"policy", 1>>, revision |-> 1]}]

MCCommands ==
  {Create("c1", "r1", "alpha"), Amend("a1", "r1", 5, 1),
   Amend("a2", "r2", 5, 1), Amend("a2", "r2", 3, 1), Review("d1", "r2", "approve"),
   Review("d2", "r2", "refuse")}

MCFirstDatabase ==
  [policies |-> {PolicyOf(1, 1, Org, 4)},
   requests |-> [r1 |-> None, r2 |-> [Draft("r2", None) EXCEPT !.evaluation = "approved"]],
   decisions |-> {[command |-> "c2", request |-> [Draft("r2", None) EXCEPT !.evaluation = "approved"],
                   verdict |-> [outcome |-> "approved", reasons |-> {"allowance"},
                                policy |-> <<1, 1>>, epoch |-> 1, role |-> None]]},
   guards |-> (1 :> [revision |-> 1, epoch |-> 1, counter |-> 0]) @@ (2 :> None),
   authorities |-> [eve |-> [roles |-> {"employee"}, scopes |-> {Org}, revoked |-> FALSE],
                    max |-> [roles |-> {"finance_manager"}, scopes |-> {Org}, revoked |-> FALSE]]]

MCPublications == {PolicyOf(1, 2, Org, 2), PolicyOf(2, 1, Project, 4)}
MCPurposes == {[name |-> "tools", active |-> TRUE]}
Account(hard, authorized) ==
  [organization |-> "org", scope |-> Org, hard |-> hard, authorized |-> authorized, recognized |-> 0,
   outstanding |-> 0, available |-> authorized, start |-> 0, end |-> 9]
MCAccounts == {Account(TRUE, 20)}

(***************************************************************************)
(* The cases of the rules.                                                 *)
(***************************************************************************)
MCCaseRules ==
  {[Permit EXCEPT !.effect = effect, !.evidence = evidence, !.maxAge = 3, !.maxFull = 4,
                  !.approverRole = role] :
     effect \in {"permit", "require_review", "deny"}, evidence \in {{}, {"quote"}},
     role \in {None, "finance_manager"}}

CaseRequest(amount) == [Draft("r1", "alpha") EXCEPT !.previous = 1, !.revision = 2,
                          !.amount = amount, !.increase = 2, !.cumulative = 2]

CaseGrant(amount) ==
  [grant |-> BuildGrant([principal |-> "max"], CaseRequest(amount), PolicyOf(1, 1, Org, 4)),
   approver |-> [approver |-> "max", organization |-> "org"] @@ MCFirstDatabase.authorities["max"]]

MCCases ==
  {[request |-> CaseRequest(amount), roles |-> {"employee"}, now |-> 5, purpose |-> purpose,
    policy |-> [PolicyOf(1, 1, Org, 4) EXCEPT !.rules = rules],
    evidence |-> evidence, grant |-> grant,
    totals |-> {[dimension |-> "purpose", id |-> "tools", increase |-> total]},
    budgets |-> {[delta |-> 2] @@ Account(hard, 2)}] :
     amount \in {3, 5}, rules \in {x \in SUBSET MCCaseRules : Cardinality(x) \in 1 .. 2},
     purpose \in {None, [name |-> "tools", active |-> TRUE]},
     evidence \in {{}, {[kind |-> "quote", organization |-> "org", observed |-> 3, scopes |-> {Org}]}},
     grant \in {None, CaseGrant(3)}, total \in {4}, hard \in {FALSE}}

(***************************************************************************)
(* The imports and what is read of them.                                   *)
(***************************************************************************)
\* An expense of one invoice in two revisions, the first of which is delivered twice
\* and the last of which has a changed copy; an object whose revisions have no order,
\* one that is only mapped, and one whose scope is not imported yet.
Expense(id, object, revision, numeric, posting, scope) ==
  [id |-> id, instance |-> "erp", object |-> object, revision |-> revision,
   numeric |-> numeric, observed |-> id, event |-> "fixture.expense",
   posting |-> [id |-> posting, revision |-> revision, scopes |-> {scope}]]

MCDeliveries ==
  {Expense(1, "invoice", 1, TRUE, "p1", "project"),
   Expense(2, "invoice", 1, TRUE, "p1", "project"),
   Expense(3, "invoice", 2, TRUE, "p1", "project"),
   Expense(4, "receipt", 1, FALSE, "p2", "project"),
   Expense(5, "receipt", 2, FALSE, "p2", "project"),
   [Expense(3, "invoice", 2, TRUE, "p1", "project") EXCEPT !.observed = 9],
   [Expense(6, "repository", 1, TRUE, "p1", "unknown") EXCEPT !.posting = NoPosting],
   Expense(7, "invoice", 3, TRUE, "p1", "unknown")}

\* A recurring licence and a commitment to its payment of the second month.
Licence == [id |-> "licence", obligation |-> "licence", scopes |-> {"project"}, amount |-> 10,
            active |-> TRUE, cadence |-> "monthly", due |-> 3, ends |-> 20]
Support == [Licence EXCEPT !.id = "support", !.obligation = "support", !.cadence = "once",
            !.due = 5, !.amount = 3]
LicenceOrder == [id |-> "order", obligation |-> "licence", scopes |-> {"project"},
                 outstanding |-> 10, state |-> "outstanding", at |-> 6]
Paid(id, amount, refunded) == [id |-> id, obligation |-> NoObligation, scopes |-> {"project"},
                               amount |-> amount, refunded |-> refunded, at |-> 1]

MCAssumptions ==
  {[kind |-> "percentage_change", scope |-> "project", from |-> 0, to |-> 9, value |-> 5000, target |-> "none"],
   [kind |-> "timing_shift", scope |-> "project", from |-> 3, to |-> 9, value |-> 4, target |-> "order"],
   [kind |-> "fixed_adjustment", scope |-> "project", from |-> 8, to |-> 9, value |-> 7, target |-> "none"]}

Recorded(postings, commitments, assumptions) ==
  [scope |-> "project", start |-> 0, cutoff |-> 2, horizon |-> 8, watermarks |-> 1,
   postings |-> postings, commitments |-> commitments, schedules |-> {Licence, Support},
   assumptions |-> assumptions]

MCForecastInputs ==
  {Recorded({Paid("a", 6, FALSE)} \union refund, commitments, assumptions) :
     refund \in {{}, {Paid("b", 7, TRUE)}}, commitments \in {{}, {LicenceOrder}},
     assumptions \in {{}, MCAssumptions}}

MCKnownScopes == {"project"}
MCMappedObjects == {"repository"}
MCScopes == {"organization", "project"}

\* A subject with a neighbour, a way on to a third, a cycle between the three, and an
\* entity behind a relationship that ends, has another type or may not be seen by all.
All == {"insider", "outsider"}
Edge(id, from, to) == [id |-> id, revision |-> 1, from |-> from, to |-> to, type |-> "owned_by",
                       start |-> 1, end |-> 0, access |-> All]
MCRelationships ==
  {[Edge(4, "c", "d") EXCEPT !.end = 2, !.type = "uses_vendor"],
   [Edge(1, "a", "b") EXCEPT !.revision = 2, !.access = {"insider"}]}
MCFirstEdges == {<<>>} \union SetToSeqs({Edge(1, "a", "b"), Edge(2, "c", "b"), Edge(3, "a", "c")})
MCFirstEntities == [e \in {"a", "b", "c"} |-> All]
MCLaterEntities == {<<"d", All>>, <<"b", {"insider"}>>}
Question(principal, hops, max, asOf) ==
  [subject |-> "a", principal |-> principal, types |-> {}, hops |-> hops, max |-> max, asOf |-> asOf]
MCAsks == {Question("outsider", 2, 4, 1), Question("insider", 2, 2, 2), Question("insider", 0, 1, 1),
           [Question("insider", 2, 3, 1) EXCEPT !.types = {"owned_by"}]}

\* Four postings of two instants, one of them of a scope that may be restricted; later
\* ones at the same instants, between and after them, and a revision that moves.
Posted(id, at, scope) == [id |-> id, at |-> at, scopes |-> {"project", scope}, found |-> TRUE]
MCFirstPostings == {Posted(2, 3, "open"), Posted(4, 3, "closed"), Posted(6, 3, "open"), Posted(5, 1, "open"),
                    [Posted(3, 1, "open") EXCEPT !.found = FALSE]}
MCLaterPostings == {Posted(1, 3, "open"), Posted(7, 2, "closed"), Posted(6, 1, "open"), Posted(8, 9, "open")}

\* One collection of each manner, in the order of connectMongoRuntime.
MCProvisioning == <<"organizations", "imports", "scheduler_jobs">>
MCManner == [organizations |-> "revalidated", imports |-> "indexed", scheduler_jobs |-> "created"]

Symmetry == Permutations(Callers)

VARIABLE part             \* what a behaviour is about

importing == <<ivars, fvars, gvars, pvars>>
serving   == <<vars, lvars>>
mcvars    == <<importing, serving, part, case>>

MCInit == /\ Init /\ LifecycleInit /\ ImportInit /\ ForecastInit /\ GraphInit /\ PagesInit
          /\ part \in {"imports", "forecasts", "graph", "memory", "commands", "cases", "startup"}
          /\ edges # <<>> => part = "graph"
          /\ restricted # {} => part = "memory"
          /\ CaseInit /\ (part = "cases" <=> case # None)
          /\ part = "startup" \/ (deployment.transactional /\ \A c \in Shared : collections[c] = Absent)

\* No process runs, and none is started any more.
AllDown == starts = MaxStarts /\ \A p \in Processes : process[p].at = "down"

MCNext ==
  /\ \/ part = "imports" /\ ImportNext /\ UNCHANGED <<fvars, gvars, pvars, serving>>
     \/ part = "forecasts" /\ ForecastNext /\ UNCHANGED <<ivars, gvars, pvars, serving>>
     \/ part = "graph" /\ GraphNext /\ UNCHANGED <<ivars, fvars, pvars, serving>>
     \/ part = "graph" /\ NobodyAsks /\ UNCHANGED <<importing, serving>>
     \/ part = "memory" /\ PagesNext /\ UNCHANGED <<ivars, fvars, gvars, serving>>
     \/ part = "commands" /\ Next /\ UNCHANGED <<lvars, importing>>
     \/ part = "cases" /\ UNCHANGED <<serving, importing>>
     \/ part = "startup" /\ LifecycleNext /\ UNCHANGED <<vars, importing>>
     \/ part = "startup" /\ AllDown /\ UNCHANGED <<serving, importing>>
  /\ UNCHANGED <<part, case>>

Spec == MCInit /\ [][MCNext]_mcvars
=============================================================================
