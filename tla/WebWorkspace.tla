---------------------------- MODULE WebWorkspace ----------------------------
(***************************************************************************)
(* The review page of apps/web over the mock API. Every change of what is   *)
(* selected starts a load, a chain of requests that resets the company,     *)
(* amends its request twice and reads it; a load that is no longer wanted   *)
(* is ignored when it ends, but its requests go on. An approval is one more *)
(* request, after which the page loads again. Of the data shown only the    *)
(* request under review is kept.                                            *)
(***************************************************************************)
EXTENDS MockCompany

CONSTANTS Companies, FirstCompany, FirstAmount, SecondAmount,
          MaxLoads, MaxMishaps      \* bounds on loads, and on timeouts and other tabs' calls together

ASSUME WorkspaceAssumption == FirstCompany \in Companies /\ {FirstAmount, SecondAmount} \subseteq Nat

VARIABLES server,      \* the state of each company in the mock store
          page,        \* React state: selection, data, error, loading, dialog, approving
          loads,       \* the load each run of the effect has started
          strays,      \* requests whose caller gave up on them
          trouble

wvars == <<server, page, loads, strays, trouble>>

NoData == [load |-> 0]
NotApproving == [revision |-> 0]
Over == [step |-> "over"]

(* The commands of data.ts: their ids are fixed, so that the same command   *)
(* sent again is recognised.                                                *)
Command(company, id, principal, p, expected) ==
    [company |-> company, id |-> id, principal |-> principal, fault |-> "none", p |-> p,
     expected |-> {[type |-> "request", id |-> SeedRequest, revision |-> r] : r \in expected}]

Amend(company, nth) ==
    Command(company, <<"amend", nth>>, "employee",
            [op |-> "requests.amend", request |-> SeedRequest,
             amount |-> IF nth = 1 THEN FirstAmount ELSE SecondAmount], {nth})

Decision(revision) ==
    [op |-> "reviews.decide", request |-> SeedRequest, revision |-> revision, outcome |-> "approved"]

(* A plausible slip: an id of its own for every attempt. *)
ApproveUnderNewId(company, revision) ==
    Command(company, <<"decide", revision + 10 * trouble>>, "finance_manager", Decision(revision), {})

ApproveReview(company, revision) ==
    Command(company, <<"decide", revision>>, "finance_manager", Decision(revision), {})

Shown(s) == LET r == Current(s, SeedRequest)
            IN  [revision |-> Len(s.requests[SeedRequest]), state |-> r.state, amount |-> r.amount]

(* The effect on the selection: a load starts, and the page shows that. *)
FirstStep(demo) == CASE demo = "review" -> "reset_first" [] demo = "baseline" -> "reset" [] OTHER -> "read"
StartLoad(p) ==
    /\ Len(loads) < MaxLoads
    /\ loads' = Append(loads, [company |-> p.company, step |-> FirstStep(p.demo), read |-> NoData,
                               fault |-> IF p.demo = "unavailable" THEN "DEPENDENCY_UNAVAILABLE" ELSE "none"])
    /\ page' = [p EXCEPT !.loading = TRUE, !.error = "none", !.dirty = FALSE]

FirstPage == [company |-> FirstCompany, demo |-> "review", stream |-> TRUE, data |-> NoData, error |-> "none",
              loading |-> TRUE, dialog |-> FALSE, approving |-> NotApproving, dirty |-> FALSE]

WebInit ==
    /\ server = [c \in Companies |-> Seed(0, 1)]
    /\ page = FirstPage
    /\ loads = <<[company |-> FirstCompany, step |-> "reset_first", read |-> NoData, fault |-> "none"]>>
    /\ strays = {} /\ trouble = 0

(* A user's change of the selection; behind an open dialog the page is      *)
(* inert. React runs the effect of such an event at once.                   *)
Select ==
    /\ ~page.dialog /\ ~page.dirty
    /\ \/ \E c \in Companies \ {page.company} : StartLoad([page EXCEPT !.company = c])
       \/ \E d \in {"review", "baseline", "unavailable"} \ {page.demo} : StartLoad([page EXCEPT !.demo = d])
       \/ StartLoad([page EXCEPT !.stream = ~@])
       \/ page.error # "none" /\ ~page.loading /\ StartLoad(page)       \* Try again
    /\ UNCHANGED <<server, strays, trouble>>

(* The effect of a change made when an approval came back. *)
RunEffect == /\ page.dirty
             /\ StartLoad(page)
             /\ UNCHANGED <<server, strays, trouble>>

Succeeded(load) == [data |-> load.read, error |-> "none"]
Failed(code) == [data |-> page.data, error |-> code]

(* A plausible slip: a load is heeded whenever it ends. *)
HeedAlways(n, result) ==
    [page EXCEPT !.data = IF result.error = "none" THEN result.data ELSE @,
                 !.error = IF result.error = "none" THEN @ ELSE result.error,
                 !.loading = FALSE]

(* A load that ends is heeded while no other has been started. *)
Heed(n, result) ==
    IF n # Len(loads) THEN page
    ELSE [page EXCEPT !.data = IF result.error = "none" THEN result.data ELSE @,
                      !.error = IF result.error = "none" THEN @ ELSE result.error,
                      !.loading = FALSE]

EndLoad(n, result) == /\ loads' = [loads EXCEPT ![n] = Over]
                      /\ page' = Heed(n, result)

NextStep(step) == CASE step = "reset_first" -> "amend_first" [] step = "amend_first" -> "amend_second" [] OTHER -> "read"

(* The server answers the request a load is waiting for: the reset, or one  *)
(* of the two amendments.                                                   *)
Prepare(n) ==
    LET load == loads[n]
        resets == load.step \in {"reset_first", "reset"}
        reply == IF resets THEN Reply("ok", Reset(server[load.company]))
                 ELSE Dispatch(server[load.company], Amend(load.company, IF load.step = "amend_first" THEN 1 ELSE 2))
    IN  /\ load.step \notin {"read", "over"}
        /\ server' = [server EXCEPT ![load.company] = reply.state]
        /\ IF reply.code = "ok"
           THEN loads' = [loads EXCEPT ![n].step = NextStep(@)] /\ UNCHANGED page
           ELSE EndLoad(n, Failed(reply.code))
        /\ UNCHANGED <<strays, trouble>>

(* Of the four reads that are out together, the one of the request. *)
Read(n) ==
    LET load == loads[n]
    IN  /\ load.step = "read" /\ load.read = NoData
        /\ IF load.fault # "none" THEN EndLoad(n, Failed(load.fault))
           ELSE /\ loads' = [loads EXCEPT ![n].read = [load |-> n, company |-> load.company,
                                                      request |-> Shown(server[load.company])]]
                /\ UNCHANGED page
        /\ UNCHANGED <<server, strays, trouble>>

(* The last of the four has been answered. *)
Loaded(n) == /\ loads[n].step = "read" /\ loads[n].read # NoData
             /\ EndLoad(n, Succeeded(loads[n]))
             /\ UNCHANGED <<server, strays, trouble>>

(* The ten seconds of a contract call are over; a reset has no such limit. *)
LoadTimesOut(n) ==
    LET load == loads[n]
    IN  /\ trouble < MaxMishaps /\ load.step \in {"amend_first", "amend_second", "read"}
        /\ strays' = strays \cup IF load.step = "read" THEN {}
                                 ELSE {Amend(load.company, IF load.step = "amend_first" THEN 1 ELSE 2)}
        /\ EndLoad(n, Failed("DEPENDENCY_UNAVAILABLE"))
        /\ trouble' = trouble + 1
        /\ UNCHANGED server

(* The overview of a request that needs review opens the dialog. *)
OpenDialog ==
    /\ ~page.loading /\ page.error = "none" /\ page.data # NoData /\ ~page.dirty
    /\ page.data.request.state = "review_required" /\ page.approving = NotApproving /\ ~page.dialog
    /\ page' = [page EXCEPT !.dialog = TRUE]
    /\ UNCHANGED <<server, loads, strays, trouble>>

CloseDialog == /\ page.dialog
               /\ page' = [page EXCEPT !.dialog = FALSE]
               /\ UNCHANGED <<server, loads, strays, trouble>>

(* The dialog stays open until the approval succeeds or the user closes it, *)
(* so that a failed one may be confirmed again.                             *)
Confirm ==
    /\ page.dialog /\ page.approving = NotApproving
    /\ page' = [page EXCEPT !.approving = [company |-> page.company, revision |-> page.data.request.revision]]
    /\ UNCHANGED <<server, loads, strays, trouble>>

(* The answer to an approval reaches the page as it is by then: a success   *)
(* turns it to the baseline and loads it again.                             *)
Approve ==
    LET a == page.approving
        reply == Dispatch(server[a.company], ApproveReview(a.company, a.revision))
    IN  /\ a # NotApproving
        /\ server' = [server EXCEPT ![a.company] = reply.state]
        /\ page' = IF reply.code = "ok"
                   THEN [page EXCEPT !.dialog = FALSE, !.demo = "baseline", !.dirty = TRUE, !.approving = NotApproving]
                   ELSE [page EXCEPT !.error = reply.code, !.approving = NotApproving]
        /\ UNCHANGED <<loads, strays, trouble>>

ApprovalTimesOut ==
    LET a == page.approving
    IN  /\ a # NotApproving /\ trouble < MaxMishaps
        /\ page' = [page EXCEPT !.error = "DEPENDENCY_UNAVAILABLE", !.approving = NotApproving]
        /\ strays' = strays \cup {ApproveReview(a.company, a.revision)}
        /\ trouble' = trouble + 1
        /\ UNCHANGED <<server, loads>>

(* The server answers a request whose caller has given up. *)
ServeStray(m) ==
    /\ m \in strays
    /\ strays' = strays \ {m}
    /\ server' = [server EXCEPT ![m.company] = Dispatch(@, m).state]
    /\ UNCHANGED <<page, loads, trouble>>

(* Another tab of the page loads the same company, or approves its review. *)
OtherTab(company) ==
    /\ trouble < MaxMishaps
    /\ \/ server' = [server EXCEPT ![company] = Reset(@)]
       \/ \E m \in {Amend(company, 1), Amend(company, 2), ApproveReview(company, 3)} :
             server' = [server EXCEPT ![company] = Dispatch(@, m).state]
    /\ trouble' = trouble + 1
    /\ UNCHANGED <<page, loads, strays>>

WebNext ==
    \/ Select \/ RunEffect \/ OpenDialog \/ CloseDialog \/ Confirm \/ Approve \/ ApprovalTimesOut
    \/ \E n \in DOMAIN loads : Prepare(n) \/ Read(n) \/ Loaded(n) \/ LoadTimesOut(n)
    \/ \E m \in strays : ServeStray(m)
    \/ \E c \in Companies : OtherTab(c)

WebSpec == WebInit /\ [][WebNext]_wvars

-----------------------------------------------------------------------------
(* A page that shows neither a loading sheet nor an error shows the company *)
(* that is selected, as the latest load found it: however loads overlap and *)
(* end out of order, none that was given up is heeded (App.tsx:616-629).    *)
PageShowsSelection ==
    ~page.loading /\ page.error = "none"
    => page.data # NoData /\ page.data.company = page.company /\ page.data.load = Len(loads)

(* A page that is told its approval was refused can rely on it: the server  *)
(* does not hold the decision, although an earlier attempt that timed out,  *)
(* or another tab, may have made it (data.ts:264-275).                      *)
RefusedApprovalsAreNotRecorded ==
    [][LET a == page.approving
       IN  a # NotApproving /\ page'.approving = NotApproving /\ ~page'.dirty /\ page'.error # "DEPENDENCY_UNAVAILABLE"
           => \A i \in DOMAIN server'[a.company].decisions :
                 LET d == server'[a.company].decisions[i] IN ~(d.human /\ d.revision = a.revision)]_wvars
=============================================================================
