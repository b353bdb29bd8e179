---------------------------- MODULE MockService ----------------------------
(***************************************************************************)
(* The mock API as its callers meet it: contract clients that time out and *)
(* send again, the HTTP wire, the router with its idempotency memo and its *)
(* fault header, and the admin reset. The server takes one request at a    *)
(* time; a request whose caller gave up is still in the wire.              *)
(***************************************************************************)
EXTENDS MockCompany

CONSTANTS Clients,
          Inputs(_),                            \* the inputs a caller may send, given the state it has read
          MaxCalls, MaxTrouble                  \* bounds on calls, and on timeouts and resets together

ASSUME CallsAssumption == MaxCalls \in Nat /\ MaxTrouble \in Nat

VARIABLES company, wire,
          client,       \* what each caller is waiting for or was told
          calls, timeouts, resets   \* how many there were, for the bounds and the properties

svars == <<company, wire, client, calls, timeouts, resets>>

Idle == [phase |-> "idle"]
MockInit == /\ company = Seed(0, 1)
            /\ wire = {}
            /\ client = [c \in Clients |-> Idle]
            /\ calls = 0 /\ timeouts = 0 /\ resets = 0

CommandIds == 1..MaxCalls

(* A caller sends a command, by a principal (perhaps an unknown one) and    *)
(* with a fault header or none, under a new id or the first one again.      *)
Send(c, id, input) ==
    LET m == [id |-> id, client |-> c, attempt |-> 1, p |-> input.p, expected |-> input.expected,
              principal |-> input.principal, fault |-> input.fault]
    IN  /\ client[c].phase # "waiting" /\ calls < MaxCalls
        /\ wire' = wire \cup {m}
        /\ client' = [client EXCEPT ![c] = [phase |-> "waiting", m |-> m]]
        /\ calls' = calls + 1
        /\ UNCHANGED <<company, timeouts, resets>>

(* The server handles a request that has arrived. Its answer reaches the    *)
(* caller when that one is still waiting for this attempt.                  *)
Handle(m) ==
    LET reply == Dispatch(company, m)
        answered == client[m.client].phase = "waiting" /\ client[m.client].m = m
    IN  /\ m \in wire
        /\ wire' = wire \ {m}
        /\ company' = reply.state
        /\ client' = IF ~answered THEN client
                     ELSE [client EXCEPT ![m.client] =
                             CASE reply.code = "ok" -> [phase |-> "done", id |-> m.id, op |-> m.p.op, epoch |-> resets]
                               [] IsRetryable(reply.code) -> [phase |-> "unsure", m |-> m]
                               [] OTHER -> [phase |-> "failed"]]
        /\ UNCHANGED <<calls, timeouts, resets>>

(* The caller's ten seconds are over: DEPENDENCY_UNAVAILABLE, retryable,     *)
(* whether or not the server has acted or will.                             *)
Timeout(c) ==
    /\ client[c].phase = "waiting" /\ timeouts + resets < MaxTrouble
    /\ client' = [client EXCEPT ![c] = [phase |-> "unsure", m |-> @.m]]
    /\ timeouts' = timeouts + 1
    /\ UNCHANGED <<company, wire, calls, resets>>

(* After a retryable error the caller may send the same command again. *)
Resend(c) ==
    LET m == [client[c].m EXCEPT !.attempt = @ + 1, !.fault = "none"]
    IN  /\ client[c].phase = "unsure"
        /\ wire' = wire \cup {m}
        /\ client' = [client EXCEPT ![c] = [phase |-> "waiting", m |-> m]]
        /\ UNCHANGED <<company, calls, timeouts, resets>>

ResetCompany ==
    /\ timeouts + resets < MaxTrouble
    /\ company' = Reset(company)
    /\ resets' = resets + 1
    /\ UNCHANGED <<wire, client, calls, timeouts>>

MockNext ==
    \/ \E c \in Clients, id \in {1, calls + 1}, input \in Inputs(company) : Send(c, id, input)
    \/ \E m \in wire : Handle(m)
    \/ \E c \in Clients : Timeout(c) \/ Resend(c)
    \/ ResetCompany

MockSpec == MockInit /\ [][MockNext]_svars

-----------------------------------------------------------------------------
(* The budget account, which every handler updates in place, is what the    *)
(* records add up to: outstanding is the sum of the commitments' outstanding *)
(* parts, recognized the sum of postings and corrections, and available the *)
(* rest (handlers/context.ts, postings.ts), whatever was reset or retried.  *)
BudgetMatchesRecords ==
    LET b == company.budget
    IN  /\ b.outstanding = SumFunction([r \in DOMAIN company.commitments |-> company.commitments[r].outstanding])
        /\ b.recognized = Total(company.postings, AmountOf) + Total(company.corrections, AmountOf)
        /\ b.available = Authorized - b.recognized - b.outstanding
        /\ \A r \in DOMAIN company.commitments : company.commitments[r].outstanding \in 0..company.commitments[r].amount

(* The times a company's records bear, and its clock. *)
Moments(s) == {s.clock} \cup {s.postings[i].at : i \in DOMAIN s.postings}
              \cup {s.corrections[i].at : i \in DOMAIN s.corrections}

(* A forecast over everything recorded finds the same spend and the same    *)
(* open commitments as the budget account, although it derives them from    *)
(* decisions, request revisions and postings (handlers/forecasts.ts) rather *)
(* than from the commitments: for a scope that every record carries.        *)
ForecastAgreesWithBudget ==
    \A scope \in Registered, cutoff \in Moments(company) :
       (/\ \A t \in Moments(company) : t <= cutoff
        /\ \A i \in DOMAIN company.postings : scope \in company.postings[i].scopes
        /\ \A r \in DOMAIN company.commitments : scope \in Current(company, r).scopes)
       => /\ Actual(company, scope, cutoff) = company.budget.recognized
          /\ Outstanding(company, scope, cutoff) = company.budget.outstanding

(* The records that a command left, each named by where it stands. *)
Of(items, id) == {i \in DOMAIN items : items[i].by = id}
Effects(s, id) ==
    {<<"decision", i>> : i \in Of(s.decisions, id)} \cup {<<"posting", i>> : i \in Of(s.postings, id)}
    \cup {<<"correction", i>> : i \in Of(s.corrections, id)}
    \cup UNION {{<<"forecast", i, f>> : i \in Of(s.forecasts[f], id)} : f \in DOMAIN s.forecasts}

(* However often callers time out and send a command again, and however     *)
(* many of the copies the server handles, the command takes effect at most  *)
(* once between two resets, and has when its caller is told it succeeded    *)
(* (router.ts, client.ts).                                                  *)
CommandTakesEffectOnce ==
    /\ \A id \in CommandIds : Cardinality(Effects(company, id)) <= 1
    /\ \A c \in Clients : client[c].phase = "done" /\ client[c].epoch = resets /\ client[c].op # "imports.ingest"
                          => Cardinality(Effects(company, client[c].id)) = 1

(* A command that fails leaves the company as it was: create and amend      *)
(* record the revision and the decision before assertCapacity, which is     *)
(* sound only because the policy has already asked for a review of what     *)
(* does not fit (handlers/requests.ts, policy.ts).                          *)
FailureChangesNothing ==
    [][\A c \in Clients : client[c].phase = "waiting" /\ client'[c].phase = "failed" => company' = company]_svars
=============================================================================
