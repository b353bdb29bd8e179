----------------------------- MODULE AgentTools -----------------------------
(***************************************************************************)
(* The tool gateway of packages/agent-tools: an agent working for a leased  *)
(* job calls tools while the lease is renewed, runs out or is given up.     *)
(* A call is bound to the generation of the run that makes it, gets the     *)
(* job's context at call time and then keeps that context, over four        *)
(* awaits, to its end. Leases, the resolver of contexts and the agent run   *)
(* that aborts its calls are outside the package. What a tool returns is    *)
(* left out.                                                                *)
(***************************************************************************)
EXTENDS Integers, FiniteSets

CONSTANTS Calls,
          Invocations,             \* [tool, valid, scopes]: what a model may ask
          AllowedTools, AllowedScopes, Configured,   \* the job's grant, the tools with a handler
          MaxToolDuration, LeaseDuration,
          MaxTime, MaxGeneration   \* bounds on the clock and on the leases

ASSUME GatewayAssumption == MaxToolDuration \in Nat \ {0} /\ LeaseDuration \in Nat \ {0}

VARIABLES now, lease, call

avars == <<now, lease, call>>

ToolNames == {"get_request", "get_context", "search_evidence", "run_forecast", "propose_action"}
Idle == [phase |-> "idle"]
Ended(outcome) == [phase |-> "ended", outcome |-> outcome]
Active(c) == call[c].phase \notin {"idle", "ended"}

AgentInit == /\ now = 0
             /\ lease = [generation |-> 1, held |-> TRUE, expires |-> LeaseDuration]
             /\ call = [c \in Calls |-> Idle]

(* A run calls a tool. One without a binding has no tools, and one whose    *)
(* lease is gone may still be calling.                                      *)
Invoke(c, invocation) ==
    /\ call[c].phase = "idle"
    /\ \E generation \in 1..lease.generation :
          call' = [call EXCEPT ![c] = [phase |-> "resolving", ask |-> invocation, bound |-> generation, aborted |-> FALSE]]
    /\ UNCHANGED <<now, lease>>

(* The resolver answers with the job's current authority, or fails when the *)
(* binding names another lease.                                             *)
Resolve(c) ==
    /\ call[c].phase = "resolving"
    /\ call' = [call EXCEPT ![c] = IF lease.held /\ lease.generation = @.bound
                                   THEN [phase |-> "resolved", ask |-> @.ask, bound |-> @.bound,
                                         aborted |-> @.aborted, expires |-> lease.expires]
                                   ELSE Ended("unresolved")]
    /\ UNCHANGED <<now, lease>>

Start(c) ==
    /\ call[c].phase = "resolved"
    /\ call' = [call EXCEPT ![c] =
          CASE @.ask.tool \notin ToolNames -> Ended("UNKNOWN_TOOL")
            [] @.ask.tool \in ToolNames /\ @.expires <= now -> Ended("LEASE_EXPIRED")
            [] OTHER -> [phase |-> "authorizing", ask |-> @.ask, bound |-> @.bound, aborted |-> @.aborted,
                         expires |-> @.expires, started |-> now]]
    /\ UNCHANGED <<now, lease>>

(* Only the tools whose arguments name scopes are checked for them. *)
ExplicitScopes(ask) == IF ask.tool \in {"search_evidence", "run_forecast"} THEN ask.scopes ELSE {}

Refusal(ask) ==
    CASE ask.tool \notin AllowedTools -> "TOOL_NOT_ALLOWED"
      [] ask.tool \in AllowedTools /\ ~ask.valid -> "INVALID_ARGUMENTS"
      [] ask.tool \in AllowedTools /\ ask.valid /\ ~(ExplicitScopes(ask) \subseteq AllowedScopes) -> "SCOPE_DENIED"
      [] ask.tool \in AllowedTools \ Configured /\ ask.valid /\ ExplicitScopes(ask) \subseteq AllowedScopes -> "TOOL_NOT_ALLOWED"
      [] OTHER -> "none"

Min2(a, b) == IF a <= b THEN a ELSE b

(* The authorization has been resolved: the checks, and the timer, which is *)
(* armed now for what remained of the lease when the call started.          *)
Authorize(c) ==
    LET k == call[c]
        timer == now + Min2(MaxToolDuration, k.expires - k.started)
    IN  /\ k.phase = "authorizing"
        /\ call' = [call EXCEPT ![c] =
              CASE Refusal(k.ask) # "none" -> Ended(Refusal(k.ask))
                [] Refusal(k.ask) = "none" /\ k.aborted -> Ended("ABORTED")
                [] OTHER -> [phase |-> "checking", ask |-> k.ask, bound |-> k.bound, aborted |-> FALSE,
                             expires |-> k.expires, timer |-> timer]]
        /\ UNCHANGED <<now, lease>>

(* The handler's own authorization has answered; execute checks the signal  *)
(* and sends its request to the backend.                                    *)
Forward(c, authorized) ==
    /\ call[c].phase = "checking"
    /\ call' = [call EXCEPT ![c] = CASE ~authorized -> Ended("AUTHORITY_DENIED")
                                     [] authorized /\ @.aborted -> Ended("canceled")
                                     [] OTHER -> [@ EXCEPT !.phase = "requested"]]
    /\ UNCHANGED <<now, lease>>

(* A plausible slip: the timer is trusted to fire before the lease ends. *)
LapsedBySignal(k, time) == k.aborted

Lapsed(k, time) == k.aborted \/ k.expires <= time

(* The backend has answered or failed: a result is handed to the agent when *)
(* the call is neither aborted nor past its lease.                          *)
Answer(c, ok) ==
    /\ call[c].phase = "requested"
    /\ call' = [call EXCEPT ![c] = CASE ~ok -> Ended("failed")
                                     [] ok /\ Lapsed(@, now) -> Ended("ABORTED")
                                     [] OTHER -> [phase |-> "ended", outcome |-> "delivered", bound |-> @.bound]]
    /\ UNCHANGED <<now, lease>>

(* The timer has fired, some time after it was due. *)
FireTimer(c) ==
    /\ call[c].phase \in {"checking", "requested"} /\ call[c].timer <= now /\ ~call[c].aborted
    /\ call' = [call EXCEPT ![c].aborted = TRUE]
    /\ UNCHANGED <<now, lease>>

Tick == /\ now < MaxTime
        /\ now' = now + 1
        /\ UNCHANGED <<lease, call>>

Renew == /\ lease.held /\ now < lease.expires
         /\ lease' = [lease EXCEPT !.expires = now + LeaseDuration]
         /\ UNCHANGED <<now, call>>

(* The worker's run is over: its calls are aborted and the lease given up. *)
Release ==
    /\ lease.held /\ now < lease.expires
    /\ lease' = [lease EXCEPT !.held = FALSE]
    /\ call' = [c \in Calls |-> IF Active(c) /\ call[c].bound = lease.generation
                                THEN [call[c] EXCEPT !.aborted = TRUE] ELSE call[c]]
    /\ UNCHANGED now

(* The job is leased again, once its lease was given up or ran out. *)
Claim ==
    /\ ~lease.held \/ lease.expires <= now
    /\ lease.generation < MaxGeneration
    /\ lease' = [generation |-> lease.generation + 1, held |-> TRUE, expires |-> now + LeaseDuration]
    /\ UNCHANGED <<now, call>>

AgentNext ==
    \/ \E c \in Calls : \/ \E invocation \in Invocations : Invoke(c, invocation)
                        \/ Resolve(c) \/ Start(c) \/ Authorize(c) \/ FireTimer(c)
                        \/ \E ok \in BOOLEAN : Forward(c, ok) \/ Answer(c, ok)
    \/ Tick \/ Renew \/ Release \/ Claim

AgentSpec == AgentInit /\ [][AgentNext]_avars

-----------------------------------------------------------------------------
(* A tool's result reaches the agent only while the lease its call was made *)
(* under is still the job's: whatever happens during the awaits of          *)
(* ToolGateway.execute (gateway.ts:98-177), a run that was displaced, whose *)
(* lease ran out or that was stopped gets no more results, although the     *)
(* context is read once and the timer is armed after an await and may fire  *)
(* late.                                                                    *)
ResultsBelongToTheGrant ==
    [][\A c \in Calls : call'[c] # call[c] /\ call'[c].phase = "ended" /\ call'[c].outcome = "delivered"
          => lease.held /\ call'[c].bound = lease.generation /\ now < lease.expires]_avars
=============================================================================
