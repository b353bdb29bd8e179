----------------------------- MODULE MCClients ------------------------------
(***************************************************************************)
(* The clients of the service: the review page, its synthetic stream, and   *)
(* the agents' tool gateway. They share nothing, so a behaviour explores    *)
(* one of them.                                                             *)
(***************************************************************************)
EXTENDS WebWorkspace, DemoStream, AgentTools, TLC

\* A call that passes every check, and one that fails each of them.
Ask(tool, valid, scopes) == [tool |-> tool, valid |-> valid, scopes |-> scopes]
MCInvocations ==
  {Ask("search_evidence", TRUE, {"granted"}), Ask("search_evidence", TRUE, {"other"}),
   Ask("search_evidence", FALSE, {}), Ask("run_forecast", TRUE, {"granted"}),
   Ask("propose_action", TRUE, {}), Ask("unheard_of", TRUE, {})}
MCAllowedTools == {"get_request", "search_evidence", "run_forecast"}
MCConfigured == {"get_request", "search_evidence"}

Symmetry == Permutations(Calls)

VARIABLE client           \* the client a behaviour explores

mcvars == <<wvars, stream, avars, client>>

Init == WebInit /\ StreamInit /\ AgentInit /\ client \in {"page", "stream", "agent"}

Next ==
  /\ \/ client = "page" /\ WebNext /\ UNCHANGED <<stream, avars>>
     \/ client = "stream" /\ Advance /\ UNCHANGED <<wvars, avars>>
     \/ client = "agent" /\ AgentNext /\ UNCHANGED <<wvars, stream>>
  /\ UNCHANGED client

Spec == Init /\ [][Next]_mcvars
=============================================================================
