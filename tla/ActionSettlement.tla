-------------------------- MODULE ActionSettlement --------------------------
(***************************************************************************)
(* What action delivery promises to the rest of Alloc, without executors,  *)
(* crashes, time-outs or compare-and-swaps.  An approved action is an      *)
(* intent; the spending provider keeps at most one operation for it.  The  *)
(* finance modules compose with this specification; ActionExecutor is the  *)
(* program that implements it.                                             *)
(***************************************************************************)
EXTENDS Integers

CONSTANT Intents          \* action intents, each with its own idempotency key

VARIABLES
  stage,                  \* the stored state of each intent, "absent" before insertion
  operation               \* the provider's ledger: one operation per idempotency key

vars == <<stage, operation>>

\* The states of ActionIntentSchema an executor acts on, and those it never leaves.
ActiveStates   == {"pending", "dispatching", "outcome_unknown"}
TerminalStates == {"succeeded", "failed", "canceled"}
IntentStates   == {"absent"} \cup ActiveStates \cup TerminalStates

Verdicts == {"applied", "declined"}

\* The intent state that records an operation's outcome.
StateOf(verdict) == IF verdict = "applied" THEN "succeeded" ELSE "failed"

TypeOK == /\ stage \in [Intents -> IntentStates]
          /\ operation \in [Intents -> Verdicts \cup {"none"}]

Init == /\ stage = [i \in Intents |-> "absent"]
        /\ operation = [i \in Intents |-> "none"]

(***************************************************************************)
(* Finance inserts an intent, or cancels it while no executor holds it.    *)
(***************************************************************************)
Open(i)   == /\ stage[i] = "absent"
             /\ stage' = [stage EXCEPT ![i] = "pending"]
             /\ UNCHANGED operation

Cancel(i) == /\ stage[i] = "pending"
             /\ stage' = [stage EXCEPT ![i] = "canceled"]
             /\ UNCHANGED operation

(***************************************************************************)
(* Delivery moves an intent among the active states; only dispatching      *)
(* leads away from pending, and only dispatching becomes ambiguous.        *)
(***************************************************************************)
Progress(i) ==
  /\ \E next \in ActiveStates :
        /\ <<stage[i], next>> \in {<<"pending", "dispatching">>,
                                   <<"dispatching", "outcome_unknown">>,
                                   <<"dispatching", "pending">>,
                                   <<"outcome_unknown", "pending">>}
        /\ stage' = [stage EXCEPT ![i] = next]
  /\ UNCHANGED operation

(***************************************************************************)
(* The provider records its one operation.  A delivery that was claimed    *)
(* may reach the provider late, so the intent's state does not guard this; *)
(* an intent that was never inserted, though, is never delivered, and a    *)
(* settled one already has its operation.                                  *)
(***************************************************************************)
Effect(i) ==
  /\ stage[i] # "absent" /\ operation[i] = "none"
  /\ \E verdict \in Verdicts : operation' = [operation EXCEPT ![i] = verdict]
  /\ UNCHANGED stage

\* A claimed intent settles to what the provider recorded, never to anything else.
Settle(i) ==
  /\ stage[i] \in {"dispatching", "outcome_unknown"}
  /\ operation[i] # "none"
  /\ stage' = [stage EXCEPT ![i] = StateOf(operation[i])]
  /\ UNCHANGED operation

Next == \E i \in Intents :
          Open(i) \/ Cancel(i) \/ Progress(i) \/ Effect(i) \/ Settle(i)

Spec == Init /\ [][Next]_vars
=============================================================================
