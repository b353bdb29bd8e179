--------------------------- MODULE ActionExecutor ---------------------------
(***************************************************************************)
(* MongoActionExecutor (apps/api/src/execution/executor.ts) and the        *)
(* SimulatedSpendProvider it calls (provider.ts).                          *)
(*                                                                         *)
(* Several executor processes work on the same intents.  Every await of    *)
(* the code is a step: an executor keeps the intent it read in `seen` and  *)
(* later writes with a compare-and-swap on (state, revision).  A process   *)
(* may die between any two steps, a call may throw, and the provider may   *)
(* answer in any of its failure modes.                                     *)
(*                                                                         *)
(* The idempotency key of an intent is unique to it, so the ledger of the  *)
(* provider is indexed by the intent.                                      *)
(***************************************************************************)
EXTENDS Integers

CONSTANTS
  Intents,      \* action intents
  Executors,    \* executor processes (or concurrent calls within one)
  MaxFaults     \* bound on crashes, thrown calls and failed provider answers

ASSUME MaxFaultsAssumption == MaxFaults \in Nat

VARIABLES
  intent,       \* action_intents: state and revision of each intent
  operation,    \* simulated_provider_operations: the outcome recorded for the key
  receipt,      \* action_receipts: the outcome recorded for the intent
  at,           \* the step each executor has reached
  target,       \* the intent it works on
  seen,         \* the intent as it last read or wrote it
  answer,       \* what the provider answered it
  outcome,      \* how its last attempt ended (IntentOutcome)
  faults        \* how many faults have happened

store  == <<intent, operation, receipt>>
memory == <<target, seen, answer, outcome>>
vars   == <<store, at, memory, faults>>

ActiveStates   == {"pending", "dispatching", "outcome_unknown"}
TerminalStates == {"succeeded", "failed", "canceled"}
IntentStates   == {"absent"} \cup ActiveStates \cup TerminalStates

Verdicts == {"applied", "declined"}
StateOf(verdict) == IF verdict = "applied" THEN "succeeded" ELSE "failed"

StoredIntents == [state : IntentStates, revision : Nat]
NotInserted   == [state |-> "absent", revision |-> 0]

\* What the provider may answer to deliver or lookup, and how an attempt may end.
Answers  == Verdicts \cup {"outcome_unknown", "unavailable", "absent"}
Statuses == {"succeeded", "failed", "outcome_unknown", "pending", "skipped", "error"}
Steps    == {"idle", "dispatch", "reconcile", "claim", "receipt", "converge",
             "call", "answered", "done"}

TypeOK ==
  /\ intent \in [Intents -> StoredIntents]
  /\ operation \in [Intents -> Verdicts \cup {"none"}]
  /\ receipt \in [Intents -> {"none", "succeeded", "failed"}]
  /\ at \in [Executors -> Steps]
  /\ target \in [Executors -> Intents \cup {"none"}]
  /\ \A w \in Executors : at[w] # "idle" => target[w] \in Intents
  /\ seen \in [Executors -> StoredIntents]
  /\ answer \in [Executors -> Answers \cup {"none"}]
  /\ outcome \in [Executors -> Statuses \cup {"none"}]
  /\ faults \in 0 .. MaxFaults

Init ==
  /\ intent = [i \in Intents |-> NotInserted]
  /\ operation = [i \in Intents |-> "none"]
  /\ receipt = [i \in Intents |-> "none"]
  /\ at = [w \in Executors |-> "idle"]
  /\ target = [w \in Executors |-> "none"]
  /\ seen = [w \in Executors |-> NotInserted]
  /\ answer = [w \in Executors |-> "none"]
  /\ outcome = [w \in Executors |-> "none"]
  /\ faults = 0

-----------------------------------------------------------------------------
(* What finance does to intents (syncActionIntent): it inserts one when a  *)
(* revision is approved and cancels a superseded one while it is pending.  *)

OpenIntent(i) ==
  /\ intent[i] = NotInserted
  /\ intent' = [intent EXCEPT ![i] = [state |-> "pending", revision |-> 1]]
  /\ UNCHANGED <<operation, receipt, at, memory, faults>>

CancelPending(i) ==
  /\ intent[i].state = "pending"
  /\ intent' = [intent EXCEPT ![i] = [state |-> "canceled", revision |-> @.revision + 1]]
  /\ UNCHANGED <<operation, receipt, at, memory, faults>>

-----------------------------------------------------------------------------
(* Helpers of the executor's steps.                                        *)

Goto(w, step)     == at' = [at EXCEPT ![w] = step]
Finish(w, status) == Goto(w, "done") /\ outcome' = [outcome EXCEPT ![w] = status]
See(w, stored)    == seen' = [seen EXCEPT ![w] = stored]

\* A restart forgets the attempt.
Forget(w) ==
  /\ Goto(w, "idle")
  /\ target' = [target EXCEPT ![w] = "none"]
  /\ See(w, NotInserted)
  /\ answer' = [answer EXCEPT ![w] = "none"]
  /\ outcome' = [outcome EXCEPT ![w] = "none"]

\* One more fault, while the bound allows it.
Fault == faults < MaxFaults /\ faults' = faults + 1

(***************************************************************************)
(* transition: the write succeeds only on the exact intent that was read.  *)
(* A transition that loses the race changes nothing and the attempt is     *)
(* reported as skipped.                                                    *)
(***************************************************************************)
Unchanged(w) == intent[target[w]] = seen[w]

\* Mutant: the state is written without advancing the revision.
TransitionKeepsRevision(w, state, status) ==
  IF Unchanged(w)
  THEN intent' = [intent EXCEPT ![target[w]].state = state] /\ Finish(w, status)
  ELSE Finish(w, "skipped") /\ UNCHANGED intent

Transition(w, state, status) ==
  IF Unchanged(w)
  THEN /\ intent' = [intent EXCEPT ![target[w]] =
                       [state |-> state, revision |-> seen[w].revision + 1]]
       /\ Finish(w, status)
  ELSE /\ Finish(w, "skipped")
       /\ UNCHANGED intent

-----------------------------------------------------------------------------
(* runIntent, dispatchIntent and reconcileIntent, one action per await.    *)

\* runIntent: the first read only chooses the routine.
RunIntent(w, i) ==
  /\ at[w] = "idle"
  /\ intent[i].state # "absent"
  /\ Goto(w, IF intent[i].state = "outcome_unknown" THEN "reconcile" ELSE "dispatch")
  /\ target' = [target EXCEPT ![w] = i]
  /\ UNCHANGED <<store, seen, answer, outcome, faults>>

\* Mutant: an ambiguous intent is claimed and delivered again.
LoadForDispatchBlind(w) ==
  /\ at[w] = "dispatch"
  /\ LET now == intent[target[w]] IN
       IF now.state \in ActiveStates
       THEN /\ See(w, now)
            /\ Goto(w, IF now.state = "dispatching" THEN "receipt" ELSE "claim")
            /\ UNCHANGED outcome
       ELSE Finish(w, "skipped") /\ UNCHANGED seen
  /\ UNCHANGED <<store, target, answer, faults>>

\* Mutant: an intent a dead executor left in dispatching is not picked up again.
LoadForDispatchPendingOnly(w) ==
  /\ at[w] = "dispatch"
  /\ LET now == intent[target[w]] IN
       IF now.state = "pending"
       THEN See(w, now) /\ Goto(w, "claim") /\ UNCHANGED outcome
       ELSE Finish(w, "skipped") /\ UNCHANGED seen
  /\ UNCHANGED <<store, target, answer, faults>>

\* dispatchIntent reads the intent again; dispatching is recovered without a claim.
LoadForDispatch(w) ==
  /\ at[w] = "dispatch"
  /\ LET now == intent[target[w]] IN
       IF now.state \in {"pending", "dispatching"}
       THEN /\ See(w, now)
            /\ Goto(w, IF now.state = "pending" THEN "claim" ELSE "receipt")
            /\ UNCHANGED outcome
       ELSE Finish(w, "skipped") /\ UNCHANGED seen
  /\ UNCHANGED <<store, target, answer, faults>>

\* reconcileIntent reads the intent again; only an ambiguous one is reconciled.
LoadForReconcile(w) ==
  /\ at[w] = "reconcile"
  /\ LET now == intent[target[w]] IN
       IF now.state = "outcome_unknown"
       THEN See(w, now) /\ Goto(w, "receipt") /\ UNCHANGED outcome
       ELSE Finish(w, "skipped") /\ UNCHANGED seen
  /\ UNCHANGED <<store, target, answer, faults>>

\* claim: compare-and-swap from pending to dispatching.
Claim(w) ==
  /\ at[w] = "claim"
  /\ IF Unchanged(w)
     THEN LET held == [state |-> "dispatching", revision |-> seen[w].revision + 1]
          IN  /\ intent' = [intent EXCEPT ![target[w]] = held]
              /\ See(w, held) /\ Goto(w, "receipt") /\ UNCHANGED outcome
     ELSE Finish(w, "skipped") /\ UNCHANGED <<intent, seen>>
  /\ UNCHANGED <<operation, receipt, target, answer, faults>>

\* receiptForIntent: a recorded receipt wins and the provider is not called.
ReadReceipt(w) ==
  /\ at[w] = "receipt"
  /\ Goto(w, IF receipt[target[w]] = "none" THEN "call" ELSE "converge")
  /\ UNCHANGED <<store, memory, faults>>

\* converge: adopt the recorded receipt's outcome.
Converge(w) ==
  /\ at[w] = "converge"
  /\ Transition(w, receipt[target[w]], receipt[target[w]])
  /\ UNCHANGED <<operation, receipt, target, seen, answer, faults>>

(***************************************************************************)
(* deliver.  A transport failure or a time-out without effect is reported  *)
(* before the ledger is consulted.  Otherwise a key that has an operation  *)
(* answers with its outcome, and a new key records one by a single upsert  *)
(* on the unique key; a time-out after that hides the outcome.             *)
(***************************************************************************)
Answer(w, said)    == Goto(w, "answered") /\ answer' = [answer EXCEPT ![w] = said]
Record(i, verdict) == operation' = [operation EXCEPT ![i] = verdict]

Delivering(w) == at[w] = "call" /\ seen[w].state = "dispatching"

DeliverNotReached(w) ==
  /\ Delivering(w)
  /\ Fault
  /\ \E said \in {"unavailable", "outcome_unknown"} : Answer(w, said)
  /\ UNCHANGED <<store, target, seen, outcome>>

DeliverReplay(w) ==
  /\ Delivering(w)
  /\ operation[target[w]] # "none"
  /\ Answer(w, operation[target[w]])
  /\ UNCHANGED <<store, target, seen, outcome, faults>>

DeliverFirst(w) ==
  /\ Delivering(w)
  /\ operation[target[w]] = "none"
  /\ \E verdict \in Verdicts : Record(target[w], verdict) /\ Answer(w, verdict)
  /\ UNCHANGED <<intent, receipt, target, seen, outcome, faults>>

DeliverThenTimeout(w) ==
  /\ Delivering(w)
  /\ operation[target[w]] = "none"
  /\ Fault
  /\ Record(target[w], "applied")
  /\ Answer(w, "outcome_unknown")
  /\ UNCHANGED <<intent, receipt, target, seen, outcome>>

\* lookup: the ledger answers, or the provider cannot be reached.
LookupAnswers(w) ==
  /\ at[w] = "call" /\ seen[w].state = "outcome_unknown"
  /\ Answer(w, IF operation[target[w]] = "none" THEN "absent" ELSE operation[target[w]])
  /\ UNCHANGED <<store, target, seen, outcome, faults>>

LookupFails(w) ==
  /\ at[w] = "call" /\ seen[w].state = "outcome_unknown"
  /\ Fault
  /\ Finish(w, "outcome_unknown")
  /\ UNCHANGED <<store, target, seen, answer>>

\* Mutant: the receipt is stored whether or not the transition won.
RecordOutcomeUnguarded(w) ==
  /\ at[w] = "answered" /\ answer[w] \in Verdicts
  /\ LET settled == StateOf(answer[w]) IN
       /\ Transition(w, settled, settled)
       /\ receipt' = [receipt EXCEPT ![target[w]] = settled]
  /\ UNCHANGED <<operation, target, seen, answer, faults>>

\* recordOutcome: the intent settles and its receipt is stored in one transaction.
RecordOutcome(w) ==
  /\ at[w] = "answered" /\ answer[w] \in Verdicts
  /\ LET settled == StateOf(answer[w]) IN
       /\ Transition(w, settled, settled)
       /\ receipt' = IF Unchanged(w) /\ receipt[target[w]] = "none"
                     THEN [receipt EXCEPT ![target[w]] = settled]
                     ELSE receipt
  /\ UNCHANGED <<operation, target, seen, answer, faults>>

\* An ambiguous delivery: the intent waits for reconciliation.
FlagUnknown(w) ==
  /\ at[w] = "answered" /\ answer[w] = "outcome_unknown"
  /\ Transition(w, "outcome_unknown", "outcome_unknown")
  /\ UNCHANGED <<operation, receipt, target, seen, answer, faults>>

\* A delivery that did not reach the provider, or a lookup that found nothing.
ReleaseToPending(w) ==
  /\ at[w] = "answered" /\ answer[w] \in {"unavailable", "absent"}
  /\ Transition(w, "pending", "pending")
  /\ UNCHANGED <<operation, receipt, target, seen, answer, faults>>

\* The caller takes the outcome and may call again.
Return(w) ==
  /\ at[w] = "done"
  /\ Forget(w)
  /\ UNCHANGED <<store, faults>>

-----------------------------------------------------------------------------
(* Faults.                                                                 *)

InFlight(w) == at[w] \notin {"idle", "done"}

\* A database or provider call throws: the attempt ends, the intent keeps its state.
Throw(w) ==
  /\ InFlight(w)
  /\ Fault
  /\ Finish(w, "error")
  /\ UNCHANGED <<store, target, seen, answer>>

\* The process dies and restarts with no memory of the attempt.
Crash(w) ==
  /\ InFlight(w)
  /\ Fault
  /\ Forget(w)
  /\ UNCHANGED store

-----------------------------------------------------------------------------
Deliver(w) == \/ DeliverNotReached(w) \/ DeliverReplay(w)
              \/ DeliverFirst(w)      \/ DeliverThenTimeout(w)

Attempt(w) ==
  \/ LoadForDispatch(w) \/ LoadForReconcile(w) \/ Claim(w)
  \/ ReadReceipt(w)     \/ Converge(w)
  \/ Deliver(w)         \/ LookupAnswers(w)    \/ LookupFails(w)
  \/ RecordOutcome(w)   \/ FlagUnknown(w)      \/ ReleaseToPending(w)

Finance  == \E i \in Intents : OpenIntent(i) \/ CancelPending(i)
Executor == \E w \in Executors :
              \/ \E i \in Intents : RunIntent(w, i)
              \/ Attempt(w) \/ Return(w)
              \/ Throw(w)   \/ Crash(w)

Next == Finance \/ Executor

Spec == Init /\ [][Next]_vars

(***************************************************************************)
(* A live executor finishes its attempt, and the worker's passes visit     *)
(* every actionable intent again and again (enqueueActionableIntents and   *)
(* runOnce list all of them, oldest first), whatever else they work on.    *)
(* Faults are bounded, so the provider answers in the end.                 *)
(***************************************************************************)
Fairness ==
  /\ \A w \in Executors : WF_vars(Attempt(w) \/ Return(w))
  /\ \A i \in Intents : SF_vars(\E w \in Executors : RunIntent(w, i))

FairSpec == Spec /\ Fairness

-----------------------------------------------------------------------------
(* Properties.                                                             *)

Delivery == INSTANCE ActionSettlement
              WITH stage <- [i \in Intents |-> intent[i].state]

(***************************************************************************)
(* An intent is settled exactly when its receipt says so, and receipt and  *)
(* intent tell what the provider's ledger holds: whatever executors raced, *)
(* no attempt records an outcome the provider did not (recordOutcome and   *)
(* converge, executor.ts rules 2 and 4).                                   *)
(***************************************************************************)
SettledTruthfully ==
  \A i \in Intents :
    /\ receipt[i] # "none" <=> intent[i].state \in {"succeeded", "failed"}
    /\ receipt[i] # "none" => /\ operation[i] # "none"
                              /\ receipt[i] = StateOf(operation[i])
                              /\ intent[i].state = receipt[i]

(***************************************************************************)
(* A revision number stands for one stored state: an executor whose `seen` *)
(* has the current revision has seen the current state, so no stale        *)
(* executor can pass the compare-and-swap of transition or claim after the *)
(* intent went away and came back to the state it remembers.               *)
(***************************************************************************)
HasSeen(w) == InFlight(w) /\ seen[w] # NotInserted
RevisionNamesState ==
  \A w \in Executors : HasSeen(w) =>
    /\ seen[w].revision <= intent[target[w]].revision
    /\ seen[w].revision = intent[target[w]].revision
         => seen[w] = intent[target[w]]

(***************************************************************************)
(* A terminal intent and its receipt never change again, and the ledger    *)
(* never changes its mind: a late executor, a crash or a repeated delivery *)
(* cannot reopen or rewrite a settled action.                              *)
(***************************************************************************)
SettledIsFinal ==
  [][\A i \in Intents :
       /\ intent[i].state \in TerminalStates => intent'[i] = intent[i]
       /\ receipt[i] # "none" => receipt'[i] = receipt[i]
       /\ operation[i] # "none" => operation'[i] = operation[i]]_vars

\* Executors keep the promise finance relies on.
ImplementsSettlement == Delivery!Spec

(***************************************************************************)
(* Every inserted intent ends settled or canceled, through crashes in any  *)
(* step (rule 3), thrown calls, ambiguous answers and racing executors.    *)
(***************************************************************************)
EveryIntentSettles ==
  \A i \in Intents :
    intent[i].state \in ActiveStates ~> intent[i].state \in TerminalStates
=============================================================================
