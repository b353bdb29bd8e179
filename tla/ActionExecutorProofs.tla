------------------------ MODULE ActionExecutorProofs ------------------------
(***************************************************************************)
(* ActionExecutor for any number of intents, executors and faults: the     *)
(* type invariant, the two safety invariants of the runs, the finality of  *)
(* settled actions, and that executors implement ActionSettlement.         *)
(***************************************************************************)
EXTENDS ActionExecutor, TLAPS

(***************************************************************************)
(* What an executor knows at each step: it works on an inserted intent,    *)
(* with a state that step may have read, and an answer the ledger backs.   *)
(***************************************************************************)
Knowledge(w) ==
  /\ at[w] # "idle" => intent[target[w]].state # "absent"
  /\ at[w] \in {"idle", "dispatch", "reconcile"} => seen[w] = NotInserted
  /\ at[w] = "claim" => seen[w].state = "pending"
  /\ at[w] \in {"receipt", "converge", "call", "answered"}
       => seen[w].state \in {"dispatching", "outcome_unknown"}
  /\ at[w] = "converge" => receipt[target[w]] # "none"
  /\ at[w] = "answered" =>
       /\ answer[w] \in Verdicts => operation[target[w]] = answer[w]
       /\ answer[w] = "outcome_unknown" => seen[w].state = "dispatching"

Knowledgeable == \A w \in Executors : Knowledge(w)

\* Only a missing intent has revision zero.
Revised == \A i \in Intents : intent[i].state = "absent" <=> intent[i] = NotInserted

IInv == TypeOK /\ SettledTruthfully /\ RevisionNamesState /\ Knowledgeable /\ Revised

LEMMA InitIInv == Init => IInv
BY MaxFaultsAssumption
   DEF Init, IInv, TypeOK, SettledTruthfully, RevisionNamesState, Knowledgeable,
       Knowledge, Revised, StoredIntents, NotInserted, IntentStates, ActiveStates,
       TerminalStates, Steps, Verdicts, Answers, Statuses, HasSeen, InFlight

-----------------------------------------------------------------------------
(* What the shared helper of the writing steps keeps.                      *)

LEMMA TransitionType ==
  ASSUME TypeOK, NEW w \in Executors, target[w] \in Intents,
         NEW state \in IntentStates, NEW status \in Statuses,
         Transition(w, state, status)
  PROVE  /\ intent' \in [Intents -> StoredIntents]
         /\ at' \in [Executors -> Steps]
         /\ outcome' \in [Executors -> Statuses \cup {"none"}]
         /\ at' = [at EXCEPT ![w] = "done"]
<1>1. seen[w].revision + 1 \in Nat
  BY DEF TypeOK, StoredIntents
<1>2. [state |-> state, revision |-> seen[w].revision + 1] \in StoredIntents
  BY <1>1 DEF StoredIntents
<1>3. "done" \in Steps /\ "skipped" \in Statuses
  BY DEF Steps, Statuses
<1> QED
  BY <1>2, <1>3 DEF TypeOK, Transition, Finish, Goto

\* The rest of TypeOK, for a step that only ends with a transition.
LEMMA TransitionTypeOK ==
  ASSUME TypeOK, NEW w \in Executors, target[w] \in Intents,
         NEW state \in IntentStates, NEW status \in Statuses,
         Transition(w, state, status),
         UNCHANGED <<operation, target, seen, answer, faults>>,
         receipt' \in [Intents -> {"none", "succeeded", "failed"}]
  PROVE  TypeOK'
BY TransitionType DEF TypeOK

\* Finish only ends the attempt.
LEMMA FinishType ==
  ASSUME TypeOK, NEW w \in Executors, NEW status \in Statuses, Finish(w, status)
  PROVE  /\ at' \in [Executors -> Steps] /\ at' = [at EXCEPT ![w] = "done"]
         /\ outcome' \in [Executors -> Statuses \cup {"none"}]
BY DEF TypeOK, Finish, Goto, Steps

\* A transition advances the revision past everything any executor has seen.
LEMMA TransitionRevision ==
  ASSUME TypeOK, RevisionNamesState, NEW w \in Executors, target[w] \in Intents,
         NEW state \in IntentStates, NEW status \in Statuses,
         Transition(w, state, status), UNCHANGED <<target, seen>>
  PROVE  RevisionNamesState'
<1> SUFFICES ASSUME NEW v \in Executors, HasSeen(v)'
             PROVE  /\ seen[v].revision <= intent'[target[v]].revision
                    /\ seen[v].revision = intent'[target[v]].revision
                         => seen[v] = intent'[target[v]]
  BY DEF RevisionNamesState
<1>1. at' = [at EXCEPT ![w] = "done"]
  BY TransitionType
<1>2. v # w /\ HasSeen(v) /\ target[v] \in Intents
  BY <1>1 DEF HasSeen, InFlight, TypeOK
<1>3. CASE Unchanged(w) /\ target[v] = target[w]
  <2>1. seen[v].revision <= seen[w].revision
    BY <1>2, <1>3 DEF RevisionNamesState, Unchanged
  <2>2. intent'[target[v]].revision = seen[w].revision + 1
    BY <1>2, <1>3 DEF Transition, TypeOK
  <2>3. seen[v].revision \in Nat /\ seen[w].revision \in Nat
    BY DEF TypeOK, StoredIntents
  <2> QED  BY <2>1, <2>2, <2>3
<1>4. CASE ~Unchanged(w) \/ target[v] # target[w]
  <2>1. intent'[target[v]] = intent[target[v]]
    BY <1>2, <1>4 DEF Transition, TypeOK
  <2> QED  BY <2>1, <1>2 DEF RevisionNamesState
<1> QED  BY <1>3, <1>4

\* An attempt that is forgotten, wherever it had come to, leaves what is known intact.
LEMMA ForgottenKeeps ==
  ASSUME IInv, NEW w \in Executors, Forget(w), UNCHANGED store, faults' \in 0 .. MaxFaults
  PROVE  IInv'
<1> USE DEF IInv, TypeOK, StoredIntents, NotInserted, IntentStates, Steps, Forget, Goto, See, store
<1>1. TypeOK'  OBVIOUS
<1>2. SettledTruthfully'  BY DEF SettledTruthfully
<1>3. RevisionNamesState'  BY DEF RevisionNamesState, HasSeen, InFlight
<1>4. Knowledgeable'  BY DEF Knowledgeable, Knowledge
<1>5. Revised'  BY DEF Revised
<1> QED  BY <1>1, <1>2, <1>3, <1>4, <1>5

\* And so does a fault that touches no attempt.
LEMMA FaultKeeps ==
  ASSUME IInv, UNCHANGED <<store, at, memory>>, faults' \in 0 .. MaxFaults
  PROVE  IInv'
BY DEF IInv, TypeOK, store, memory, SettledTruthfully, RevisionNamesState, HasSeen, InFlight,
       Knowledgeable, Knowledge, Revised

\* A transition keeps what executors know, and inserts no intent.
LEMMA TransitionKnows ==
  ASSUME TypeOK, Knowledgeable, Revised, NEW w \in Executors, at[w] # "idle", target[w] \in Intents,
         NEW state \in IntentStates \ {"absent"}, NEW status \in Statuses,
         Transition(w, state, status), UNCHANGED <<operation, target, seen, answer>>,
         \A i \in Intents : receipt[i] # "none" => receipt'[i] # "none"
  PROVE  Knowledgeable' /\ Revised'
<1>1. at' = [at EXCEPT ![w] = "done"] /\ at \in [Executors -> Steps]
  BY TransitionType DEF TypeOK
<1>2. seen[w].revision \in Nat /\ seen[w].revision + 1 # 0
  BY DEF TypeOK, StoredIntents
<1>3. \A i \in Intents : \/ intent'[i] = intent[i]
                         \/ intent'[i] = [state |-> state, revision |-> seen[w].revision + 1]
  BY DEF Transition, TypeOK
<1>4. Revised'  BY <1>2, <1>3 DEF Revised, NotInserted
<1>5. \A i \in Intents : intent[i].state # "absent" => intent'[i].state # "absent"
  BY <1>3
<1>6. ASSUME NEW v \in Executors PROVE Knowledge(v)'
  <2>1. at'[v] = "done" \/ at'[v] = at[v]  BY <1>1
  <2>2. Knowledge(v) /\ (at[v] # "idle" => target[v] \in Intents) /\ (at'[v] # "idle" => at[v] # "idle" \/ v = w)
    BY <1>1 DEF Knowledgeable, TypeOK
  <2>3. CASE at'[v] = at[v]
    BY <1>5, <2>2, <2>3 DEF Knowledge
  <2>4. CASE at'[v] = "done" /\ at'[v] # at[v]
    <3>1. v = w  BY <1>1, <2>4
    <3>2. intent'[target[w]].state # "absent"
      <4>1. CASE Unchanged(w)
        <5>1. intent'[target[w]] = [state |-> state, revision |-> seen[w].revision + 1]
          BY <4>1 DEF Transition, TypeOK
        <5> QED  BY <5>1
      <4>2. CASE ~Unchanged(w)
        <5>1. intent' = intent  BY <4>2 DEF Transition
        <5> QED  BY <5>1, <2>2, <3>1 DEF Knowledge
      <4> QED  BY <4>1, <4>2
    <3> QED  BY <2>4, <3>1, <3>2 DEF Knowledge
  <2> QED  BY <2>1, <2>3, <2>4
<1> QED  BY <1>4, <1>6 DEF Knowledgeable

\* Together: all of the invariant but the truth of what settled, which is for each step to show.
LEMMA TransitionKeeps ==
  ASSUME IInv, NEW w \in Executors, at[w] # "idle",
         NEW state \in IntentStates \ {"absent"}, NEW status \in Statuses,
         Transition(w, state, status), UNCHANGED <<operation, target, seen, answer, faults>>,
         receipt' \in [Intents -> {"none", "succeeded", "failed"}],
         \A i \in Intents : receipt[i] # "none" => receipt'[i] # "none",
         SettledTruthfully'
  PROVE  IInv'
<1>1. target[w] \in Intents /\ state \in IntentStates  BY DEF IInv, TypeOK
<1>2. TypeOK'  BY <1>1, TransitionTypeOK DEF IInv
<1>3. RevisionNamesState'  BY <1>1, TransitionRevision DEF IInv
<1>4. Knowledgeable' /\ Revised'  BY <1>1, TransitionKnows DEF IInv
<1> QED  BY <1>2, <1>3, <1>4 DEF IInv

\* A transition to a state that is not settled needs an intent that is not.
LEMMA UnsettledStays ==
  ASSUME IInv, NEW w \in Executors, target[w] \in Intents,
         seen[w].state \in ActiveStates, NEW state \in ActiveStates, NEW status,
         Transition(w, state, status), UNCHANGED <<operation, receipt>>
  PROVE  SettledTruthfully'
<1>1. CASE Unchanged(w)
  <2>1. /\ \A i \in Intents \ {target[w]} : intent'[i] = intent[i]
        /\ intent'[target[w]].state = state /\ intent[target[w]].state \in ActiveStates
    BY <1>1 DEF Transition, Unchanged, IInv, TypeOK
  <2> QED  BY <2>1 DEF IInv, SettledTruthfully, ActiveStates
<1>2. CASE ~Unchanged(w)
  <2>1. intent' = intent  BY <1>2 DEF Transition
  <2> QED  BY <2>1 DEF IInv, SettledTruthfully
<1> QED  BY <1>1, <1>2

\* A settling transition: the receipt is that of the ledger, stored with the state.
LEMMA SettlesTruly ==
  ASSUME IInv, NEW w \in Executors, target[w] \in Intents, NEW status,
         operation[target[w]] \in Verdicts,
         Transition(w, StateOf(operation[target[w]]), status), UNCHANGED operation,
         \A i \in Intents : receipt'[i] = IF i = target[w] /\ Unchanged(w) /\ receipt[i] = "none"
                                          THEN StateOf(operation[i]) ELSE receipt[i]
  PROVE  SettledTruthfully'
<1> DEFINE settled == StateOf(operation[target[w]])
<1>1. settled \in {"succeeded", "failed"} /\ operation[target[w]] # "none"
  BY DEF StateOf, Verdicts
<1>2. CASE Unchanged(w)
  <2>1. /\ \A i \in Intents \ {target[w]} : intent'[i] = intent[i]
        /\ intent'[target[w]].state = settled
    BY <1>2 DEF Transition, IInv, TypeOK
  <2>2. receipt'[target[w]] = settled
    BY <1>2 DEF IInv, SettledTruthfully
  <2>3. \A i \in Intents \ {target[w]} : receipt'[i] = receipt[i]
    OBVIOUS
  <2> HIDE DEF settled
  <2>4. receipt'[target[w]] = StateOf(operation[target[w]])
    BY <2>2 DEF settled
  <2> QED  BY <1>1, <2>1, <2>2, <2>3, <2>4 DEF IInv, SettledTruthfully
<1>3. CASE ~Unchanged(w)
  <2>1. intent' = intent /\ \A i \in Intents : receipt'[i] = receipt[i]
    BY <1>3 DEF Transition
  <2> QED  BY <2>1 DEF IInv, SettledTruthfully
<1> QED  BY <1>2, <1>3

\* An attempt that ends without a write leaves all of it intact.
LEMMA FinishKeeps ==
  ASSUME IInv, NEW w \in Executors, at[w] # "idle", NEW status \in Statuses, Finish(w, status),
         UNCHANGED <<store, target, seen, answer>>, faults' \in 0 .. MaxFaults
  PROVE  IInv'
<1>1. at' = [at EXCEPT ![w] = "done"] /\ at' \in [Executors -> Steps] /\ at \in [Executors -> Steps]
  BY FinishType DEF IInv, TypeOK
<1>2. TypeOK'  BY FinishType DEF IInv, TypeOK, store
<1>3. SettledTruthfully'  BY DEF IInv, SettledTruthfully, store
<1>4. RevisionNamesState'
  BY <1>1 DEF IInv, RevisionNamesState, HasSeen, InFlight, store
<1>5. Knowledgeable'
  <2> SUFFICES ASSUME NEW v \in Executors PROVE Knowledge(v)'
    BY DEF Knowledgeable
  <2>1. Knowledge(v)  BY DEF IInv, Knowledgeable
  <2>2. CASE v = w  BY <1>1, <2>1, <2>2 DEF Knowledge, store
  <2>3. CASE v # w  BY <1>1, <2>1, <2>3 DEF Knowledge, store
  <2> QED  BY <2>2, <2>3
<1>6. Revised'  BY DEF IInv, Revised, store
<1> QED  BY <1>2, <1>3, <1>4, <1>5, <1>6 DEF IInv

\* A step of a read that goes on: the executor has seen the intent as it is.
LEMMA LoadKeeps ==
  ASSUME IInv, NEW w \in Executors, at[w] \in {"dispatch", "reconcile"}, NEW step \in {"claim", "receipt"},
         Goto(w, step), See(w, intent[target[w]]), UNCHANGED <<store, target, answer, outcome, faults>>,
         step = "claim" => intent[target[w]].state = "pending",
         step = "receipt" => intent[target[w]].state \in {"dispatching", "outcome_unknown"}
  PROVE  IInv'
<1>1. /\ at' = [at EXCEPT ![w] = step] /\ at \in [Executors -> Steps] /\ step \in Steps
      /\ seen' = [seen EXCEPT ![w] = intent[target[w]]] /\ seen \in [Executors -> StoredIntents]
      /\ target[w] \in Intents /\ intent[target[w]] \in StoredIntents
  BY DEF IInv, TypeOK, Goto, See, Steps
<1>2. at' \in [Executors -> Steps] /\ seen' \in [Executors -> StoredIntents]
  BY <1>1
<1>3. TypeOK'  BY <1>1, <1>2 DEF IInv, TypeOK, store
<1>4. SettledTruthfully'  BY DEF IInv, SettledTruthfully, store
<1>5. RevisionNamesState'
  <2> SUFFICES ASSUME NEW v \in Executors, HasSeen(v)'
               PROVE  /\ seen'[v].revision <= intent[target[v]].revision
                      /\ seen'[v].revision = intent[target[v]].revision => seen'[v] = intent[target[v]]
    BY DEF RevisionNamesState, store
  <2>1. CASE v = w
    <3>1. seen'[v] = intent[target[v]] /\ intent[target[v]].revision \in Nat
      BY <1>1, <2>1 DEF StoredIntents
    <3> QED  BY <3>1
  <2>2. CASE v # w
    <3>1. HasSeen(v) /\ seen'[v] = seen[v]  BY <1>1, <2>2 DEF HasSeen, InFlight
    <3> QED  BY <3>1 DEF IInv, RevisionNamesState
  <2> QED  BY <2>1, <2>2
<1>6. Knowledgeable'
  <2> SUFFICES ASSUME NEW v \in Executors PROVE Knowledge(v)'
    BY DEF Knowledgeable
  <2>1. Knowledge(v)  BY DEF IInv, Knowledgeable
  <2>2. CASE v = w  BY <1>1, <2>1, <2>2 DEF Knowledge, store
  <2>3. CASE v # w  BY <1>1, <2>1, <2>3 DEF Knowledge, store
  <2> QED  BY <2>2, <2>3
<1>7. Revised'  BY DEF IInv, Revised, store
<1> QED  BY <1>3, <1>4, <1>5, <1>6, <1>7 DEF IInv

\* A claim that wins the race: the executor has seen what it wrote.
LEMMA ClaimKeeps ==
  ASSUME IInv, NEW w \in Executors, Claim(w), Unchanged(w)
  PROVE  IInv'
<1> DEFINE held == [state |-> "dispatching", revision |-> seen[w].revision + 1]
<1>1. /\ at[w] = "claim" /\ seen[w].state = "pending" /\ intent[target[w]] = seen[w] /\ target[w] \in Intents
      /\ seen[w].revision \in Nat /\ held.revision \in Nat /\ held.revision # 0 /\ held.state = "dispatching"
  BY DEF IInv, TypeOK, StoredIntents, Knowledgeable, Knowledge, Claim, Unchanged
<1>2. held \in StoredIntents /\ held.revision = seen[w].revision + 1
  BY <1>1 DEF StoredIntents, IntentStates, ActiveStates
<1>3. /\ intent' = [intent EXCEPT ![target[w]] = held] /\ seen' = [seen EXCEPT ![w] = held]
      /\ at' = [at EXCEPT ![w] = "receipt"]
      /\ UNCHANGED <<operation, receipt, target, answer, outcome, faults>>
  BY DEF Claim, Goto, See
<1> HIDE DEF held
<1>4. /\ intent \in [Intents -> StoredIntents] /\ seen \in [Executors -> StoredIntents]
      /\ at \in [Executors -> Steps] /\ "receipt" \in Steps
  BY DEF IInv, TypeOK, Steps
<1>5. /\ intent' \in [Intents -> StoredIntents] /\ seen' \in [Executors -> StoredIntents]
      /\ at' \in [Executors -> Steps] /\ \A v \in Executors : at'[v] # "idle" => target[v] \in Intents
  BY <1>1, <1>2, <1>3, <1>4 DEF IInv, TypeOK
<1>6. TypeOK'  BY <1>3, <1>5 DEF IInv, TypeOK
<1>7. /\ \A i \in Intents \ {target[w]} : intent'[i] = intent[i]
      /\ intent'[target[w]] = held
  BY <1>1, <1>3, <1>4
<1>8. SettledTruthfully'
  BY <1>1, <1>3, <1>7 DEF IInv, SettledTruthfully
<1>9. RevisionNamesState'
  <2> SUFFICES ASSUME NEW v \in Executors, HasSeen(v)'
               PROVE  /\ seen'[v].revision <= intent'[target[v]].revision
                      /\ seen'[v].revision = intent'[target[v]].revision => seen'[v] = intent'[target[v]]
    BY <1>3 DEF RevisionNamesState
  <2>1. CASE v = w
    <3>1. seen'[v] = held /\ intent'[target[v]] = held  BY <1>3, <1>4, <1>7, <2>1
    <3> QED  BY <1>1, <3>1
  <2>2. CASE v # w
    <3>1. /\ HasSeen(v) /\ seen'[v] = seen[v] /\ target[v] \in Intents
          /\ seen[v].revision \in Nat /\ intent[target[v]].revision \in Nat
      BY <1>3, <1>4, <1>5, <2>2 DEF HasSeen, InFlight, StoredIntents, Claim
    <3>2. /\ seen[v].revision <= intent[target[v]].revision
          /\ seen[v].revision = intent[target[v]].revision => seen[v] = intent[target[v]]
      BY <3>1 DEF IInv, RevisionNamesState
    <3>3. CASE target[v] = target[w]
      BY <1>1, <1>2, <1>7, <3>1, <3>2, <3>3
    <3>4. CASE target[v] # target[w]
      BY <1>7, <3>1, <3>2, <3>4
    <3> QED  BY <3>3, <3>4
  <2> QED  BY <2>1, <2>2
<1>10. Knowledgeable'
  <2> SUFFICES ASSUME NEW v \in Executors PROVE Knowledge(v)'
    BY DEF Knowledgeable
  <2>1. Knowledge(v)  BY DEF IInv, Knowledgeable
  <2>2. CASE v = w  BY <1>1, <1>3, <1>4, <1>7, <2>1, <2>2 DEF Knowledge
  <2>3. CASE v # w
    <3>1. at'[v] = at[v] /\ seen'[v] = seen[v]  BY <1>3, <1>4, <2>3
    <3>2. at[v] # "idle" => intent'[target[v]].state # "absent"
      BY <1>1, <1>5, <1>7, <2>1, <3>1 DEF Knowledge
    <3> QED  BY <1>3, <2>1, <3>1, <3>2 DEF Knowledge
  <2> QED  BY <2>2, <2>3
<1>11. Revised'
  BY <1>1, <1>7 DEF IInv, Revised, NotInserted
<1> QED  BY <1>6, <1>8, <1>9, <1>10, <1>11 DEF IInv

LEMMA NextIInv == IInv /\ [Next]_vars => IInv'
<1> SUFFICES ASSUME IInv, [Next]_vars
             PROVE  IInv'
  OBVIOUS
<1> USE MaxFaultsAssumption
<1> USE DEF IInv, TypeOK, StoredIntents, NotInserted, IntentStates, ActiveStates,
            TerminalStates, Steps, Verdicts, Answers, Statuses, StateOf, store, memory
<1>1. ASSUME NEW i \in Intents, OpenIntent(i)
      PROVE  IInv'
  <2> USE <1>1 DEF OpenIntent, Goto, See, Forget, Finish, Fault, Unchanged, Transition, Answer, Record, Delivering, InFlight
  <2>1. TypeOK'  OBVIOUS
  <2>2. SettledTruthfully'  BY DEF SettledTruthfully, Knowledgeable, Knowledge
  <2>3. RevisionNamesState'  BY DEF RevisionNamesState, HasSeen, Knowledgeable, Knowledge
  <2>4. Knowledgeable'  BY DEF Knowledgeable, Knowledge, SettledTruthfully, RevisionNamesState, HasSeen, Revised
  <2>5. Revised'  BY DEF Revised, Knowledgeable, Knowledge
  <2> QED  BY <2>1, <2>2, <2>3, <2>4, <2>5
<1>2. ASSUME NEW i \in Intents, CancelPending(i)
      PROVE  IInv'
  <2> USE <1>2 DEF CancelPending, Goto, See, Forget, Finish, Fault, Unchanged, Transition, Answer, Record, Delivering, InFlight
  <2>1. TypeOK'  OBVIOUS
  <2>2. SettledTruthfully'  BY DEF SettledTruthfully, Knowledgeable, Knowledge
  <2>3. RevisionNamesState'  BY DEF RevisionNamesState, HasSeen, Knowledgeable, Knowledge
  <2>4. Knowledgeable'  BY DEF Knowledgeable, Knowledge, SettledTruthfully, RevisionNamesState, HasSeen, Revised
  <2>5. Revised'  BY DEF Revised, Knowledgeable, Knowledge
  <2> QED  BY <2>1, <2>2, <2>3, <2>4, <2>5
<1>3. ASSUME NEW w \in Executors, NEW i \in Intents, RunIntent(w, i)
      PROVE  IInv'
  <2> USE <1>3 DEF RunIntent, Goto, See, Forget, Finish, Fault, Unchanged, Transition, Answer, Record, Delivering, InFlight
  <2>1. TypeOK'  OBVIOUS
  <2>2. SettledTruthfully'  BY DEF SettledTruthfully, Knowledgeable, Knowledge
  <2>3. RevisionNamesState'  BY DEF RevisionNamesState, HasSeen, Knowledgeable, Knowledge
  <2>4. Knowledgeable'  BY DEF Knowledgeable, Knowledge, SettledTruthfully, RevisionNamesState, HasSeen, Revised
  <2>5. Revised'  BY DEF Revised, Knowledgeable, Knowledge
  <2> QED  BY <2>1, <2>2, <2>3, <2>4, <2>5
<1>4. ASSUME NEW w \in Executors, LoadForDispatch(w)
      PROVE  IInv'
  <2> HIDE DEF IInv, TypeOK, Statuses, IntentStates, Steps, store
  <2>1. CASE intent[target[w]].state \in {"pending", "dispatching"}
    BY <1>4, <2>1, LoadKeeps DEF LoadForDispatch
  <2>2. CASE intent[target[w]].state \notin {"pending", "dispatching"}
    <3>1. Finish(w, "skipped") /\ at[w] # "idle" /\ UNCHANGED <<store, target, seen, answer, faults>>
      BY <1>4, <2>2 DEF LoadForDispatch
    <3> QED  BY <3>1, FinishKeeps DEF IInv, TypeOK, Statuses
  <2> QED  BY <2>1, <2>2
<1>5. ASSUME NEW w \in Executors, LoadForReconcile(w)
      PROVE  IInv'
  <2> HIDE DEF IInv, TypeOK, Statuses, IntentStates, Steps, store
  <2>1. CASE intent[target[w]].state = "outcome_unknown"
    BY <1>5, <2>1, LoadKeeps DEF LoadForReconcile
  <2>2. CASE intent[target[w]].state # "outcome_unknown"
    <3>1. Finish(w, "skipped") /\ at[w] # "idle" /\ UNCHANGED <<store, target, seen, answer, faults>>
      BY <1>5, <2>2 DEF LoadForReconcile
    <3> QED  BY <3>1, FinishKeeps DEF IInv, TypeOK, Statuses
  <2> QED  BY <2>1, <2>2
<1>6. ASSUME NEW w \in Executors, Claim(w)
      PROVE  IInv'
  <2> HIDE DEF IInv, TypeOK, Statuses, IntentStates, Steps, store
  <2>1. CASE ~Unchanged(w)
    <3>1. Finish(w, "skipped") /\ at[w] # "idle" /\ UNCHANGED <<store, target, seen, answer, faults>>
      BY <1>6, <2>1 DEF Claim, store
    <3> QED  BY <3>1, FinishKeeps DEF IInv, TypeOK, Statuses
  <2> QED  BY <1>6, <2>1, ClaimKeeps
<1>7. ASSUME NEW w \in Executors, ReadReceipt(w)
      PROVE  IInv'
  <2> USE <1>7 DEF ReadReceipt, Goto, See, Forget, Finish, Fault, Unchanged, Transition, Answer, Record, Delivering, InFlight
  <2>1. TypeOK'  OBVIOUS
  <2>2. SettledTruthfully'  BY DEF SettledTruthfully, Knowledgeable, Knowledge
  <2>3. RevisionNamesState'  BY DEF RevisionNamesState, HasSeen, Knowledgeable, Knowledge
  <2>4. Knowledgeable'  BY DEF Knowledgeable, Knowledge, SettledTruthfully, RevisionNamesState, HasSeen, Revised
  <2>5. Revised'  BY DEF Revised, Knowledgeable, Knowledge
  <2> QED  BY <2>1, <2>2, <2>3, <2>4, <2>5
<1>8. ASSUME NEW w \in Executors, Converge(w)
      PROVE  IInv'
  <2> HIDE DEF IInv, TypeOK, StateOf, StoredIntents, store
  <2>1. /\ at[w] = "converge" /\ target[w] \in Intents
        /\ Transition(w, receipt[target[w]], receipt[target[w]])
        /\ UNCHANGED <<operation, receipt, target, seen, answer, faults>>
    BY <1>8 DEF Converge, IInv, TypeOK
  <2>2. receipt[target[w]] \in {"succeeded", "failed"} /\ receipt \in [Intents -> {"none", "succeeded", "failed"}]
    BY <2>1 DEF IInv, TypeOK, Knowledgeable, Knowledge
  <2>3. receipt[target[w]] = StateOf(operation[target[w]]) /\ operation[target[w]] \in Verdicts
    BY <2>1, <2>2 DEF IInv, TypeOK, SettledTruthfully
  <2>4. SettledTruthfully'  BY <2>1, <2>2, <2>3, SettlesTruly
  <2> QED  BY <2>1, <2>2, <2>4, TransitionKeeps
<1>9. ASSUME NEW w \in Executors, DeliverNotReached(w)
      PROVE  IInv'
  <2> USE <1>9 DEF DeliverNotReached, Goto, See, Forget, Finish, Fault, Unchanged, Transition, Answer, Record, Delivering, InFlight
  <2>1. TypeOK'  OBVIOUS
  <2>2. SettledTruthfully'  BY DEF SettledTruthfully, Knowledgeable, Knowledge
  <2>3. RevisionNamesState'  BY DEF RevisionNamesState, HasSeen, Knowledgeable, Knowledge
  <2>4. Knowledgeable'  BY DEF Knowledgeable, Knowledge, SettledTruthfully, RevisionNamesState, HasSeen, Revised
  <2>5. Revised'  BY DEF Revised, Knowledgeable, Knowledge
  <2> QED  BY <2>1, <2>2, <2>3, <2>4, <2>5
<1>10. ASSUME NEW w \in Executors, DeliverReplay(w)
      PROVE  IInv'
  <2> USE <1>10 DEF DeliverReplay, Goto, See, Forget, Finish, Fault, Unchanged, Transition, Answer, Record, Delivering, InFlight
  <2>1. TypeOK'  OBVIOUS
  <2>2. SettledTruthfully'  BY DEF SettledTruthfully, Knowledgeable, Knowledge
  <2>3. RevisionNamesState'  BY DEF RevisionNamesState, HasSeen, Knowledgeable, Knowledge
  <2>4. Knowledgeable'  BY DEF Knowledgeable, Knowledge, SettledTruthfully, RevisionNamesState, HasSeen, Revised
  <2>5. Revised'  BY DEF Revised, Knowledgeable, Knowledge
  <2> QED  BY <2>1, <2>2, <2>3, <2>4, <2>5
<1>11. ASSUME NEW w \in Executors, DeliverFirst(w)
      PROVE  IInv'
  <2> USE <1>11 DEF DeliverFirst, Goto, See, Forget, Finish, Fault, Unchanged, Transition, Answer, Record, Delivering, InFlight
  <2>1. TypeOK'  OBVIOUS
  <2>2. SettledTruthfully'  BY DEF SettledTruthfully, Knowledgeable, Knowledge
  <2>3. RevisionNamesState'  BY DEF RevisionNamesState, HasSeen, Knowledgeable, Knowledge
  <2>4. Knowledgeable'  BY DEF Knowledgeable, Knowledge, SettledTruthfully, RevisionNamesState, HasSeen, Revised
  <2>5. Revised'  BY DEF Revised, Knowledgeable, Knowledge
  <2> QED  BY <2>1, <2>2, <2>3, <2>4, <2>5
<1>12. ASSUME NEW w \in Executors, DeliverThenTimeout(w)
      PROVE  IInv'
  <2> USE <1>12 DEF DeliverThenTimeout, Goto, See, Forget, Finish, Fault, Unchanged, Transition, Answer, Record, Delivering, InFlight
  <2>1. TypeOK'  OBVIOUS
  <2>2. SettledTruthfully'  BY DEF SettledTruthfully, Knowledgeable, Knowledge
  <2>3. RevisionNamesState'  BY DEF RevisionNamesState, HasSeen, Knowledgeable, Knowledge
  <2>4. Knowledgeable'  BY DEF Knowledgeable, Knowledge, SettledTruthfully, RevisionNamesState, HasSeen, Revised
  <2>5. Revised'  BY DEF Revised, Knowledgeable, Knowledge
  <2> QED  BY <2>1, <2>2, <2>3, <2>4, <2>5
<1>13. ASSUME NEW w \in Executors, LookupAnswers(w)
      PROVE  IInv'
  <2> USE <1>13 DEF LookupAnswers, Goto, See, Forget, Finish, Fault, Unchanged, Transition, Answer, Record, Delivering, InFlight
  <2>1. TypeOK'  OBVIOUS
  <2>2. SettledTruthfully'  BY DEF SettledTruthfully, Knowledgeable, Knowledge
  <2>3. RevisionNamesState'  BY DEF RevisionNamesState, HasSeen, Knowledgeable, Knowledge
  <2>4. Knowledgeable'  BY DEF Knowledgeable, Knowledge, SettledTruthfully, RevisionNamesState, HasSeen, Revised
  <2>5. Revised'  BY DEF Revised, Knowledgeable, Knowledge
  <2> QED  BY <2>1, <2>2, <2>3, <2>4, <2>5
<1>14. ASSUME NEW w \in Executors, LookupFails(w)
      PROVE  IInv'
  <2>1. faults' \in 0 .. MaxFaults  BY <1>14 DEF LookupFails, Fault
  <2> HIDE DEF IInv, TypeOK, Statuses, IntentStates, Steps, store
  <2> QED  BY <1>14, <2>1, FinishKeeps DEF LookupFails, Statuses
<1>15. ASSUME NEW w \in Executors, RecordOutcome(w)
      PROVE  IInv'
  <2> HIDE DEF IInv, TypeOK, StateOf, StoredIntents, store
  <2> DEFINE settled == StateOf(answer[w])
  <2>1. /\ at[w] = "answered" /\ answer[w] \in Verdicts /\ target[w] \in Intents
        /\ Transition(w, settled, settled)
        /\ receipt' = IF Unchanged(w) /\ receipt[target[w]] = "none"
                      THEN [receipt EXCEPT ![target[w]] = settled] ELSE receipt
        /\ UNCHANGED <<operation, target, seen, answer, faults>>
    BY <1>15 DEF RecordOutcome, IInv, TypeOK
  <2>2. operation[target[w]] = answer[w]
    BY <2>1 DEF IInv, Knowledgeable, Knowledge
  <2>3. settled \in {"succeeded", "failed"} /\ receipt \in [Intents -> {"none", "succeeded", "failed"}]
    BY <2>1 DEF StateOf, IInv, TypeOK
  <2>4. \A i \in Intents : receipt'[i] = IF i = target[w] /\ Unchanged(w) /\ receipt[i] = "none"
                                         THEN StateOf(operation[i]) ELSE receipt[i]
    BY <2>1, <2>2, <2>3
  <2>5. receipt' \in [Intents -> {"none", "succeeded", "failed"}]
    BY <2>1, <2>3
  <2>6. SettledTruthfully'  BY <2>1, <2>2, <2>4, SettlesTruly
  <2>7. \A i \in Intents : receipt[i] # "none" => receipt'[i] # "none"
    BY <2>4
  <2> HIDE DEF settled
  <2> QED  BY <2>1, <2>3, <2>5, <2>6, <2>7, TransitionKeeps
<1>16. ASSUME NEW w \in Executors, FlagUnknown(w)
      PROVE  IInv'
  <2> HIDE DEF IInv, TypeOK, StateOf, StoredIntents, store
  <2>1. /\ at[w] = "answered" /\ target[w] \in Intents
        /\ Transition(w, "outcome_unknown", "outcome_unknown")
        /\ UNCHANGED <<operation, receipt, target, seen, answer, faults>>
    BY <1>16 DEF FlagUnknown, IInv, TypeOK
  <2>2. seen[w].state \in ActiveStates /\ receipt \in [Intents -> {"none", "succeeded", "failed"}]
    BY <2>1 DEF IInv, TypeOK, Knowledgeable, Knowledge
  <2>3. "outcome_unknown" \in ActiveStates /\ "outcome_unknown" \in IntentStates \ {"absent"} /\ "outcome_unknown" \in Statuses
    OBVIOUS
  <2>4. SettledTruthfully'  BY <2>1, <2>2, <2>3, UnsettledStays
  <2> QED  BY <2>1, <2>2, <2>3, <2>4, TransitionKeeps
<1>17. ASSUME NEW w \in Executors, ReleaseToPending(w)
      PROVE  IInv'
  <2> HIDE DEF IInv, TypeOK, StateOf, StoredIntents, store
  <2>1. /\ at[w] = "answered" /\ target[w] \in Intents
        /\ Transition(w, "pending", "pending")
        /\ UNCHANGED <<operation, receipt, target, seen, answer, faults>>
    BY <1>17 DEF ReleaseToPending, IInv, TypeOK
  <2>2. seen[w].state \in ActiveStates /\ receipt \in [Intents -> {"none", "succeeded", "failed"}]
    BY <2>1 DEF IInv, TypeOK, Knowledgeable, Knowledge
  <2>3. "pending" \in ActiveStates /\ "pending" \in IntentStates \ {"absent"} /\ "pending" \in Statuses
    OBVIOUS
  <2>4. SettledTruthfully'  BY <2>1, <2>2, <2>3, UnsettledStays
  <2> QED  BY <2>1, <2>2, <2>3, <2>4, TransitionKeeps
<1>18. ASSUME NEW w \in Executors, Return(w)
      PROVE  IInv'
  BY <1>18, ForgottenKeeps DEF Return
<1>19. ASSUME NEW w \in Executors, Throw(w)
      PROVE  IInv'
  <2>1. faults' \in 0 .. MaxFaults  BY <1>19 DEF Throw, Fault
  <2> HIDE DEF IInv, TypeOK, Statuses, IntentStates, Steps, store
  <2> QED  BY <1>19, <2>1, FinishKeeps DEF Throw, InFlight, Statuses
<1>20. ASSUME NEW w \in Executors, Crash(w)
      PROVE  IInv'
  BY <1>20, ForgottenKeeps DEF Crash, Fault
<1>21. CASE UNCHANGED vars
  BY <1>21 DEF vars, SettledTruthfully, RevisionNamesState, HasSeen, InFlight, Knowledgeable, Knowledge, Revised
<1> QED
  BY <1>1, <1>2, <1>3, <1>4, <1>5, <1>6, <1>7, <1>8, <1>9, <1>10, <1>11, <1>12, <1>13, <1>14, <1>15, <1>16, <1>17, <1>18, <1>19, <1>20, <1>21
  DEF Next, Finance, Executor, Attempt, Deliver
-----------------------------------------------------------------------------
(* IInv is inductive, so it holds throughout.                              *)

LEMMA Inductive == Spec => []IInv
BY InitIInv, NextIInv, PTL DEF Spec

(***************************************************************************)
(* Every reachable state is well typed: in particular an executor past its *)
(* first step works on an intent that exists.                              *)
(***************************************************************************)
THEOREM TypeCorrect == Spec => []TypeOK
<1>1. IInv => TypeOK  BY DEF IInv
<1> QED  BY <1>1, Inductive, PTL

(***************************************************************************)
(* Intent, receipt and provider ledger agree on every settled action, for  *)
(* any number of racing, crashing and retrying executors.                  *)
(***************************************************************************)
THEOREM SettlementIsTruthful == Spec => []SettledTruthfully
<1>1. IInv => SettledTruthfully  BY DEF IInv
<1> QED  BY <1>1, Inductive, PTL

(***************************************************************************)
(* No stale executor passes a compare-and-swap: the revision it remembers  *)
(* stands for one stored state only.                                       *)
(***************************************************************************)
THEOREM RevisionsAreSound == Spec => []RevisionNamesState
<1>1. IInv => RevisionNamesState  BY DEF IInv
<1> QED  BY <1>1, Inductive, PTL
-----------------------------------------------------------------------------
(* Refinement: what each step is to the rest of the system.                *)

\* The steps that write neither an intent nor the ledger.
Silent(w) == \/ LoadForDispatch(w)   \/ LoadForReconcile(w) \/ ReadReceipt(w)
             \/ DeliverNotReached(w) \/ DeliverReplay(w)    \/ LookupAnswers(w)
             \/ LookupFails(w)       \/ Return(w)           \/ Throw(w)
             \/ Crash(w)             \/ \E i \in Intents : RunIntent(w, i)

LEMMA SilentStep ==
  ASSUME NEW w \in Executors, Silent(w)
  PROVE  UNCHANGED store
BY DEF Silent, LoadForDispatch, LoadForReconcile, ReadReceipt, DeliverNotReached,
       DeliverReplay, LookupAnswers, LookupFails, Return, Throw, Crash, RunIntent,
       store

\* A transition moves its own intent to the new state, or changes nothing.
LEMMA TransitionStage ==
  ASSUME TypeOK, NEW w \in Executors, target[w] \in Intents,
         NEW state \in IntentStates, NEW status, Transition(w, state, status)
  PROVE  \/ UNCHANGED intent
         \/ /\ intent[target[w]].state = seen[w].state
            /\ [i \in Intents |-> intent[i].state]'
                 = [[i \in Intents |-> intent[i].state] EXCEPT ![target[w]] = state]
<1>1. CASE Unchanged(w)
  <2> DEFINE moved == [state |-> state, revision |-> seen[w].revision + 1]
  <2>1. intent' = [intent EXCEPT ![target[w]] = moved] /\ moved.state = state
    BY <1>1 DEF Transition
  <2>2. intent[target[w]].state = seen[w].state
    BY <1>1 DEF Unchanged
  <2> HIDE DEF moved
  <2> QED  BY <2>1, <2>2 DEF TypeOK
<1>2. CASE ~Unchanged(w)  BY <1>2 DEF Transition
<1> QED  BY <1>1, <1>2

LEMMA RefinesNext == IInv /\ [Next]_vars => [Delivery!Next]_(Delivery!vars)
<1> SUFFICES ASSUME IInv, [Next]_vars
             PROVE  Delivery!Next \/ UNCHANGED Delivery!vars
  OBVIOUS
<1> DEFINE Stage == [i \in Intents |-> intent[i].state]
<1> USE DEF IInv, Verdicts, StateOf, Delivery!Verdicts, Delivery!StateOf
<1>1. ASSUME NEW i \in Intents, OpenIntent(i)
      PROVE  Delivery!Open(i)
  <2>1. Stage[i] = "absent" /\ UNCHANGED operation
    BY <1>1 DEF OpenIntent, NotInserted
  <2>2. Stage' = [Stage EXCEPT ![i] = "pending"]
    BY <1>1 DEF OpenIntent, TypeOK
  <2> QED  BY <2>1, <2>2 DEF Delivery!Open
<1>2. ASSUME NEW i \in Intents, CancelPending(i)
      PROVE  Delivery!Cancel(i)
  BY <1>2 DEF CancelPending, Delivery!Cancel, TypeOK
<1>3. ASSUME NEW w \in Executors, Silent(w)
      PROVE  UNCHANGED Delivery!vars
  BY <1>3, SilentStep DEF store, Delivery!vars
<1>4. ASSUME NEW w \in Executors, Claim(w)
      PROVE  (\E i \in Intents : Delivery!Progress(i)) \/ UNCHANGED Delivery!vars
  <2>1. target[w] \in Intents /\ seen[w].state = "pending"
    BY <1>4 DEF Claim, TypeOK, Knowledgeable, Knowledge
  <2>2. CASE Unchanged(w)
    <3> DEFINE held == [state |-> "dispatching", revision |-> seen[w].revision + 1]
    <3>1. /\ intent' = [intent EXCEPT ![target[w]] = held] /\ held.state = "dispatching"
          /\ UNCHANGED operation
      BY <1>4, <2>2 DEF Claim
    <3>2. Stage[target[w]] = "pending"
      BY <2>1, <2>2 DEF Unchanged
    <3> HIDE DEF held
    <3>3. Stage' = [Stage EXCEPT ![target[w]] = "dispatching"]
      BY <2>1, <3>1 DEF TypeOK
    <3> QED  BY <3>1, <3>2, <3>3, <2>1 DEF Delivery!Progress, Delivery!ActiveStates
  <2>3. CASE ~Unchanged(w)
    BY <1>4, <2>3 DEF Claim, Delivery!vars
  <2> QED  BY <2>2, <2>3
<1>5. ASSUME NEW w \in Executors, FlagUnknown(w) \/ ReleaseToPending(w)
      PROVE  (\E i \in Intents : Delivery!Progress(i)) \/ UNCHANGED Delivery!vars
  <2>1. PICK next \in {"outcome_unknown", "pending"} :
           /\ Transition(w, next, next) /\ UNCHANGED operation
           /\ next = "outcome_unknown" => seen[w].state = "dispatching"
    BY <1>5 DEF FlagUnknown, ReleaseToPending, Knowledgeable, Knowledge
  <2>2. /\ target[w] \in Intents
        /\ seen[w].state \in {"dispatching", "outcome_unknown"}
        /\ next \in IntentStates
    BY <1>5, <2>1 DEF FlagUnknown, ReleaseToPending, TypeOK, Knowledgeable, Knowledge,
                     IntentStates, ActiveStates
  <2>3. CASE UNCHANGED intent
    BY <2>1, <2>3 DEF Delivery!vars
  <2>4. CASE /\ Stage[target[w]] = seen[w].state
             /\ Stage' = [Stage EXCEPT ![target[w]] = next]
    BY <2>1, <2>2, <2>4 DEF Delivery!Progress, Delivery!ActiveStates
  <2> QED  BY <2>1, <2>2, <2>3, <2>4, TransitionStage
<1>6. ASSUME NEW w \in Executors, RecordOutcome(w) \/ Converge(w)
      PROVE  (\E i \in Intents : Delivery!Settle(i)) \/ UNCHANGED Delivery!vars
  <2>1. target[w] \in Intents /\ seen[w].state \in {"dispatching", "outcome_unknown"}
    BY <1>6 DEF RecordOutcome, Converge, TypeOK, Knowledgeable, Knowledge
  <2>2. /\ operation[target[w]] # "none" /\ UNCHANGED operation
        /\ \E status : Transition(w, StateOf(operation[target[w]]), status)
    BY <1>6, <2>1 DEF RecordOutcome, Converge, Knowledgeable, Knowledge, SettledTruthfully
  <2>3. StateOf(operation[target[w]]) \in IntentStates
    BY DEF IntentStates, TerminalStates
  <2>4. CASE UNCHANGED intent
    BY <2>2, <2>4 DEF Delivery!vars
  <2>5. CASE /\ Stage[target[w]] = seen[w].state
             /\ Stage' = [Stage EXCEPT ![target[w]] = StateOf(operation[target[w]])]
    BY <2>1, <2>2, <2>5 DEF Delivery!Settle
  <2> QED  BY <2>1, <2>2, <2>3, <2>4, <2>5, TransitionStage
<1>7. ASSUME NEW w \in Executors, DeliverFirst(w) \/ DeliverThenTimeout(w)
      PROVE  \E i \in Intents : Delivery!Effect(i)
  <2>1. target[w] \in Intents /\ intent[target[w]].state # "absent"
    BY <1>7 DEF DeliverFirst, DeliverThenTimeout, Delivering, TypeOK, Knowledgeable,
               Knowledge
  <2> QED
    BY <1>7, <2>1 DEF DeliverFirst, DeliverThenTimeout, Record, Delivery!Effect
<1>8. CASE UNCHANGED vars
  BY <1>8 DEF vars, store, Delivery!vars
<1>9. ASSUME NEW w \in Executors
      PROVE  at[w] # "idle" => target[w] \in Intents
  BY DEF TypeOK
<1>10. ASSUME NEW w \in Executors, Attempt(w)
       PROVE  Delivery!Next \/ UNCHANGED Delivery!vars
  <2>1. target[w] \in Intents
    BY <1>9, <1>10 DEF Attempt, LoadForDispatch, LoadForReconcile, Claim, ReadReceipt,
         Converge, Deliver, DeliverNotReached, DeliverReplay, DeliverFirst,
         DeliverThenTimeout, Delivering, LookupAnswers, LookupFails, RecordOutcome,
         FlagUnknown, ReleaseToPending
  <2>2. CASE Silent(w)  BY <1>3, <2>2
  <2>3. CASE Claim(w) \/ FlagUnknown(w) \/ ReleaseToPending(w)
    <3>1. (\E i \in Intents : Delivery!Progress(i)) \/ UNCHANGED Delivery!vars
      BY <1>4, <1>5, <2>3
    <3> QED  BY <2>1, <3>1 DEF Delivery!Next
  <2>4. CASE RecordOutcome(w) \/ Converge(w)
    <3>1. (\E i \in Intents : Delivery!Settle(i)) \/ UNCHANGED Delivery!vars
      BY <1>6, <2>4
    <3> QED  BY <2>1, <3>1 DEF Delivery!Next
  <2>5. CASE DeliverFirst(w) \/ DeliverThenTimeout(w)
    BY <1>7, <2>1, <2>5 DEF Delivery!Next
  <2> QED
    BY <1>10, <2>2, <2>3, <2>4, <2>5 DEF Attempt, Deliver, Silent
<1> HIDE DEF IInv
<1> QED
  BY <1>1, <1>2, <1>3, <1>8, <1>10 DEF Next, Finance, Executor, Silent, Delivery!Next

(***************************************************************************)
(* Executors implement ActionSettlement, the promise finance relies on:    *)
(* one operation per intent, ambiguous intents never dispatched blind, and *)
(* a settled intent that tells what the provider recorded.                 *)
(***************************************************************************)
THEOREM ExecutorImplementsSettlement == Spec => ImplementsSettlement
<1>1. Init => Delivery!Init
  BY DEF Init, Delivery!Init, NotInserted
<1> QED
  BY <1>1, RefinesNext, Inductive, PTL DEF Spec, ImplementsSettlement, Delivery!Spec

\* A step keeps what has settled of an intent.
Final(i) ==
  /\ intent[i].state \in TerminalStates => intent'[i] = intent[i]
  /\ receipt[i] # "none" => receipt'[i] = receipt[i]
  /\ operation[i] # "none" => operation'[i] = operation[i]

LEMMA FinalStep ==
  ASSUME IInv, [Next]_vars, NEW i \in Intents
  PROVE  Final(i)
<1> USE DEF Final, IInv, TerminalStates, NotInserted
<1>1. ASSUME NEW j \in Intents, OpenIntent(j) \/ CancelPending(j)
      PROVE  Final(i)
  BY <1>1 DEF OpenIntent, CancelPending, TypeOK
<1>2. ASSUME NEW w \in Executors, Silent(w)
      PROVE  Final(i)
  BY <1>2, SilentStep DEF store
<1>3. ASSUME NEW w \in Executors,
             \/ Claim(w)         \/ Converge(w) \/ RecordOutcome(w)
             \/ FlagUnknown(w)   \/ ReleaseToPending(w)
      PROVE  Final(i)
  <2>1. seen[w].state \in ActiveStates
    BY <1>3 DEF Claim, Converge, RecordOutcome, FlagUnknown, ReleaseToPending,
               Knowledgeable, Knowledge, ActiveStates
  <2>2. intent'[i] # intent[i] => target[w] = i /\ intent[i] = seen[w]
    BY <1>3 DEF Claim, Converge, RecordOutcome, FlagUnknown, ReleaseToPending,
               Transition, Unchanged, TypeOK
  <2>3. UNCHANGED operation
    BY <1>3 DEF Claim, Converge, RecordOutcome, FlagUnknown, ReleaseToPending
  <2>4. receipt[i] # "none" => receipt'[i] = receipt[i]
    BY <1>3 DEF Claim, Converge, RecordOutcome, FlagUnknown, ReleaseToPending, TypeOK
  <2> QED  BY <2>1, <2>2, <2>3, <2>4 DEF ActiveStates
<1>4. ASSUME NEW w \in Executors, DeliverFirst(w) \/ DeliverThenTimeout(w)
      PROVE  Final(i)
  BY <1>4 DEF DeliverFirst, DeliverThenTimeout, Record, TypeOK
<1>5. CASE UNCHANGED vars
  BY <1>5 DEF vars, store
<1> QED
  BY <1>1, <1>2, <1>3, <1>4, <1>5
     DEF Next, Finance, Executor, Attempt, Deliver, Silent

(***************************************************************************)
(* A settled or canceled intent, its receipt and the provider's operation  *)
(* never change again.                                                     *)
(***************************************************************************)
THEOREM SettlementIsFinal == Spec => SettledIsFinal
<1>1. IInv /\ [Next]_vars => [\A i \in Intents : Final(i)]_vars
  BY FinalStep
<1> QED
  BY <1>1, Inductive, PTL DEF Spec, SettledIsFinal, Final
=============================================================================
