-------------------------- MODULE ServiceLifecycle --------------------------
(***************************************************************************)
(* How the processes of apps/api come up and go down: server.ts and the     *)
(* executor's worker.ts around connectMongoRuntime. Every process           *)
(* provisions the collections they share, reports ready while the database  *)
(* answers its heartbeats, and closes after a signal or an error nobody     *)
(* caught. Processes start side by side, are killed at any await and start  *)
(* again; the database may be away for a while. Of the collections one of   *)
(* each way of provisioning is kept.                                        *)
(***************************************************************************)
EXTENDS Naturals, Sequences

CONSTANTS Processes,
          Executors,              \* the processes that run worker.ts; the others serve HTTP
          Provisioning,           \* collections, in the order in which they are ensured
          Manner,                 \* collection -> "revalidated", "created" or "indexed"
          MaxStarts, MaxOutages   \* bounds

ASSUME ManneredAssumption ==
    /\ Executors \subseteq Processes
    /\ Provisioning \in Seq(DOMAIN Manner)
    /\ \A i \in DOMAIN Provisioning : Manner[Provisioning[i]] \in {"revalidated", "created", "indexed"}

VARIABLES deployment,             \* what the database is and whether it answers
          collections,            \* what there is of each collection
          process,
          starts, outages

lvars == <<deployment, collections, process, starts, outages>>

Shared == {Provisioning[i] : i \in DOMAIN Provisioning}
Absent == [exists |-> FALSE, validator |-> "none", indexed |-> FALSE]

(* Made by an earlier release, or by a start that was cut off. *)
Outdated == [exists |-> TRUE, validator |-> "earlier", indexed |-> FALSE]

Down(ending) == [at |-> "down", next |-> 1, ready |-> FALSE, closed |-> FALSE, opening |-> FALSE, ending |-> ending]

LifecycleInit ==
    /\ deployment \in [transactional : BOOLEAN, answers : {TRUE}]
    /\ collections \in [Shared -> {Absent, Outdated}]
    /\ \A c \in Shared : collections[c] = Outdated => Manner[c] = "revalidated"
    /\ process = [p \in Processes |-> Down("never_started")]
    /\ starts = 0 /\ outages = 0

-----------------------------------------------------------------------------
(* connectMongoRuntime.                                                     *)

Ensuring(p) == Provisioning[process[p].next]

(* Where ensuring the n-th collection begins. *)
Ensure(n) == CASE n > Len(Provisioning) -> "provisioned"
               [] n <= Len(Provisioning) /\ Manner[Provisioning[n]] = "indexed" -> "indexing"
               [] OTHER -> "checking"

(* A plausible slip: what exists was provisioned by whoever made it. *)
AfterExistsTrusted(c) == IF Manner[c] = "revalidated" THEN "modifying" ELSE "provisioned"

(* What follows once the collection is known to exist. *)
AfterExists(c) == IF Manner[c] = "revalidated" THEN "modifying" ELSE "indexing"

Go(p, at) == process' = [process EXCEPT ![p].at = at]

Start(p) ==
    /\ process[p].at = "down" /\ starts < MaxStarts
    /\ starts' = starts + 1
    /\ process' = [process EXCEPT ![p] = [Down("none") EXCEPT !.at = "connecting"]]
    /\ UNCHANGED <<deployment, collections, outages>>

(* A deployment without transactions is refused. *)
Connect(p) ==
    /\ process[p].at = "connecting" /\ deployment.answers
    /\ process' = [process EXCEPT ![p] = IF deployment.transactional THEN [@ EXCEPT !.at = Ensure(1)] ELSE Down("refused")]
    /\ UNCHANGED <<deployment, collections, starts, outages>>

CheckCollection(p) ==
    /\ process[p].at = "checking" /\ deployment.answers
    /\ Go(p, IF collections[Ensuring(p)].exists THEN AfterExists(Ensuring(p)) ELSE "creating")
    /\ UNCHANGED <<deployment, collections, starts, outages>>

(* When another process created it since, NamespaceExists is no error. *)
CreateCollection(p) ==
    LET c == Ensuring(p)
    IN  /\ process[p].at = "creating" /\ deployment.answers
        /\ collections' = IF collections[c].exists THEN collections
                          ELSE [collections EXCEPT ![c] = [exists |-> TRUE, validator |-> "current", indexed |-> FALSE]]
        /\ Go(p, IF collections[c].exists THEN AfterExists(c) ELSE "indexing")
        /\ UNCHANGED <<deployment, starts, outages>>

ModifyCollection(p) ==
    /\ process[p].at = "modifying" /\ deployment.answers
    /\ collections' = [collections EXCEPT ![Ensuring(p)].validator = "current"]
    /\ Go(p, "indexing")
    /\ UNCHANGED <<deployment, starts, outages>>

(* A collection that does not exist is made by its first index. *)
CreateIndexes(p) ==
    /\ process[p].at = "indexing" /\ deployment.answers
    /\ collections' = [collections EXCEPT ![Ensuring(p)] = [@ EXCEPT !.exists = TRUE, !.indexed = TRUE]]
    /\ LET n == process[p].next + 1
       IN  process' = [process EXCEPT ![p] = [@ EXCEPT !.next = n, !.at = Ensure(n)]]
    /\ UNCHANGED <<deployment, starts, outages>>

(* The heartbeats are heeded from now on; a server asks for its port. *)
BecomeReady(p) ==
    /\ process[p].at = "provisioned"
    /\ process' = [process EXCEPT ![p] = [@ EXCEPT !.at = "running", !.ready = TRUE, !.opening = p \notin Executors]]
    /\ UNCHANGED <<deployment, collections, starts, outages>>

StartFails(p) ==
    /\ process[p].at \in {"connecting", "checking", "creating", "modifying", "indexing"} /\ ~deployment.answers
    /\ process' = [process EXCEPT ![p] = Down("start_failed")]
    /\ UNCHANGED <<deployment, collections, starts, outages>>

-----------------------------------------------------------------------------
(* Running and closing.                                                     *)

Heartbeat(p) ==
    /\ process[p].at \in {"running", "stopping", "closing"} /\ ~process[p].closed
    /\ process' = [process EXCEPT ![p].ready = deployment.answers]
    /\ UNCHANGED <<deployment, collections, starts, outages>>

(* runtime.close: the client closes during the steps that follow. *)
CloseRuntime(k, at) == [k EXCEPT !.at = at, !.closed = TRUE, !.ready = FALSE, !.opening = FALSE]

Listen(p, ok) ==
    /\ process[p].at \in {"running", "stopping"} /\ process[p].opening
    /\ process' = [process EXCEPT ![p] = IF ok THEN [@ EXCEPT !.opening = FALSE]
                                         ELSE CloseRuntime(@, IF @.at = "running" THEN "closing" ELSE "stopping")]
    /\ UNCHANGED <<deployment, collections, starts, outages>>

(* A signal, or an error nobody caught: a server lets its requests end      *)
(* first, an executor cuts its pass short.                                  *)
Shutdown(p) ==
    /\ process[p].at = "running"
    /\ process' = [process EXCEPT ![p] = IF p \in Executors THEN CloseRuntime(@, "closing")
                                         ELSE [@ EXCEPT !.at = "stopping", !.ready = FALSE]]
    /\ UNCHANGED <<deployment, collections, starts, outages>>

CloseApp(p) ==
    /\ process[p].at = "stopping"
    /\ process' = [process EXCEPT ![p] = CloseRuntime(@, "closing")]
    /\ UNCHANGED <<deployment, collections, starts, outages>>

(* The client is closed; or closing failed or took longer than the deadline *)
(* of the shutdown; or the process is killed, also by a signal that comes   *)
(* before it handles any.                                                   *)
Exit(p, ending) ==
    /\ CASE ending = "closed" -> process[p].at = "closing"
         [] ending = "forced" -> process[p].at \in {"stopping", "closing"}
         [] ending = "killed" -> process[p].at # "down"
    /\ process' = [process EXCEPT ![p] = Down(ending)]
    /\ UNCHANGED <<deployment, collections, starts, outages>>

Outage == /\ deployment.answers /\ outages < MaxOutages
          /\ deployment' = [deployment EXCEPT !.answers = FALSE] /\ outages' = outages + 1
          /\ UNCHANGED <<collections, process, starts>>

Recovery == /\ ~deployment.answers
            /\ deployment' = [deployment EXCEPT !.answers = TRUE]
            /\ UNCHANGED <<collections, process, starts, outages>>

LifecycleNext ==
    \/ \E p \in Processes :
          \/ Start(p) \/ Connect(p) \/ CheckCollection(p) \/ CreateCollection(p) \/ ModifyCollection(p)
          \/ CreateIndexes(p) \/ BecomeReady(p) \/ StartFails(p)
          \/ Heartbeat(p) \/ Shutdown(p) \/ CloseApp(p)
          \/ \E ok \in BOOLEAN : Listen(p, ok)
          \/ \E ending \in {"closed", "forced", "killed"} : Exit(p, ending)
    \/ Outage \/ Recovery

LifecycleSpec == LifecycleInit /\ [][LifecycleNext]_lvars

-----------------------------------------------------------------------------
(* A process that reports ready may be used: every collection has its       *)
(* indexes and its validator, the one in force where it is updated in       *)
(* place, the deployment has transactions and the runtime is not closed;    *)
(* whichever processes started together or were killed half-way. And no     *)
(* process makes another's start fail: only a database that was away does   *)
(* (runtime.ts:66-105, collections.ts:129-145).                             *)
StartsAreSound ==
    \A p \in Processes :
       /\ process[p].ready =>
            /\ deployment.transactional /\ ~process[p].closed
            /\ \A c \in Shared : /\ collections[c].indexed
                                 /\ Manner[c] = "revalidated" => collections[c].validator = "current"
                                 /\ Manner[c] = "created" => collections[c].validator # "none"
       /\ process[p].ending = "start_failed" => outages > 0

(* A process that shuts down is not ready (readiness.ts:7-12). *)
NotReadyWhileStopping ==
    \A p \in Processes : process[p].at \in {"stopping", "closing"} => ~process[p].ready
=============================================================================
