---------------------------- MODULE ServiceProofs ----------------------------
(***************************************************************************)
(* Six parts of the service over MongoDB.                                  *)
(*                                                                         *)
(* Starting: a process that reports ready may be used, for any processes,  *)
(* collections and outages.  What a process has provisioned stays so,      *)
(* because every step of any other one on the same collection leaves it at *)
(* least as complete.                                                      *)
(*                                                                         *)
(* Rules: a stricter input never gives a milder outcome, for every policy. *)
(*                                                                         *)
(* Commands: a claim holds the answer to its command, whatever is sent     *)
(* again, and a decision that commits met a guard that still has the       *)
(* revision and the epoch of the policy that decided.                      *)
(*                                                                         *)
(* Allowances: an approval without a human fits, with what others were     *)
(* granted under its policy, every limit of the rules that apply to it.    *)
(*                                                                         *)
(* Imports: a source object has one current posting, its newest, and the   *)
(* ledger has that one's amount.                                           *)
(*                                                                         *)
(* Forecasts: the snapshots of a scope are a chain, a reader finds the one *)
(* it was pointed at, and a payment that is committed to is counted once.  *)
(***************************************************************************)
EXTENDS FinanceCommands, RuleCases, ServiceLifecycle, SourceImports, ForecastSnapshots, FiniteSums, TLAPS

-----------------------------------------------------------------------------
(***************************************************************************)
(* Starting: ServiceLifecycle.                                             *)
(***************************************************************************)
Provisions == {"checking", "creating", "modifying", "indexing"}
Serving    == {"running", "stopping", "closing"}
Endings    == {"never_started", "none", "refused", "start_failed", "closed", "forced", "killed"}

Process ==
  [at : {"down", "connecting", "provisioned"} \cup Provisions \cup Serving, next : Nat,
   ready : BOOLEAN, closed : BOOLEAN, opening : BOOLEAN, ending : Endings]

Collection == [exists : BOOLEAN, validator : {"none", "earlier", "current"}, indexed : BOOLEAN]

(* The collection refuses what it should, and may be used.                  *)
Validated(k, c) == /\ Manner[c] = "revalidated" => k.validator = "current"
                   /\ Manner[c] = "created" => k.validator # "none"
Usable(k, c)    == k.indexed /\ Validated(k, c)

(* What was ensured before the n-th collection.                             *)
Behind(n, cs) == \A i \in DOMAIN Provisioning : i < n => Usable(cs[Provisioning[i]], Provisioning[i])

(* Nothing is lost.                                                         *)
NoWorse(before, after) ==
  \A c \in Shared : /\ Validated(before[c], c) => Validated(after[c], c)
                    /\ Usable(before[c], c) => Usable(after[c], c)

(* What a process may be, given the collections, whether the deployment has *)
(* transactions and how often it was away.                                  *)
Sound(k, cs, transactional, away) ==
  /\ k \in Process
  /\ k.ready => k.at \in Serving /\ ~k.closed
  /\ k.at \notin Serving => ~k.closed
  /\ k.at \in Provisions \cup Serving \cup {"provisioned"} => transactional = TRUE
  /\ k.at \in Provisions => k.next \in DOMAIN Provisioning /\ Behind(k.next, cs)
  /\ k.at \in Serving \cup {"provisioned"} => \A c \in Shared : Usable(cs[c], c)
  /\ k.at = "modifying" => Manner[Provisioning[k.next]] = "revalidated"
  /\ k.at = "indexing" => Validated(cs[Provisioning[k.next]], Provisioning[k.next])
  /\ k.at \in {"checking", "creating"} => Manner[Provisioning[k.next]] # "indexed"
  /\ k.at # "down" => k.ending = "none"
  /\ k.at = "connecting" => k.next = 1
  /\ k.ending = "start_failed" => away > 0

(* A collection that a start has only begun.                                *)
Begun(k, c) == /\ k \in Collection
               /\ k.indexed => k.exists
               /\ k.exists /\ Manner[c] = "created" => k.validator # "none"

LifecycleInv ==
  /\ deployment \in [transactional : BOOLEAN, answers : BOOLEAN]
  /\ collections \in [Shared -> Collection]
  /\ \A c \in Shared : Begun(collections[c], c)
  /\ process = [p \in Processes |-> process[p]]
  /\ \A p \in Processes : Sound(process[p], collections, deployment.transactional, outages)
  /\ outages \in Nat
  /\ ~deployment.answers => outages > 0

LEMMA ProvisioningIsShared ==
  /\ Len(Provisioning) \in Nat /\ DOMAIN Provisioning = 1 .. Len(Provisioning)
  /\ \A i \in DOMAIN Provisioning : /\ Provisioning[i] \in Shared
                                    /\ Manner[Provisioning[i]] \in {"revalidated", "created", "indexed"}
  /\ \A c \in Shared : \E i \in DOMAIN Provisioning : c = Provisioning[i]
BY ManneredAssumption DEF Shared

LEMMA DownIsSound ==
  ASSUME NEW ending \in Endings, NEW cs, NEW transactional, NEW away, ending = "start_failed" => away > 0
  PROVE  Down(ending) \in Process /\ Sound(Down(ending), cs, transactional, away)
BY DEF Down, Sound, Process, Provisions, Serving

LEMMA InitLifecycle == LifecycleInit => LifecycleInv
<1> SUFFICES ASSUME LifecycleInit PROVE LifecycleInv
  OBVIOUS
<1>1. "never_started" \in Endings
  BY DEF Endings
<1>2. \A p \in Processes : Sound(process[p], collections, deployment.transactional, outages)
  BY <1>1, DownIsSound DEF LifecycleInit
<1>3. Absent \in Collection /\ Outdated \in Collection
  BY DEF Absent, Outdated, Collection
<1>4. /\ collections \in [Shared -> Collection]
      /\ \A c \in Shared : collections[c] = Absent \/ (collections[c] = Outdated /\ Manner[c] = "revalidated")
  BY <1>3 DEF LifecycleInit
<1>5. \A c \in Shared : Begun(collections[c], c)
  <2> SUFFICES ASSUME NEW c \in Shared PROVE Begun(collections[c], c)
    OBVIOUS
  <2>1. CASE collections[c] = Absent
    BY <2>1, <1>3 DEF Begun, Absent
  <2>2. CASE collections[c] = Outdated /\ Manner[c] = "revalidated"
    BY <2>2, <1>3 DEF Begun, Outdated
  <2> QED
    BY <2>1, <2>2, <1>4
<1> QED
  BY <1>2, <1>4, <1>5 DEF LifecycleInit, LifecycleInv

(* Collections that lose nothing leave every process sound.                 *)
LEMMA SoundStays ==
  ASSUME NEW k, NEW before, NEW after, NEW transactional, NEW away \in Nat, NEW later \in Nat, away <= later,
         Sound(k, before, transactional, away), NoWorse(before, after)
  PROVE  Sound(k, after, transactional, later)
<1>1. \A n : Behind(n, before) => Behind(n, after)
  BY ProvisioningIsShared DEF Behind, NoWorse
<1>2. k.at = "indexing" => Validated(after[Provisioning[k.next]], Provisioning[k.next])
  BY ProvisioningIsShared DEF Sound, Provisions, NoWorse
<1>3. k.ending = "start_failed" => later > 0
  BY DEF Sound
<1>4. k.at \in Serving \cup {"provisioned"} => \A c \in Shared : Usable(after[c], c)
  BY DEF Sound, NoWorse
<1> QED
  BY <1>1, <1>2, <1>3, <1>4 DEF Sound

(* A step of one process, on at most one collection.                        *)
LEMMA OneProcess ==
  ASSUME LifecycleInv, UNCHANGED <<deployment, outages>>, NEW p \in Processes, NEW k,
         process' = [process EXCEPT ![p] = k],
         collections' \in [Shared -> Collection],
         \A c \in Shared : Begun(collections'[c], c),
         NoWorse(collections, collections'),
         Sound(k, collections', deployment.transactional, outages)
  PROVE  LifecycleInv'
<1>1. \A q \in Processes : process'[q] = IF q = p THEN k ELSE process[q]
  BY DEF LifecycleInv
<1>2. outages \in Nat /\ outages <= outages
  BY DEF LifecycleInv
<1>3. ASSUME NEW q \in Processes
      PROVE  Sound(process'[q], collections', deployment.transactional, outages)
  <2>1. CASE q = p
    BY <1>1, <2>1
  <2>2. CASE q # p
    <3>1. Sound(process[q], collections, deployment.transactional, outages)
      BY DEF LifecycleInv
    <3> QED
      BY <1>1, <1>2, <2>2, <3>1, SoundStays
  <2> QED
    BY <2>1, <2>2
<1>4. \A q \in Processes : Sound(process'[q], collections', deployment'.transactional, outages')
  <2>1. deployment' = deployment /\ outages' = outages
    OBVIOUS
  <2> QED
    BY <1>3, <2>1
<1>5. process' = [q \in Processes |-> process'[q]]
  BY DEF LifecycleInv
<1> QED
  BY <1>4, <1>5 DEF LifecycleInv

LEMMA OnlyProcess ==
  ASSUME LifecycleInv, UNCHANGED <<deployment, outages, collections>>, NEW p \in Processes, NEW k,
         process' = [process EXCEPT ![p] = k],
         Sound(k, collections, deployment.transactional, outages)
  PROVE  LifecycleInv'
<1>1. /\ collections' \in [Shared -> Collection]
      /\ \A c \in Shared : Begun(collections'[c], c)
      /\ NoWorse(collections, collections')
  BY DEF LifecycleInv, NoWorse
<1> QED
  BY <1>1, OneProcess

-----------------------------------------------------------------------------
(***************************************************************************)
(* Provisioning.                                                           *)
(***************************************************************************)

(* Where a process goes next, when what is behind it may be used.           *)
LEMMA EnsureIsSound ==
  ASSUME NEW k \in Process, NEW n \in Nat \ {0}, n <= Len(Provisioning) + 1, NEW cs, NEW away,
         k.ready = FALSE, k.closed = FALSE, k.ending = "none",
         Behind(n, cs)
  PROVE  Sound([k EXCEPT !.next = n, !.at = Ensure(n)], cs, TRUE, away)
<1> DEFINE later == [k EXCEPT !.next = n, !.at = Ensure(n)]
<1>1. Ensure(n) \in {"provisioned", "indexing", "checking"}
  BY ProvisioningIsShared DEF Ensure
<1>2. later \in Process
  BY <1>1 DEF Process, Provisions
<1>3. /\ later.at = Ensure(n) /\ later.next = n /\ later.ready = k.ready
      /\ later.closed = k.closed /\ later.ending = k.ending
  BY DEF Process
<1> HIDE DEF later
<1>4. ASSUME n > Len(Provisioning) PROVE Sound(later, cs, TRUE, away)
  <2>1. Ensure(n) = "provisioned"
    BY <1>4 DEF Ensure
  <2>2. \A c \in Shared : Usable(cs[c], c)
    BY <1>4, ProvisioningIsShared DEF Behind
  <2> QED
    BY <1>2, <1>3, <2>1, <2>2 DEF Sound, Provisions, Serving
<1>5. ASSUME n <= Len(Provisioning), Manner[Provisioning[n]] = "indexed" PROVE Sound(later, cs, TRUE, away)
  <2>1. Ensure(n) = "indexing"
    BY <1>5, ProvisioningIsShared DEF Ensure
  <2>2. n \in DOMAIN Provisioning
    BY <1>5, ProvisioningIsShared
  <2> QED
    BY <1>2, <1>3, <1>5, <2>1, <2>2 DEF Sound, Provisions, Serving, Validated
<1>6. ASSUME n <= Len(Provisioning), Manner[Provisioning[n]] # "indexed" PROVE Sound(later, cs, TRUE, away)
  <2>1. Ensure(n) = "checking"
    BY <1>6, ProvisioningIsShared DEF Ensure
  <2>2. n \in DOMAIN Provisioning
    BY <1>6, ProvisioningIsShared
  <2> QED
    BY <1>2, <1>3, <1>6, <2>1, <2>2 DEF Sound, Provisions, Serving
<1>7. Sound(later, cs, TRUE, away)
  <2>1. n > Len(Provisioning) \/ n <= Len(Provisioning)
    BY ProvisioningIsShared
  <2> QED
    BY <2>1, <1>4, <1>5, <1>6
<1> QED
  BY <1>7 DEF later

(* What a process that provisions knows.                                    *)
LEMMA Provisioner ==
  ASSUME LifecycleInv, NEW p \in Processes, process[p].at \in Provisions
  PROVE  /\ process[p] \in Process /\ ~process[p].ready /\ ~process[p].closed
         /\ deployment.transactional = TRUE
         /\ process[p].next \in DOMAIN Provisioning /\ process[p].next \in Nat
         /\ Ensuring(p) = Provisioning[process[p].next] /\ Ensuring(p) \in Shared
         /\ Manner[Ensuring(p)] \in {"revalidated", "created", "indexed"}
         /\ Sound(process[p], collections, TRUE, outages)
         /\ Begun(collections[Ensuring(p)], Ensuring(p))
<1>1. Sound(process[p], collections, deployment.transactional, outages)
  BY DEF LifecycleInv
<1>2. process[p] \in Process /\ process[p].next \in DOMAIN Provisioning /\ deployment.transactional = TRUE
  BY <1>1 DEF Sound
<1> QED
  BY <1>1, <1>2, ProvisioningIsShared DEF Sound, Ensuring, Provisions, Serving, Process, LifecycleInv

(* A move within one collection.                                            *)
LEMMA MoveIsSound ==
  ASSUME NEW k \in Process, NEW at \in Provisions, NEW cs, NEW away,
         Sound(k, cs, TRUE, away), k.at \in Provisions,
         at = "modifying" => Manner[Provisioning[k.next]] = "revalidated",
         at = "indexing" => Validated(cs[Provisioning[k.next]], Provisioning[k.next]),
         at \in {"checking", "creating"} => Manner[Provisioning[k.next]] # "indexed"
  PROVE  Sound([k EXCEPT !.at = at], cs, TRUE, away)
<1> DEFINE later == [k EXCEPT !.at = at]
<1>1. later \in Process
  BY DEF Process
<1>2. /\ later.at = at /\ later.next = k.next /\ later.ready = k.ready
      /\ later.closed = k.closed /\ later.ending = k.ending
  BY DEF Process
<1> HIDE DEF later
<1>3. at \notin Serving \cup {"provisioned", "connecting"} /\ k.at \notin Serving \cup {"down"}
  BY DEF Provisions, Serving
<1>4. Sound(later, cs, TRUE, away)
  BY <1>1, <1>2, <1>3 DEF Sound
<1> QED
  BY <1>4 DEF later

-----------------------------------------------------------------------------
(***************************************************************************)
(* The steps.                                                              *)
(***************************************************************************)
LEMMA StartLifecycle ==
  ASSUME LifecycleInv, NEW p \in Processes, Start(p)
  PROVE  LifecycleInv'
<1> DEFINE k == [Down("none") EXCEPT !.at = "connecting"]
<1>1. /\ k \in Process /\ k.at = "connecting" /\ k.next = 1
      /\ ~k.ready /\ ~k.closed /\ k.ending = "none"
  <2>1. Down("none") \in Process
    BY DownIsSound DEF Endings
  <2>2. /\ Down("none").next = 1 /\ ~Down("none").ready /\ ~Down("none").closed
        /\ Down("none").ending = "none"
    BY DEF Down
  <2> HIDE DEF Down
  <2> QED
    BY <2>1, <2>2 DEF Process
<1> HIDE DEF k
<1>2. Sound(k, collections, deployment.transactional, outages)
  BY <1>1 DEF Sound, Provisions, Serving
<1>3. process' = [process EXCEPT ![p] = k]
  BY DEF Start, k
<1> QED
  BY <1>2, <1>3, OnlyProcess DEF Start

LEMMA ConnectLifecycle ==
  ASSUME LifecycleInv, NEW p \in Processes, Connect(p)
  PROVE  LifecycleInv'
<1>1. Sound(process[p], collections, deployment.transactional, outages) /\ deployment.transactional \in BOOLEAN
  BY DEF LifecycleInv
<1>2. CASE deployment.transactional = TRUE
  <2> DEFINE k == [process[p] EXCEPT !.next = 1, !.at = Ensure(1)]
  <2>1. process[p] \in Process /\ process[p].ready = FALSE /\ process[p].closed = FALSE
    BY <1>1 DEF Sound, Connect, Process, Serving
  <2>2. process[p].next = 1 /\ process[p].ending = "none" /\ process[p].at = "connecting"
    BY <1>1 DEF Sound, Connect
  <2>3. process' = [process EXCEPT ![p] = [@ EXCEPT !.at = Ensure(1)]]
    BY <1>2 DEF Connect
  <2>4. k = [process[p] EXCEPT !.at = Ensure(1)]
    BY <2>1, <2>2 DEF Process
  <2>5. Behind(1, collections) /\ 1 \in Nat \ {0} /\ 1 <= Len(Provisioning) + 1
    BY ProvisioningIsShared DEF Behind
  <2>6. Sound(k, collections, deployment.transactional, outages)
    <3>1. Sound(k, collections, TRUE, outages)
      BY <2>1, <2>2, <2>5, EnsureIsSound
    <3> HIDE DEF k
    <3> QED  BY <1>2, <3>1
  <2> HIDE DEF k
  <2> QED
    BY <2>3, <2>4, <2>6, OnlyProcess DEF Connect
<1>3. CASE deployment.transactional = FALSE
  <2>1. process' = [process EXCEPT ![p] = Down("refused")]
    BY <1>3 DEF Connect
  <2>2. Sound(Down("refused"), collections, deployment.transactional, outages)
    BY DownIsSound DEF Endings
  <2> QED
    BY <2>1, <2>2, OnlyProcess DEF Connect
<1> QED
  BY <1>1, <1>2, <1>3

LEMMA CheckLifecycle ==
  ASSUME LifecycleInv, NEW p \in Processes, CheckCollection(p)
  PROVE  LifecycleInv'
<1> DEFINE c == Ensuring(p)
           at == IF collections[c].exists THEN AfterExists(c) ELSE "creating"
<1>1. process[p].at = "checking" /\ process[p].at \in Provisions
  BY DEF CheckCollection, Provisions
<1>2. at \in Provisions
  BY DEF AfterExists, Provisions
<1>3. Manner[c] # "indexed" /\ c = Provisioning[process[p].next]
  BY <1>1, Provisioner DEF Sound
<1>4. at = "modifying" => Manner[c] = "revalidated"
  BY DEF AfterExists
<1>5. at = "indexing" => Validated(collections[c], c)
  BY <1>1, <1>3, Provisioner DEF AfterExists, Validated, Begun
<1> HIDE DEF at, c
<1>6. Sound([process[p] EXCEPT !.at = at], collections, deployment.transactional, outages)
  BY <1>1, <1>2, <1>3, <1>4, <1>5, Provisioner, MoveIsSound
<1>7. process' = [process EXCEPT ![p] = [process[p] EXCEPT !.at = at]]
  BY DEF CheckCollection, Go, at, c, LifecycleInv
<1> QED
  BY <1>6, <1>7, OnlyProcess DEF CheckCollection

LEMMA CreateLifecycle ==
  ASSUME LifecycleInv, NEW p \in Processes, CreateCollection(p)
  PROVE  LifecycleInv'
<1> DEFINE c == Ensuring(p)
           made == [exists |-> TRUE, validator |-> "current", indexed |-> FALSE]
           at == IF collections[c].exists THEN AfterExists(c) ELSE "indexing"
           k == [process[p] EXCEPT !.at = at]
<1>1. process[p].at = "creating" /\ process[p].at \in Provisions
  BY DEF CreateCollection, Provisions
<1>2. at \in Provisions
  BY DEF AfterExists, Provisions
<1>3. Manner[c] # "indexed" /\ c = Provisioning[process[p].next] /\ c \in Shared
  BY <1>1, Provisioner DEF Sound
<1>4. at = "modifying" => Manner[c] = "revalidated"
  BY DEF AfterExists
<1>5. process' = [process EXCEPT ![p] = k]
  BY DEF CreateCollection, Go, LifecycleInv
<1>6. collections \in [Shared -> Collection] /\ collections[c] \in Collection
  BY <1>3 DEF LifecycleInv
<1>7. CASE collections[c].exists
  <2>1. at = "indexing" => Validated(collections[c], c)
    BY <1>1, <1>3, <1>7, Provisioner DEF AfterExists, Validated, Begun
  <2> HIDE DEF at, c
  <2>2. Sound(k, collections, deployment.transactional, outages)
    BY <1>1, <1>2, <1>3, <1>4, <2>1, Provisioner, MoveIsSound DEF k
  <2>3. collections' = collections
    BY <1>7 DEF CreateCollection, c
  <2> QED
    BY <1>5, <2>2, <2>3, OnlyProcess DEF CreateCollection
<1>8. CASE ~collections[c].exists
  <2>1. collections' = [collections EXCEPT ![c] = made]
    BY <1>8 DEF CreateCollection
  <2>2. made \in Collection /\ Begun(made, c) /\ Validated(made, c)
    BY DEF Collection, Begun, Validated
  <2>3. at = "indexing"
    BY <1>8
  <2>4. ~collections[c].indexed
    BY <1>1, <1>8, Provisioner DEF Begun
  <2> HIDE DEF made, at, c
  <2>5. /\ collections' \in [Shared -> Collection] /\ collections'[c] = made
        /\ \A d \in Shared \ {c} : collections'[d] = collections[d]
    BY <1>3, <1>6, <2>1, <2>2
  <2>6. NoWorse(collections, collections')
    BY <2>2, <2>4, <2>5 DEF NoWorse, Usable
  <2>7. \A d \in Shared : Begun(collections'[d], d)
    BY <2>2, <2>5 DEF LifecycleInv
  <2>8. Sound(process[p], collections', TRUE, outages)
    <3>1. outages \in Nat /\ outages <= outages
      BY DEF LifecycleInv
    <3> QED
      BY <1>1, <2>6, <3>1, Provisioner, SoundStays
  <2>9. Sound(k, collections', deployment.transactional, outages)
    BY <1>1, <1>2, <1>3, <1>4, <2>2, <2>3, <2>5, <2>8, Provisioner, MoveIsSound DEF k
  <2> QED
    BY <1>5, <2>5, <2>6, <2>7, <2>9, OneProcess DEF CreateCollection
<1> QED
  BY <1>7, <1>8

LEMMA ModifyLifecycle ==
  ASSUME LifecycleInv, NEW p \in Processes, ModifyCollection(p)
  PROVE  LifecycleInv'
<1> DEFINE c == Ensuring(p)
           modified == [collections[c] EXCEPT !.validator = "current"]
           k == [process[p] EXCEPT !.at = "indexing"]
<1>1. process[p].at = "modifying" /\ process[p].at \in Provisions /\ "indexing" \in Provisions
  BY DEF ModifyCollection, Provisions
<1>2. c = Provisioning[process[p].next] /\ c \in Shared
  BY <1>1, Provisioner
<1>3. process' = [process EXCEPT ![p] = k]
  BY DEF ModifyCollection, Go, LifecycleInv
<1>4. collections \in [Shared -> Collection] /\ collections[c] \in Collection /\ Begun(collections[c], c)
  BY <1>2 DEF LifecycleInv
<1>5. collections' = [collections EXCEPT ![c] = modified]
  BY <1>2, <1>4 DEF ModifyCollection
<1>6. /\ modified \in Collection /\ Begun(modified, c) /\ Validated(modified, c)
      /\ modified.indexed = collections[c].indexed
  BY <1>4 DEF Collection, Begun, Validated
<1> HIDE DEF modified, c
<1>7. /\ collections' \in [Shared -> Collection] /\ collections'[c] = modified
      /\ \A d \in Shared \ {c} : collections'[d] = collections[d]
  BY <1>2, <1>4, <1>5, <1>6
<1>8. NoWorse(collections, collections')
  BY <1>6, <1>7 DEF NoWorse, Usable
<1>9. \A d \in Shared : Begun(collections'[d], d)
  BY <1>6, <1>7 DEF LifecycleInv
<1>10. Sound(process[p], collections', TRUE, outages)
  <2>1. outages \in Nat /\ outages <= outages
    BY DEF LifecycleInv
  <2> QED
    BY <1>1, <1>8, <2>1, Provisioner, SoundStays
<1>11. Sound(k, collections', deployment.transactional, outages)
  <2>1. process[p] \in Process /\ deployment.transactional = TRUE
    BY <1>1, Provisioner
  <2>2. Validated(collections'[Provisioning[process[p].next]], Provisioning[process[p].next])
    BY <1>2, <1>6, <1>7
  <2>3. Sound(k, collections', TRUE, outages)
    BY <1>1, <1>10, <2>1, <2>2, MoveIsSound
  <2> QED
    BY <2>1, <2>3
<1> QED
  BY <1>3, <1>7, <1>8, <1>9, <1>11, OneProcess DEF ModifyCollection

LEMMA IndexLifecycle ==
  ASSUME LifecycleInv, NEW p \in Processes, CreateIndexes(p)
  PROVE  LifecycleInv'
<1> DEFINE c == Ensuring(p)
           n == process[p].next + 1
           indexed == [collections[c] EXCEPT !.exists = TRUE, !.indexed = TRUE]
           k == [process[p] EXCEPT !.next = n, !.at = Ensure(n)]
<1>1. process[p].at = "indexing" /\ process[p].at \in Provisions
  BY DEF CreateIndexes, Provisions
<1>2. /\ c = Provisioning[process[p].next] /\ c \in Shared
      /\ process[p].next \in DOMAIN Provisioning /\ process[p].next \in Nat
      /\ Validated(collections[c], c)
      /\ process[p] \in Process /\ process[p].ending = "none"
      /\ process[p].ready = FALSE /\ process[p].closed = FALSE
  BY <1>1, Provisioner DEF Sound, Process
<1>3. process' = [process EXCEPT ![p] = k]
  BY DEF CreateIndexes, LifecycleInv
<1>4. collections \in [Shared -> Collection] /\ collections[c] \in Collection /\ Begun(collections[c], c)
  BY <1>2 DEF LifecycleInv
<1>5. collections' = [collections EXCEPT ![c] = indexed]
  BY <1>2, <1>4 DEF CreateIndexes
<1>6. /\ indexed \in Collection /\ Begun(indexed, c) /\ Usable(indexed, c) /\ Validated(indexed, c)
  BY <1>2, <1>4 DEF Collection, Begun, Validated, Usable
<1> HIDE DEF indexed, c
<1>7. /\ collections' \in [Shared -> Collection] /\ collections'[c] = indexed
      /\ \A d \in Shared \ {c} : collections'[d] = collections[d]
  BY <1>2, <1>4, <1>5, <1>6
<1>8. NoWorse(collections, collections')
  BY <1>6, <1>7 DEF NoWorse
<1>9. \A d \in Shared : Begun(collections'[d], d)
  BY <1>6, <1>7 DEF LifecycleInv
<1>10. Sound(process[p], collections', TRUE, outages)
  <2>1. outages \in Nat /\ outages <= outages
    BY DEF LifecycleInv
  <2> QED
    BY <1>1, <1>8, <2>1, Provisioner, SoundStays
<1>11. Behind(n, collections')
  <2>1. Behind(process[p].next, collections')
    BY <1>1, <1>10 DEF Sound
  <2>2. ASSUME NEW i \in DOMAIN Provisioning, i < n
        PROVE  i < process[p].next \/ Provisioning[i] = c
    BY <1>2, <2>2, ProvisioningIsShared
  <2> QED
    BY <1>6, <1>7, <2>1, <2>2 DEF Behind
<1>12. n \in Nat \ {0} /\ n <= Len(Provisioning) + 1
  BY <1>2, ProvisioningIsShared
<1> HIDE DEF n
<1>13. Sound(k, collections', TRUE, outages)
  BY <1>2, <1>11, <1>12, EnsureIsSound
<1>14. deployment.transactional = TRUE
  BY <1>1, Provisioner
<1> HIDE DEF k
<1> QED
  BY <1>3, <1>7, <1>8, <1>9, <1>13, <1>14, OneProcess DEF CreateIndexes

LEMMA ReadyLifecycle ==
  ASSUME LifecycleInv, NEW p \in Processes, BecomeReady(p)
  PROVE  LifecycleInv'
<1> DEFINE k == [process[p] EXCEPT !.at = "running", !.ready = TRUE, !.opening = p \notin Executors]
<1>1. Sound(process[p], collections, deployment.transactional, outages) /\ process[p].at = "provisioned"
  BY DEF LifecycleInv, BecomeReady
<1>2. process[p] \in Process
  BY <1>1 DEF Sound
<1>3. (p \notin Executors) \in BOOLEAN
  OBVIOUS
<1>4. k \in Process
  BY <1>2, <1>3 DEF Process, Serving
<1>5. /\ k.at = "running" /\ k.closed = process[p].closed /\ k.ending = process[p].ending
  BY <1>2 DEF Process
<1>6. process' = [process EXCEPT ![p] = k]
  BY DEF BecomeReady
<1> HIDE DEF k
<1>7. Sound(k, collections, deployment.transactional, outages)
  BY <1>1, <1>4, <1>5 DEF Sound, Provisions, Serving
<1> QED
  BY <1>6, <1>7, OnlyProcess DEF BecomeReady

LEMMA FailLifecycle ==
  ASSUME LifecycleInv, NEW p \in Processes, StartFails(p)
  PROVE  LifecycleInv'
<1>1. outages > 0
  BY DEF LifecycleInv, StartFails
<1>2. Sound(Down("start_failed"), collections, deployment.transactional, outages)
  BY <1>1, DownIsSound DEF Endings
<1> QED
  BY <1>2, OnlyProcess DEF StartFails

(* A process that serves goes on serving, or is closed.                     *)
LEMMA ServingIsSound ==
  ASSUME LifecycleInv, NEW p \in Processes, process[p].at \in Serving, NEW k \in Process,
         k.at \in Serving, k.next = process[p].next, k.ending = process[p].ending, k.ready => ~k.closed
  PROVE  Sound(k, collections, deployment.transactional, outages)
<1>1. Sound(process[p], collections, deployment.transactional, outages)
  BY DEF LifecycleInv
<1>2. k.at \notin Provisions \cup {"connecting", "provisioned", "down"} /\ process[p].at \notin {"down"}
  BY DEF Provisions, Serving
<1>3. deployment.transactional = TRUE /\ \A c \in Shared : Usable(collections[c], c)
  BY <1>1 DEF Sound
<1>4. k.ending = "none"
  BY <1>1, <1>2 DEF Sound
<1> QED
  BY <1>2, <1>3, <1>4 DEF Sound, Provisions

LEMMA ProcessTypes ==
  ASSUME LifecycleInv, NEW p \in Processes
  PROVE  process[p] \in Process
BY DEF LifecycleInv, Sound

LEMMA HeartbeatLifecycle ==
  ASSUME LifecycleInv, NEW p \in Processes, Heartbeat(p)
  PROVE  LifecycleInv'
<1> DEFINE k == [process[p] EXCEPT !.ready = deployment.answers]
<1>1. process[p] \in Process /\ deployment.answers \in BOOLEAN
  BY ProcessTypes DEF LifecycleInv
<1>2. /\ k \in Process /\ k.at = process[p].at /\ k.next = process[p].next
      /\ k.ending = process[p].ending /\ k.closed = process[p].closed
  BY <1>1 DEF Process
<1>3. process[p].at \in Serving /\ ~process[p].closed
  BY DEF Heartbeat, Serving
<1>4. process' = [process EXCEPT ![p] = k]
  BY <1>1 DEF Heartbeat
<1> HIDE DEF k
<1>5. Sound(k, collections, deployment.transactional, outages)
  BY <1>2, <1>3, ServingIsSound
<1> QED
  BY <1>4, <1>5, OnlyProcess DEF Heartbeat

LEMMA CloseIsSound ==
  ASSUME LifecycleInv, NEW p \in Processes, process[p].at \in Serving, NEW at \in Serving
  PROVE  Sound(CloseRuntime(process[p], at), collections, deployment.transactional, outages)
<1> DEFINE k == CloseRuntime(process[p], at)
<1>1. process[p] \in Process
  BY ProcessTypes
<1>2. /\ k \in Process /\ k.at = at /\ k.next = process[p].next
      /\ k.ending = process[p].ending /\ k.ready = FALSE
  BY <1>1 DEF CloseRuntime, Process
<1> HIDE DEF k
<1>3. Sound(k, collections, deployment.transactional, outages)
  BY <1>2, ServingIsSound
<1> QED
  BY <1>3 DEF k

LEMMA ListenLifecycle ==
  ASSUME LifecycleInv, NEW p \in Processes, NEW ok \in BOOLEAN, Listen(p, ok)
  PROVE  LifecycleInv'
<1>1. process[p].at \in Serving /\ process[p] \in Process
  BY ProcessTypes DEF Listen, Serving
<1>2. CASE ok = TRUE
  <2> DEFINE k == [process[p] EXCEPT !.opening = FALSE]
  <2>1. /\ k \in Process /\ k.at = process[p].at /\ k.next = process[p].next
        /\ k.ending = process[p].ending /\ k.ready = process[p].ready /\ k.closed = process[p].closed
    BY <1>1 DEF Process
  <2>2. process' = [process EXCEPT ![p] = k]
    BY <1>2 DEF Listen
  <2>3. process[p].ready => ~process[p].closed
    BY DEF LifecycleInv, Sound
  <2> HIDE DEF k
  <2>4. Sound(k, collections, deployment.transactional, outages)
    BY <1>1, <2>1, <2>3, ServingIsSound
  <2> QED
    BY <2>2, <2>4, OnlyProcess DEF Listen
<1>3. CASE ok = FALSE
  <2> DEFINE at == IF process[p].at = "running" THEN "closing" ELSE "stopping"
  <2>1. process' = [process EXCEPT ![p] = CloseRuntime(process[p], at)]
    BY <1>3 DEF Listen, LifecycleInv
  <2>2. at \in Serving
    BY DEF Serving
  <2> HIDE DEF at
  <2>3. Sound(CloseRuntime(process[p], at), collections, deployment.transactional, outages)
    BY <1>1, <2>2, CloseIsSound
  <2> QED
    BY <2>1, <2>3, OnlyProcess DEF Listen
<1> QED
  BY <1>2, <1>3

LEMMA ShutdownLifecycle ==
  ASSUME LifecycleInv, NEW p \in Processes, Shutdown(p)
  PROVE  LifecycleInv'
<1>1. process[p].at \in Serving /\ process[p] \in Process
  BY ProcessTypes DEF Shutdown, Serving
<1>2. CASE p \in Executors
  <2>1. process' = [process EXCEPT ![p] = CloseRuntime(process[p], "closing")]
    BY <1>2 DEF Shutdown, LifecycleInv
  <2>2. Sound(CloseRuntime(process[p], "closing"), collections, deployment.transactional, outages)
    BY <1>1, CloseIsSound DEF Serving
  <2> QED
    BY <2>1, <2>2, OnlyProcess DEF Shutdown
<1>3. CASE p \notin Executors
  <2> DEFINE k == [process[p] EXCEPT !.at = "stopping", !.ready = FALSE]
  <2>1. /\ k \in Process /\ k.at \in Serving /\ k.next = process[p].next
        /\ k.ending = process[p].ending /\ k.ready = FALSE
    BY <1>1 DEF Process, Serving
  <2>2. process' = [process EXCEPT ![p] = k]
    BY <1>3 DEF Shutdown
  <2> HIDE DEF k
  <2>3. Sound(k, collections, deployment.transactional, outages)
    BY <1>1, <2>1, ServingIsSound
  <2> QED
    BY <2>2, <2>3, OnlyProcess DEF Shutdown
<1> QED
  BY <1>2, <1>3

LEMMA CloseAppLifecycle ==
  ASSUME LifecycleInv, NEW p \in Processes, CloseApp(p)
  PROVE  LifecycleInv'
<1>1. process[p].at \in Serving /\ "closing" \in Serving
  BY DEF CloseApp, Serving
<1>2. process' = [process EXCEPT ![p] = CloseRuntime(process[p], "closing")]
  BY DEF CloseApp, LifecycleInv
<1>3. Sound(CloseRuntime(process[p], "closing"), collections, deployment.transactional, outages)
  BY <1>1, CloseIsSound
<1> QED
  BY <1>2, <1>3, OnlyProcess DEF CloseApp

LEMMA ExitLifecycle ==
  ASSUME LifecycleInv, NEW p \in Processes, NEW ending \in {"closed", "forced", "killed"}, Exit(p, ending)
  PROVE  LifecycleInv'
<1>1. Sound(Down(ending), collections, deployment.transactional, outages)
  BY DownIsSound DEF Endings
<1>2. process' = [process EXCEPT ![p] = Down(ending)] /\ UNCHANGED <<deployment, outages, collections>>
  BY DEF Exit
<1> QED
  BY <1>1, <1>2, OnlyProcess

(* The deployment goes away and comes back.                                 *)
LEMMA DeploymentLifecycle ==
  ASSUME LifecycleInv, Outage \/ Recovery
  PROVE  LifecycleInv'
<1>1. /\ deployment' \in [transactional : BOOLEAN, answers : BOOLEAN]
      /\ deployment'.transactional = deployment.transactional
      /\ outages' \in Nat /\ outages <= outages' /\ outages \in Nat
      /\ ~deployment'.answers => outages' > 0
  <2>1. deployment \in [transactional : BOOLEAN, answers : BOOLEAN] /\ outages \in Nat
        /\ (~deployment.answers => outages > 0)
    BY DEF LifecycleInv
  <2>2. CASE Outage
    <3>1. deployment' = [deployment EXCEPT !.answers = FALSE]
      BY <2>2 DEF Outage
    <3>2. outages' = outages + 1
      BY <2>2 DEF Outage
    <3>3. /\ deployment' \in [transactional : BOOLEAN, answers : BOOLEAN]
          /\ deployment'.transactional = deployment.transactional
      BY <2>1, <3>1
    <3>4. outages' \in Nat /\ outages <= outages' /\ outages' > 0
      BY <2>1, <3>2
    <3> QED
      BY <2>1, <3>3, <3>4
  <2>3. CASE Recovery
    <3>1. deployment' = [deployment EXCEPT !.answers = TRUE]
      BY <2>3 DEF Recovery
    <3>2. outages' = outages
      BY <2>3 DEF Recovery
    <3>3. /\ deployment' \in [transactional : BOOLEAN, answers : BOOLEAN]
          /\ deployment'.transactional = deployment.transactional
          /\ deployment'.answers = TRUE
      BY <2>1, <3>1
    <3>4. outages' \in Nat /\ outages <= outages'
      BY <2>1, <3>2
    <3> QED
      BY <2>1, <3>3, <3>4
  <2> QED
    BY <2>2, <2>3
<1>2. UNCHANGED <<collections, process>>
  BY DEF Outage, Recovery
<1>3. NoWorse(collections, collections)
  BY DEF NoWorse
<1>4. ASSUME NEW p \in Processes
      PROVE  Sound(process[p], collections, deployment.transactional, outages')
  <2>1. Sound(process[p], collections, deployment.transactional, outages)
    BY DEF LifecycleInv
  <2> QED
    BY <1>1, <1>3, <2>1, SoundStays
<1>5. \A p \in Processes : Sound(process'[p], collections', deployment'.transactional, outages')
  BY <1>1, <1>2, <1>4
<1> QED
  BY <1>1, <1>2, <1>5 DEF LifecycleInv

-----------------------------------------------------------------------------
LEMMA StepLifecycle == LifecycleInv /\ [LifecycleNext]_lvars => LifecycleInv'
<1> SUFFICES ASSUME LifecycleInv, [LifecycleNext]_lvars PROVE LifecycleInv'
  OBVIOUS
<1>1. CASE UNCHANGED lvars
  <2>1. UNCHANGED <<deployment, collections, process, outages>>
    BY <1>1 DEF lvars
  <2> QED
    BY <2>1 DEF LifecycleInv
<1> QED
  BY <1>1, StartLifecycle, ConnectLifecycle, CheckLifecycle, CreateLifecycle, ModifyLifecycle, IndexLifecycle, ReadyLifecycle, FailLifecycle,
     HeartbeatLifecycle, ShutdownLifecycle, CloseAppLifecycle, ListenLifecycle, ExitLifecycle, DeploymentLifecycle DEF LifecycleNext

LEMMA LifecycleInvariant == LifecycleSpec => []LifecycleInv
BY InitLifecycle, StepLifecycle, PTL DEF LifecycleSpec

(* StartsAreSound: no interleaving of starts, kills and outages lets a      *)
(* process report ready over a collection without its indexes or validator, *)
(* and only an outage makes a start fail (connectMongoRuntime).             *)
THEOREM ReadyMeansProvisioned == LifecycleSpec => []StartsAreSound
<1>1. LifecycleInv => StartsAreSound
  BY DEF LifecycleInv, Sound, Usable, Validated, Serving, StartsAreSound
<1> QED
  BY <1>1, LifecycleInvariant, PTL

-----------------------------------------------------------------------------
(***************************************************************************)
(* Rules: PolicyRules.                                                     *)
(***************************************************************************)
\* Two inputs that differ in one field.
SameBut(field, i, j) ==
  \A f \in {"request", "policy", "roles", "purpose", "evidence", "totals", "grant", "now",
             "budgets"} \ {field} : j[f] = i[f]

\* What no human needs to look at.
Clear(i) == ~Denied(i) /\ ReviewReasons(i) = {}
Granted(i) == i.grant # None /\ GrantFailures(i) = {}

LEMMA OneField ==
  ASSUME NEW i, PolicyEvaluationInput(i), NEW v,
         NEW field \in {"policy", "budgets", "totals", "grant", "evidence"}
  PROVE  /\ SameBut(field, i, [i EXCEPT ![field] = v])
         /\ [i EXCEPT ![field] = v][field] = v
<1>1. DOMAIN i = {"request", "policy", "roles", "purpose", "evidence", "totals", "grant", "now",
                  "budgets"}
  BY DEF PolicyEvaluationInput
<1>2. i = [f \in DOMAIN i |-> i[f]]
  BY DEF PolicyEvaluationInput
<1> QED  BY <1>1, <1>2 DEF SameBut

-----------------------------------------------------------------------------
(* The outcome, from denials, reasons and grant.                           *)

LEMMA Outcomes ==
  ASSUME NEW i
  PROVE  /\ Denied(i) => EvaluateRequestPolicy(i).outcome = "denied"
         /\ ~Denied(i) /\ (Clear(i) \/ Granted(i)) => EvaluateRequestPolicy(i).outcome = "approved"
         /\ ~Denied(i) /\ ~Clear(i) /\ ~Granted(i) =>
              EvaluateRequestPolicy(i).outcome = "review_required"
<1> DEFINE o == EvaluateRequestPolicy(i)
<1>1. \A outcome, reasons : Verdict(outcome, reasons, i).outcome = outcome
  BY DEF Verdict
<1>2. CASE Denied(i)
  <2>1. \E reasons : o = Verdict("denied", reasons, i)
    BY <1>2 DEF EvaluateRequestPolicy
  <2> HIDE DEF o
  <2>2. o.outcome = "denied"  BY <1>1, <2>1
  <2> QED  BY <1>2, <2>2 DEF o
<1>3. CASE Clear(i)
  <2>1. \E reasons : o = Verdict("approved", reasons, i)
    BY <1>3 DEF EvaluateRequestPolicy, Clear
  <2> HIDE DEF o
  <2>2. o.outcome = "approved"  BY <1>1, <2>1
  <2> QED  BY <1>3, <2>2 DEF o, Clear
<1>4. CASE ~Denied(i) /\ ~Clear(i) /\ Granted(i)
  <2>1. \E reasons : o = Verdict("approved", reasons, i)
    BY <1>4 DEF EvaluateRequestPolicy, Clear, Granted
  <2> HIDE DEF o
  <2>2. o.outcome = "approved"  BY <1>1, <2>1
  <2> QED  BY <1>4, <2>2 DEF o
<1>5. CASE ~Denied(i) /\ ~Clear(i) /\ ~Granted(i)
  <2>1. \E reasons : o = Verdict("review_required", reasons, i)
    BY <1>5 DEF EvaluateRequestPolicy, Clear, Granted
  <2> HIDE DEF o
  <2>2. o.outcome = "review_required"  BY <1>1, <2>1
  <2> QED  BY <1>5, <2>2 DEF o
<1> QED  BY <1>2, <1>3, <1>4, <1>5

\* Only an approval without a human gives the allowance as its reason.
LEMMA AllowanceIsClear ==
  ASSUME NEW i
  PROVE  /\ EvaluateRequestPolicy(i).reasons = {"allowance"} <=> Clear(i)
         /\ "allowance" \in EvaluateRequestPolicy(i).reasons => Clear(i)
<1> DEFINE o == EvaluateRequestPolicy(i)
<1>1. \A outcome, reasons : Verdict(outcome, reasons, i).reasons = reasons
  BY DEF Verdict
<1>2. CASE Denied(i)
  <2>1. PICK reasons \in SUBSET {"hard_cap", "explicit_deny"} : o = Verdict("denied", reasons, i)
    BY <1>2 DEF EvaluateRequestPolicy
  <2> HIDE DEF o
  <2>2. "allowance" \notin o.reasons  BY <1>1, <2>1
  <2> QED  BY <1>2, <2>2 DEF o, Clear
<1>3. CASE Clear(i)
  <2>1. o = Verdict("approved", {"allowance"}, i)
    BY <1>3 DEF EvaluateRequestPolicy, Clear
  <2> HIDE DEF o
  <2>2. o.reasons = {"allowance"}  BY <1>1, <2>1
  <2> QED  BY <1>3, <2>2 DEF o
<1>4. CASE ~Denied(i) /\ ~Clear(i)
  <2>1. "allowance" \notin ReviewReasons(i)
    <3>1. "allowance" \notin Failures(i)
      BY DEF Failures, RuleFailures
    <3>2. "allowance" \notin Coverage(i)
      BY DEF Coverage
    <3> QED  BY <3>1, <3>2 DEF ReviewReasons, PolicyApplicability
  <2>2. ReviewReasons(i) # {}  BY <1>4 DEF Clear
  <2>3. "allowance" \notin GrantFailures(i)  BY DEF GrantFailures
  <2>4. \/ o = Verdict("review_required", ReviewReasons(i), i)
        \/ o = Verdict("approved", {"human_exception"}, i)
        \/ o = Verdict("review_required", ReviewReasons(i) \union GrantFailures(i), i)
    BY <1>4, <2>2 DEF EvaluateRequestPolicy
  <2> HIDE DEF o
  <2>5. "allowance" \notin o.reasons
    <3>1. CASE o = Verdict("review_required", ReviewReasons(i), i)
      <4>1. o.reasons = ReviewReasons(i)  BY <1>1, <3>1
      <4> QED  BY <2>1, <4>1
    <3>2. CASE o = Verdict("approved", {"human_exception"}, i)
      <4>1. o.reasons = {"human_exception"}  BY <1>1, <3>2
      <4> QED  BY <4>1
    <3>3. CASE o = Verdict("review_required", ReviewReasons(i) \union GrantFailures(i), i)
      <4>1. o.reasons = ReviewReasons(i) \union GrantFailures(i)  BY <1>1, <3>3
      <4> QED  BY <2>1, <2>3, <4>1
    <3> QED  BY <2>4, <3>1, <3>2, <3>3
  <2> QED  BY <1>4, <2>5 DEF o
<1> QED  BY <1>2, <1>3, <1>4 DEF Clear

LEMMA RankOf ==
  ASSUME NEW i
  PROVE  Rank(i) = IF Denied(i) THEN 0 ELSE IF Clear(i) \/ Granted(i) THEN 2 ELSE 1
<1> DEFINE o == EvaluateRequestPolicy(i).outcome
           ranks == [denied |-> 0, review_required |-> 1, approved |-> 2]
<1>1. ranks["denied"] = 0 /\ ranks["review_required"] = 1 /\ ranks["approved"] = 2
  OBVIOUS
<1>2. Rank(i) = ranks[o]  BY DEF Rank
<1> HIDE DEF ranks
<1> QED  BY <1>1, <1>2, Outcomes DEF Clear

\* An input is no milder than another if what clears it clears the other.
LEMMA NoMilder ==
  ASSUME NEW i, NEW j, Decidable(i), Clear(j) => Clear(i)
  PROVE  /\ Automatic(j) => Automatic(i)
         /\ (Granted(j) => Granted(i)) => Rank(j) <= Rank(i) \/ Denied(i)
<1>1. Automatic(j) => Automatic(i)
  BY AllowanceIsClear DEF Automatic
<1>2. ASSUME Granted(j) => Granted(i)
      PROVE  Rank(j) <= Rank(i) \/ Denied(i)
  BY <1>2, RankOf
<1> QED  BY <1>1, <1>2
-----------------------------------------------------------------------------
(* What is decided, part by part.                                          *)

\* The reasons for a review vanish together.
LEMMA ReasonsVanish ==
  ASSUME NEW i
  PROVE  ReviewReasons(i) = {} <=>
           /\ PolicyApplicability(i.policy, i.request, i.now) = {}
           /\ Candidates(i) # {} /\ Met("permit", i) # {}
           /\ Met("require_review", i) = {} /\ Short(i, FALSE) = {} /\ Failures(i) = {}
<1>1. Met("permit", i) # {} => Candidates(i) # {}  BY DEF Met
<1>2. ReviewReasons(i) = {} <=>
        /\ PolicyApplicability(i.policy, i.request, i.now) = {} /\ Coverage(i) = {}
        /\ Met("require_review", i) = {} /\ Short(i, FALSE) = {} /\ Failures(i) = {}
  BY DEF ReviewReasons
<1>3. Failures(i) = {} => (Coverage(i) = {} <=> Candidates(i) # {} /\ Met("permit", i) # {})
  BY DEF Coverage
<1> QED  BY <1>1, <1>2, <1>3

\* No candidate rule fails when there are no failures, and then all are met.
LEMMA NoFailure ==
  ASSUME NEW i
  PROVE  Failures(i) = {} <=> \A rule \in Candidates(i) : RuleFailures(rule, i) = {}
BY DEF Failures

LEMMA RuleFailuresFollow ==
  ASSUME NEW i, NEW j, NEW rule, \A c : FailureOf(c, rule, i) => FailureOf(c, rule, j)
  PROVE  RuleFailures(rule, i) \subseteq RuleFailures(rule, j)
BY DEF RuleFailures

\* The rules that apply depend on the policy, the request, the requester and the time.
LEMMA CandidatesAre ==
  ASSUME NEW i
  PROVE  Candidates(i) =
           {rule \in i.policy.rules : /\ PolicyApplicability(i.policy, i.request, i.now) = {}
                                      /\ MatchesCategory(rule, i.request)
                                      /\ MatchesRequesterRole(rule, i.roles)}
BY DEF Candidates, CategoryRules

\* A grant that fails goes on failing under more rules and less capacity.
LEMMA GrantFailuresFollow ==
  ASSUME NEW i, NEW j,
         j.request = i.request, j.now = i.now, j.grant = i.grant,
         j.policy.id = i.policy.id, j.policy.revision = i.policy.revision,
         j.policy.epoch = i.policy.epoch,
         PolicyApplicability(j.policy, j.request, j.now)
           = PolicyApplicability(i.policy, i.request, i.now),
         GrantCandidates(i) \subseteq GrantCandidates(j),
         Short(j, TRUE) = {} => Short(i, TRUE) = {}
  PROVE  GrantFailures(i) \subseteq GrantFailures(j)
<1> DEFINE g == i.grant.grant
           a == i.grant.approver
           mine == ApproverRoles(GrantCandidates(i))
           theirs == ApproverRoles(GrantCandidates(j))
<1>1. mine \subseteq theirs
  BY DEF ApproverRoles
<1>2. mine \notin {{}, {g.role}} => theirs \notin {{}, {g.role}}
  <2> HIDE DEF mine, theirs
  <2> QED  BY <1>1
<1>3. (\E rule \in GrantCandidates(i) : rule.noSelfApproval)
         => \E rule \in GrantCandidates(j) : rule.noSelfApproval
  OBVIOUS
<1>4. ASSUME NEW c, GrantFailureOf(c, g, a, i) PROVE GrantFailureOf(c, g, a, j)
  <2>1. CASE c \in {"organization", "request", "amount", "action"}
    BY <1>4, <2>1 DEF GrantFailureOf
  <2>2. CASE c \in {"policy", "epoch", "period", "revoked", "identity"}
    BY <1>4, <2>2 DEF GrantFailureOf
  <2>3. CASE c = "role"
    BY <1>2, <1>4, <2>3 DEF GrantFailureOf
  <2>4. CASE c \in {"authority_scope", "scope"}
    BY <1>4, <2>4 DEF GrantFailureOf
  <2>5. CASE c = "self_approval"
    BY <1>3, <1>4, <2>5 DEF GrantFailureOf
  <2>6. CASE c = "hard_cap"
    BY <1>4, <2>6 DEF GrantFailureOf
  <2> QED  BY <1>4, <2>1, <2>2, <2>3, <2>4, <2>5, <2>6 DEF GrantFailureOf
<1> QED  BY <1>4 DEF GrantFailures

-----------------------------------------------------------------------------
(* More rules that review or deny.                                         *)

LEMMA MoreRules ==
  ASSUME NEW i, NEW j, NEW rule, rule.effect # "permit", SameBut("policy", i, j),
         j.policy.id = i.policy.id, j.policy.revision = i.policy.revision,
         j.policy.epoch = i.policy.epoch, j.policy.from = i.policy.from,
         j.policy.to = i.policy.to, j.policy.scope = i.policy.scope,
         j.policy.rules = i.policy.rules \union {rule}
  PROVE  (Clear(j) => Clear(i)) /\ (Granted(j) => Granted(i))
<1>1. /\ j.request = i.request /\ j.roles = i.roles /\ j.purpose = i.purpose
      /\ j.evidence = i.evidence /\ j.totals = i.totals /\ j.grant = i.grant /\ j.now = i.now
      /\ j.budgets = i.budgets
  BY DEF SameBut
<1>2. PolicyApplicability(j.policy, j.request, j.now) = PolicyApplicability(i.policy, i.request, i.now)
  BY <1>1 DEF PolicyApplicability
<1>3. Candidates(i) \subseteq Candidates(j) /\ Candidates(j) \subseteq Candidates(i) \union {rule}
  BY <1>1, <1>2, CandidatesAre
<1>4. \A x : RuleFailures(x, j) = RuleFailures(x, i)
  BY <1>1 DEF RuleFailures, FailureOf, TotalsOf, EvidenceOf
<1>5. /\ Met("deny", i) \subseteq Met("deny", j)
      /\ Met("require_review", i) \subseteq Met("require_review", j)
      /\ Met("permit", j) \subseteq Met("permit", i)
  BY <1>3, <1>4 DEF Met
<1>6. \A hard : Short(j, hard) = Short(i, hard)
  BY <1>1 DEF Short
<1>7. Failures(j) = {} => Failures(i) = {}
  BY <1>3, <1>4, NoFailure
<1>8. Clear(j) => Clear(i)
  BY <1>2, <1>3, <1>5, <1>6, <1>7, ReasonsVanish DEF Clear, Denied, Met
<1>9. ASSUME GrantFailures(j) = {} PROVE GrantFailures(i) = {}
  <2>1. GrantCandidates(i) \subseteq GrantCandidates(j)
    BY <1>1 DEF GrantCandidates
  <2>2. GrantFailures(i) \subseteq GrantFailures(j)
    BY <1>1, <1>2, <1>6, <2>1, GrantFailuresFollow
  <2> QED  BY <1>9, <2>2
<1> QED  BY <1>1, <1>8, <1>9 DEF Granted

-----------------------------------------------------------------------------
(* Less capacity.                                                          *)

LEMMA ShortStays ==
  ASSUME NEW d \in Int, NEW a \in Int, NEW r \in Int, NEW o \in Int, d > a - r - o
  PROVE  d > (a - 1) - r - o
OBVIOUS

LEMMA LessCapacity ==
  ASSUME NEW i, NEW j, PolicyEvaluationInput(i), SameBut("budgets", i, j),
         \A b \in i.budgets : \E c \in j.budgets :
           /\ c.hard = b.hard /\ c.delta = b.delta /\ c.authorized = b.authorized - 1
           /\ c.recognized = b.recognized /\ c.outstanding = b.outstanding
  PROVE  (Clear(j) => Clear(i)) /\ (Granted(j) => Granted(i))
<1>1. /\ j.request = i.request /\ j.policy = i.policy /\ j.roles = i.roles /\ j.purpose = i.purpose
      /\ j.evidence = i.evidence /\ j.totals = i.totals /\ j.grant = i.grant /\ j.now = i.now
  BY DEF SameBut
<1>2. ASSUME NEW hard, Short(j, hard) = {} PROVE Short(i, hard) = {}
  <2>1. ASSUME NEW b \in Short(i, hard) PROVE \E c : c \in Short(j, hard)
    <3>1. b \in i.budgets /\ b.hard = hard /\ b.delta > b.authorized - b.recognized - b.outstanding
      BY <2>1 DEF Short
    <3>2. b.delta \in Int /\ b.authorized \in Int /\ b.recognized \in Int /\ b.outstanding \in Int
      BY <3>1 DEF PolicyEvaluationInput
    <3>3. b.delta > (b.authorized - 1) - b.recognized - b.outstanding
      BY <3>1, <3>2, ShortStays
    <3>4. PICK c \in j.budgets :
            /\ c.hard = b.hard /\ c.delta = b.delta /\ c.authorized = b.authorized - 1
            /\ c.recognized = b.recognized /\ c.outstanding = b.outstanding
      BY <3>1
    <3>5. c \in Short(j, hard)  BY <3>1, <3>3, <3>4 DEF Short
    <3> QED  BY <3>5
  <2> SUFFICES ASSUME NEW b \in Short(i, hard) PROVE FALSE
    OBVIOUS
  <2> QED  BY <1>2, <2>1
<1>3. Candidates(j) = Candidates(i)  BY <1>1, CandidatesAre
<1>4. \A x : RuleFailures(x, j) = RuleFailures(x, i)
  BY <1>1 DEF RuleFailures, FailureOf, TotalsOf, EvidenceOf
<1>5. \A effect : Met(effect, j) = Met(effect, i)
  BY <1>3, <1>4 DEF Met
<1>6. Failures(j) = {} => Failures(i) = {}
  BY <1>3, <1>4, NoFailure
<1>7. Clear(j) => Clear(i)
  BY <1>1, <1>2, <1>3, <1>5, <1>6, ReasonsVanish DEF Clear, Denied
<1>8. ASSUME GrantFailures(j) = {} PROVE GrantFailures(i) = {}
  <2>1. GrantCandidates(i) \subseteq GrantCandidates(j)  BY <1>1 DEF GrantCandidates
  <2>2. GrantFailures(i) \subseteq GrantFailures(j)
    BY <1>1, <1>2, <2>1, GrantFailuresFollow
  <2> QED  BY <1>8, <2>2
<1> QED  BY <1>1, <1>7, <1>8 DEF Granted

-----------------------------------------------------------------------------
(* Larger totals.                                                          *)

LEMMA LargerTotals ==
  ASSUME NEW i, NEW j, PolicyEvaluationInput(i), SameBut("totals", i, j),
         \A t \in i.totals : \E u \in j.totals :
           u.dimension = t.dimension /\ u.id = t.id /\ u.increase = t.increase + 1,
         \A u \in j.totals : \E t \in i.totals : u.dimension = t.dimension /\ u.id = t.id
  PROVE  (Clear(j) => Clear(i)) /\ (Granted(j) => Granted(i))
<1>1. /\ j.request = i.request /\ j.policy = i.policy /\ j.roles = i.roles /\ j.purpose = i.purpose
      /\ j.evidence = i.evidence /\ j.grant = i.grant /\ j.now = i.now
      /\ j.budgets = i.budgets
  BY DEF SameBut
<1>2. \A dimension : TotalsOf(dimension, i) = {} => TotalsOf(dimension, j) = {}
  BY <1>1 DEF TotalsOf
<1>3. ASSUME NEW x \in i.policy.rules, NEW c, FailureOf(c, x, i) PROVE FailureOf(c, x, j)
  <2>1. TotalsOf(x.dimension, i) = {} => TotalsOf(x.dimension, j) = {}
    BY <1>2
  <2>2. ASSUME x.maxCumulative # None, NEW t \in TotalsOf(x.dimension, i), t.increase > x.maxCumulative
        PROVE  \E u \in TotalsOf(x.dimension, j) : u.increase > x.maxCumulative
    <3>1. t \in i.totals /\ t.increase \in Int /\ x.maxCumulative \in Int
      BY <2>2 DEF TotalsOf, PolicyEvaluationInput
    <3>2. PICK u \in j.totals :
            u.dimension = t.dimension /\ u.id = t.id /\ u.increase = t.increase + 1
      BY <3>1
    <3>3. u \in TotalsOf(x.dimension, j)  BY <1>1, <2>2, <3>2 DEF TotalsOf
    <3>4. u.increase > x.maxCumulative  BY <2>2, <3>1, <3>2
    <3> QED  BY <3>3, <3>4
  <2>3. \A k : EvidenceOf(k, j) = EvidenceOf(k, i)  BY <1>1 DEF EvidenceOf
  <2> QED  BY <1>1, <1>3, <2>1, <2>2, <2>3 DEF FailureOf
<1>4. Candidates(j) = Candidates(i) /\ Candidates(i) \subseteq i.policy.rules
  BY <1>1, CandidatesAre
<1>5. \A x \in Candidates(i) : RuleFailures(x, i) \subseteq RuleFailures(x, j)
  BY <1>3, <1>4, RuleFailuresFollow
<1>6. ASSUME Failures(j) = {}
      PROVE  Failures(i) = {} /\ \A effect : Met(effect, j) = Met(effect, i)
  <2>1. \A x \in Candidates(i) : RuleFailures(x, j) = {} /\ RuleFailures(x, i) = {}
    BY <1>4, <1>5, <1>6, NoFailure
  <2> QED  BY <1>4, <2>1, NoFailure DEF Met
<1>7. \A hard : Short(j, hard) = Short(i, hard)  BY <1>1 DEF Short
<1>8. Clear(j) => Clear(i)
  BY <1>1, <1>4, <1>6, <1>7, ReasonsVanish DEF Clear, Denied
<1>9. GrantFailures(i) \subseteq GrantFailures(j)
  <2>1. GrantCandidates(i) \subseteq GrantCandidates(j)  BY <1>1 DEF GrantCandidates
  <2> QED  BY <1>1, <1>7, <2>1, GrantFailuresFollow
<1> QED  BY <1>1, <1>8, <1>9 DEF Granted

-----------------------------------------------------------------------------
(* Less authority, less evidence.                                          *)

\* What a grant says matters to nothing but the grant.
LEMMA OtherGrant ==
  ASSUME NEW i, NEW j, SameBut("grant", i, j)
  PROVE  Clear(j) <=> Clear(i)
<1>1. /\ j.request = i.request /\ j.policy = i.policy /\ j.roles = i.roles /\ j.purpose = i.purpose
      /\ j.evidence = i.evidence /\ j.totals = i.totals /\ j.now = i.now
      /\ j.budgets = i.budgets
  BY DEF SameBut
<1>2. Candidates(j) = Candidates(i)  BY <1>1, CandidatesAre
<1>3. \A x : RuleFailures(x, j) = RuleFailures(x, i)
  BY <1>1 DEF RuleFailures, FailureOf, TotalsOf, EvidenceOf
<1>4. /\ \A effect : Met(effect, j) = Met(effect, i)
      /\ Failures(j) = Failures(i) /\ \A hard : Short(j, hard) = Short(i, hard)
  BY <1>1, <1>2, <1>3 DEF Met, Failures, Short
<1> QED  BY <1>1, <1>2, <1>4, ReasonsVanish DEF Clear, Denied

LEMMA RevokedIsNotGranted ==
  ASSUME NEW i, i.grant.approver.revoked = TRUE
  PROVE  ~Granted(i)
<1>1. GrantFailureOf("revoked", i.grant.grant, i.grant.approver, i)
  BY DEF GrantFailureOf
<1>2. "revoked" \in GrantFailures(i)  BY <1>1 DEF GrantFailures
<1> QED  BY <1>2 DEF Granted

\* Without evidence, what is clear asks for none.
LEMMA NoEvidence ==
  ASSUME NEW i, NEW j, SameBut("evidence", i, j), j.evidence = {}, Clear(j)
  PROVE  Clear(i)
<1>1. /\ j.request = i.request /\ j.policy = i.policy /\ j.roles = i.roles /\ j.purpose = i.purpose
      /\ j.totals = i.totals /\ j.now = i.now /\ j.budgets = i.budgets
  BY DEF SameBut
<1>2. Candidates(j) = Candidates(i)  BY <1>1, CandidatesAre
<1>3. Failures(j) = {} /\ ~Denied(j)  BY ReasonsVanish DEF Clear
<1>4. ASSUME NEW x \in Candidates(i) PROVE RuleFailures(x, j) = {} /\ RuleFailures(x, i) = {}
  <2>1. RuleFailures(x, j) = {}  BY <1>2, <1>3, <1>4, NoFailure
  <2>2. x.evidence = {}
    <3>1. "evidence_missing" \notin RuleFailures(x, j)  BY <2>1
    <3>2. ~FailureOf("evidence_missing", x, j)  BY <3>1 DEF RuleFailures
    <3>3. \A k \in x.evidence : EvidenceOf(k, j) = {}  BY DEF EvidenceOf
    <3> QED  BY <3>2, <3>3 DEF FailureOf
  <2>3. \A c : FailureOf(c, x, i) => FailureOf(c, x, j)
    BY <1>1, <2>2 DEF FailureOf, TotalsOf
  <2> QED  BY <2>1, <2>3, RuleFailuresFollow
<1>5. Failures(i) = {} /\ \A effect : Met(effect, j) = Met(effect, i)
  BY <1>2, <1>4, NoFailure DEF Met
<1>6. \A hard : Short(j, hard) = Short(i, hard)  BY <1>1 DEF Short
<1> QED  BY <1>1, <1>2, <1>3, <1>5, <1>6, ReasonsVanish DEF Clear, Denied

(***************************************************************************)
(* evaluateRequestPolicy never relaxes: for every policy and input, a rule *)
(* more that reviews or denies, less capacity, larger totals, no grant or  *)
(* a revoked approver leave an outcome that is not denied no milder, and   *)
(* neither they nor missing evidence let a request do without a human that *)
(* needed one.                                                             *)
(***************************************************************************)
THEOREM RulesNeverRelax ==
  ASSUME NEW i, NEW rules, PolicyEvaluationInput(i)
  PROVE  NeverRelaxed(i, rules)
<1> SUFFICES ASSUME Decidable(i)
             PROVE  /\ \A j \in Tightened(i, rules) : Rank(j) <= Rank(i) \/ Denied(i)
                    /\ \A j \in Tightened(i, rules) \union {[i EXCEPT !.evidence = {}]} :
                         Automatic(j) => Automatic(i)
  BY DEF NeverRelaxed
<1>1. ASSUME NEW j \in Tightened(i, rules)
      PROVE  (Clear(j) => Clear(i)) /\ (Granted(j) => Granted(i))
  <2>1. ASSUME NEW rule \in rules, rule.effect # "permit",
               j = [i EXCEPT !.policy.rules = @ \union {rule}]
        PROVE  (Clear(j) => Clear(i)) /\ (Granted(j) => Granted(i))
    <3> DEFINE p == [i.policy EXCEPT !.rules = i.policy.rules \union {rule}]
    <3>1. j = [i EXCEPT !.policy = p]
      BY <2>1
    <3>2. /\ p.id = i.policy.id /\ p.revision = i.policy.revision /\ p.epoch = i.policy.epoch
          /\ p.from = i.policy.from /\ p.to = i.policy.to /\ p.scope = i.policy.scope
          /\ p.rules = i.policy.rules \union {rule}
      BY DEF PolicyEvaluationInput
    <3> HIDE DEF p
    <3>3. /\ SameBut("policy", i, [i EXCEPT !["policy"] = p])
          /\ [i EXCEPT !["policy"] = p]["policy"] = p
      BY OneField
    <3>4. SameBut("policy", i, j) /\ j.policy = p
      BY <3>1, <3>3
    <3>5. /\ j.policy.id = i.policy.id /\ j.policy.revision = i.policy.revision
          /\ j.policy.epoch = i.policy.epoch /\ j.policy.from = i.policy.from
          /\ j.policy.to = i.policy.to /\ j.policy.scope = i.policy.scope
          /\ j.policy.rules = i.policy.rules \union {rule}
      BY <3>2, <3>4
    <3>6. SameBut("policy", i, j) /\ rule.effect # "permit"
      BY <2>1, <3>4
    <3> QED  BY <3>5, <3>6, MoreRules
  <2>2. CASE j = [i EXCEPT !.budgets = {[b EXCEPT !.authorized = @ - 1, !.available = @ - 1] : b \in @}]
    <3> DEFINE Less(b) == [b EXCEPT !.authorized = b.authorized - 1, !.available = b.available - 1]
               less == {Less(b) : b \in i.budgets}
    <3>1. j = [i EXCEPT !.budgets = less]
      BY <2>2
    <3>2. \A b \in i.budgets : /\ Less(b).hard = b.hard /\ Less(b).delta = b.delta
                                /\ Less(b).authorized = b.authorized - 1
                                /\ Less(b).recognized = b.recognized
                                /\ Less(b).outstanding = b.outstanding
      BY DEF PolicyEvaluationInput
    <3>3. \A b \in i.budgets : Less(b) \in less
      OBVIOUS
    <3> HIDE DEF Less, less
    <3>4. SameBut("budgets", i, j) /\ j.budgets = less
      BY <3>1, OneField
    <3>5. \A b \in i.budgets : \E c \in j.budgets :
            /\ c.hard = b.hard /\ c.delta = b.delta /\ c.authorized = b.authorized - 1
            /\ c.recognized = b.recognized /\ c.outstanding = b.outstanding
      BY <3>2, <3>3, <3>4
    <3> QED  BY <3>4, <3>5, LessCapacity
  <2>3. CASE j = [i EXCEPT !.totals = {[t EXCEPT !.increase = @ + 1] : t \in @}]
    <3> DEFINE Up(t) == [t EXCEPT !.increase = t.increase + 1]
               up == {Up(t) : t \in i.totals}
    <3>1. j = [i EXCEPT !.totals = up]
      BY <2>3
    <3>2. \A t \in i.totals : /\ Up(t).dimension = t.dimension /\ Up(t).id = t.id
                               /\ Up(t).increase = t.increase + 1
      BY DEF PolicyEvaluationInput
    <3>3. (\A t \in i.totals : Up(t) \in up) /\ \A u \in up : \E t \in i.totals : u = Up(t)
      OBVIOUS
    <3> HIDE DEF Up, up
    <3>4. SameBut("totals", i, j) /\ j.totals = up
      BY <3>1, OneField
    <3>5. \A t \in i.totals : \E u \in j.totals :
            u.dimension = t.dimension /\ u.id = t.id /\ u.increase = t.increase + 1
      BY <3>2, <3>3, <3>4
    <3>6. \A u \in j.totals : \E t \in i.totals : u.dimension = t.dimension /\ u.id = t.id
      BY <3>2, <3>3, <3>4
    <3> QED  BY <3>4, <3>5, <3>6, LargerTotals
  <2>4. CASE j = [i EXCEPT !.grant = None]
    <3>1. SameBut("grant", i, j) /\ j.grant = None  BY <2>4, OneField
    <3> QED  BY <3>1, OtherGrant DEF Granted
  <2>5. CASE i.grant # None /\ j = [i EXCEPT !.grant.approver.revoked = TRUE]
    <3> DEFINE a == [i.grant.approver EXCEPT !.revoked = TRUE]
               g == [i.grant EXCEPT !.approver = a]
    <3>1. j = [i EXCEPT !.grant = g]
      BY <2>5
    <3>2. g.approver.revoked = TRUE
      BY <2>5 DEF PolicyEvaluationInput
    <3> HIDE DEF g
    <3>3. SameBut("grant", i, j) /\ j.grant = g  BY <3>1, OneField
    <3> QED  BY <3>2, <3>3, OtherGrant, RevokedIsNotGranted
  <2> QED  BY <2>1, <2>2, <2>3, <2>4, <2>5 DEF Tightened
<1>2. \A j \in Tightened(i, rules) : Rank(j) <= Rank(i) \/ Denied(i)
  BY <1>1, NoMilder
<1>3. \A j \in Tightened(i, rules) : Automatic(j) => Automatic(i)
  BY <1>1, NoMilder
<1>4. Automatic([i EXCEPT !.evidence = {}]) => Automatic(i)
  <2> DEFINE j == [i EXCEPT !.evidence = {}]
  <2>1. SameBut("evidence", i, j) /\ j.evidence = {}  BY OneField
  <2> HIDE DEF j
  <2>2. Automatic(j) => Automatic(i)  BY <2>1, NoMilder, NoEvidence
  <2> QED  BY <2>2 DEF j
<1> QED  BY <1>2, <1>3, <1>4

(***************************************************************************)
(* Hence no case is relaxed, whatever cases and rules are asked about.     *)
(***************************************************************************)
THEOREM CasesNeverRelax == CaseSpec => []RestrictionsNeverRelax
<1> DEFINE Inv == case \in Cases \cup {None}
<1>1. CaseInit => Inv  BY DEF CaseInit
<1>2. Inv /\ [UNCHANGED case]_case => Inv'  OBVIOUS
<1>3. Inv => RestrictionsNeverRelax
  BY CasesAssumption, RulesNeverRelax DEF RestrictionsNeverRelax
<1> QED  BY <1>1, <1>2, <1>3, PTL DEF CaseSpec

-----------------------------------------------------------------------------
(***************************************************************************)
(* Commands: FinanceCommands.                                              *)
(***************************************************************************)
\* A model value is none of the documents.
NoneIsNoDocument ==
  /\ \A f, d : [fingerprint |-> f, response |-> d] # None
  /\ \A r, e, n : [revision |-> r, epoch |-> e, counter |-> n] # None
  /\ \A d, f, x : [d EXCEPT ![f] = x] # None

Policies == FirstDatabase.policies \union Publications

\* A request is stored under its identifier.
Stored(r, q) == q # None => {"id", "amount", "evaluation"} \subseteq DOMAIN q /\ q.id = r

\* A decision is about the request of its command, for its amount.
Answers(d, cmd) ==
  /\ d.command = cmd.id
  /\ {"id", "amount", "evaluation"} \subseteq DOMAIN d.request
  /\ d.request.id = cmd.request
  /\ cmd.kind = "amend" => d.request.amount = cmd.amount

\* It names the revision and the epoch of the guard it read.
Governed(d, guard) ==
  guard # None /\ d.verdict.policy[2] = guard.revision /\ d.verdict.epoch = guard.epoch

DbShape ==
  /\ db = [claims |-> db.claims, requests |-> db.requests, decisions |-> db.decisions,
           policies |-> db.policies, guards |-> db.guards, authorities |-> db.authorities,
           accounts |-> db.accounts]
  /\ db.accounts \in [Accounts -> Nat]
  /\ db.claims = [i \in CommandIds |-> db.claims[i]]
  /\ db.requests = [r \in Requests |-> db.requests[r]]
  /\ db.guards = [p \in PolicyIds |-> db.guards[p]]
  /\ \A r \in Requests : Stored(r, db.requests[r])
  /\ \A p \in PolicyIds : db.guards[p] # None =>
       {"revision", "epoch", "counter"} \subseteq DOMAIN db.guards[p]

ClaimSound(claim, i) ==
  claim # None =>
    \E cmd \in Commands : /\ cmd.id = i
                          /\ claim.fingerprint = Fingerprint(cmd)
                          /\ Answers(claim.response, cmd)

ClaimsInv ==
  /\ \A i \in CommandIds : /\ ClaimSound(db.claims[i], i)
                           /\ db.claims[i] # None => db.claims[i].response \in db.decisions
  /\ \A d, e \in db.decisions : d.command = e.command => d = e
  /\ \A d \in db.decisions : d.command \in CommandIds => db.claims[d.command] # None

PoliciesInv ==
  /\ db.policies \subseteq Policies
  /\ \A p, q \in db.policies : p.id = q.id /\ p.revision = q.revision => p = q
  /\ \A p \in Policies :
       LET guard == db.guards[p.id]
       IN  guard # None /\ guard.revision = p.revision => guard.epoch = p.epoch
  /\ publishing = None \/ publishing \in Policies

CallSound(t) ==
  t.at = "open" =>
    /\ t.cmd \in Commands
    /\ t.claim # None => t.claim = db.claims[t.cmd.id]
    /\ t.decision # None =>
         /\ t.claim = None
         /\ Answers(t.decision, t.cmd)
         /\ PolicyOfDecision(t.decision) \in PolicyIds
         /\ Governed(t.decision, t.guard)
         /\ t.accounts \in [AccountsOf(t.decision) -> Nat]

CallsInv ==
  /\ calls = [v \in Servers |-> calls[v]]
  /\ \A v \in Servers : CallSound(calls[v])

CommandsInv == DbShape /\ ClaimsInv /\ PoliciesInv /\ CallsInv

-----------------------------------------------------------------------------
(* The policy a transaction loads.                                         *)

\* A set of numbers has a least one.
LEMMA Smallest ==
  ASSUME NEW T, T \subseteq Nat, T # {}
  PROVE  \E m \in T : \A n \in T : m <= n
<1> DEFINE R == OpToRel(<, Nat)
<1>1. \A n, m \in Nat : n < m => <<n, m>> \in R
  BY DEF OpToRel
<1>2. IsWellFoundedOn(R, Nat)  BY NatLessThanWellFounded
<1>3. PICK m \in T : \A n \in T : ~(<<n, m>> \in R)
  <2> HIDE DEF R
  <2> QED  BY <1>2, WFMin
<1> HIDE DEF R
<1>4. ASSUME NEW n \in T
      PROVE  m <= n
  <2>1. ~(n < m)  BY <1>1, <1>3
  <2> QED  BY <2>1
<1> QED  BY <1>4

LEMMA LoadedIsActive ==
  ASSUME DbShape, PoliciesInv, NEW r, ActivePolicies(r, db) # {}
  PROVE  LoadActivePolicy(r, db) \in ActivePolicies(r, db)
<1> DEFINE A == ActivePolicies(r, db)
           S == IF \E p \in A : Specific(p) THEN {p \in A : Specific(p)} ELSE A
           Ids == {p.id : p \in S}
<1>1. \A p \in A : p \in db.policies /\ p.id \in PolicyIds /\ p.revision = db.guards[p.id].revision
  BY DatabaseAssumption DEF ActivePolicies, PoliciesInv, Policies
<1>2. \A p, q \in A : p.id = q.id => p = q
  BY <1>1 DEF PoliciesInv
<1>3. A # {} /\ PolicyIds \subseteq Nat
  BY DatabaseAssumption
<1> HIDE DEF A
<1>4. S # {} /\ S \subseteq A
  BY <1>3
<1>5. Ids \subseteq Nat /\ Ids # {}
  <2>1. \A p \in S : p.id \in Nat  BY <1>1, <1>3, <1>4
  <2> HIDE DEF S
  <2> QED  BY <1>4, <2>1
<1>6. PICK m \in Ids : \A n \in Ids : m <= n
  <2> HIDE DEF Ids
  <2> QED  BY <1>5, Smallest
<1>7. PICK p \in S : p.id = m
  OBVIOUS
<1>8. ASSUME NEW q \in A \ {p}
      PROVE  (Specific(p) /\ ~Specific(q)) \/ (Specific(p) = Specific(q) /\ p.id < q.id)
  <2>1. p.id # q.id /\ p.id \in Nat /\ q.id \in Nat
    BY <1>1, <1>2, <1>7, DatabaseAssumption
  <2>2. CASE q \in S
    <3>1. p.id <= q.id  BY <1>6, <1>7, <2>2
    <3>2. Specific(p) = Specific(q)  BY <2>2 DEF Specific
    <3> QED  BY <2>1, <3>1, <3>2
  <2>3. CASE q \notin S
    BY <2>3 DEF Specific
  <2> QED  BY <2>2, <2>3
<1>9. p \in A  OBVIOUS
<1> QED  BY <1>8, <1>9 DEF LoadActivePolicy, A

\* Every verdict names the policy it was given.
LEMMA VerdictPolicy ==
  ASSUME NEW i
  PROVE  /\ Evaluate(i).policy = <<i.policy.id, i.policy.revision>>
         /\ Evaluate(i).epoch = i.policy.epoch
         /\ \A outcome, reasons :
              /\ Verdict(outcome, reasons, i).policy = <<i.policy.id, i.policy.revision>>
              /\ Verdict(outcome, reasons, i).epoch = i.policy.epoch
<1> DEFINE v == EvaluateRequestPolicy(i)
<1>1. \A outcome, reasons : Verdict(outcome, reasons, i) =
        [outcome |-> outcome, reasons |-> reasons, policy |-> <<i.policy.id, i.policy.revision>>,
         epoch |-> i.policy.epoch, role |-> Verdict(outcome, reasons, i).role]
  BY DEF Verdict
<1>2. \E outcome, reasons : v = Verdict(outcome, reasons, i)
  BY DEF EvaluateRequestPolicy
<1>3. PICK outcome, reasons : v = Verdict(outcome, reasons, i)
  BY <1>2
<1>4. Evaluate(i).policy = v.policy /\ Evaluate(i).epoch = v.epoch
  <2> HIDE DEF v
  <2>1. v = [outcome |-> outcome, reasons |-> reasons, policy |-> <<i.policy.id, i.policy.revision>>,
         epoch |-> i.policy.epoch, role |-> Verdict(outcome, reasons, i).role]
    BY <1>1, <1>3
  <2> QED  BY <2>1 DEF Evaluate, v
<1> QED  BY <1>1, <1>3, <1>4

\* What a decision reserves on are budget accounts.
LEMMA AccountsAreBound ==
  ASSUME NEW d
  PROVE  AccountsOf(d) \subseteq Accounts
BY DEF AccountsOf, BindingBudgets

\* What a transaction decides answers its command, under the policy of its snapshot.
LEMMA BeginSound ==
  ASSUME CommandsInv, NEW cmd \in Commands
  PROVE  CallSound(Begin(cmd))
<1> DEFINE runs == db.claims[cmd.id] = None /\ Succeeds(cmd, db)
           d == Decision(cmd, db)
           r == Revision(cmd, db)
           p == LoadActivePolicy(r, db)
           t == Begin(cmd)
<1>1. /\ t.at = "open" /\ t.cmd = cmd /\ t.claim = db.claims[cmd.id]
      /\ t.decision = (IF runs THEN d ELSE None)
      /\ runs => /\ db.claims[cmd.id] = None /\ t.guard = db.guards[PolicyOfDecision(d)]
                 /\ t.accounts = [a \in AccountsOf(d) |-> db.accounts[a]]
  BY DEF Begin
<1>2. ASSUME runs
      PROVE  /\ Answers(d, cmd)
             /\ PolicyOfDecision(d) \in PolicyIds
             /\ Governed(d, db.guards[PolicyOfDecision(d)])
  <2>1. Admissible(cmd, db) /\ ActivePolicies(r, db) # {}
    BY <1>2 DEF Succeeds
  <2>2. p \in ActivePolicies(r, db)
    BY <2>1, LoadedIsActive DEF CommandsInv
  <2>3. p \in Policies /\ p.id \in PolicyIds /\ db.guards[p.id] # None /\ p.revision = db.guards[p.id].revision
    BY <2>2, DatabaseAssumption DEF ActivePolicies, CommandsInv, PoliciesInv, Policies
  <2>4. db.guards[p.id].epoch = p.epoch
    BY <2>3 DEF CommandsInv, PoliciesInv
  <2>5. /\ d.command = cmd.id /\ d.verdict = CommandVerdict(cmd, db)
        /\ d.request = IF cmd.kind \in {"create", "amend"}
                       THEN [r EXCEPT !.evaluation = d.verdict.outcome] ELSE r
    BY DEF Decision
  <2>6. /\ {"id", "amount", "evaluation"} \subseteq DOMAIN r /\ r.id = cmd.request
        /\ cmd.kind = "amend" => r.amount = cmd.amount
    <3>1. CASE cmd.kind = "create"
      <4>1. r = cmd.draft /\ cmd.kind # "amend"
        BY <3>1 DEF Revision
      <4>2. RequestRevision(cmd.draft) /\ cmd.draft.id = cmd.request
        BY <3>1, CommandsAssumption
      <4> QED  BY <4>1, <4>2 DEF RequestRevision, RequestFields
    <3>2. CASE cmd.kind = "amend"
      <4>1. r = DeriveAmendment(db.requests[cmd.request], cmd.amount)
        BY <3>2 DEF Revision
      <4>2. Stored(cmd.request, db.requests[cmd.request]) /\ db.requests[cmd.request] # None
        BY <2>1, <3>2, CommandsAssumption DEF Admissible, CommandsInv, DbShape
      <4> QED  BY <4>1, <4>2 DEF DeriveAmendment, Stored
    <3>3. CASE cmd.kind \in {"approve", "refuse"}
      <4>1. r = db.requests[cmd.request]
        BY <3>3 DEF Revision
      <4>2. Stored(cmd.request, db.requests[cmd.request]) /\ db.requests[cmd.request] # None
        BY <2>1, <3>3, CommandsAssumption DEF Admissible, CommandsInv, DbShape
      <4> QED  BY <3>3, <4>1, <4>2 DEF Stored
    <3> QED  BY <3>1, <3>2, <3>3, CommandsAssumption
  <2>7. Answers(d, cmd)
    BY <2>5, <2>6 DEF Answers
  <2>8. Input(cmd, db).policy = p
    BY DEF Input, EvaluationInput
  <2>9. d.verdict.policy = <<p.id, p.revision>> /\ d.verdict.epoch = p.epoch
    BY <2>5, <2>8, VerdictPolicy DEF CommandVerdict
  <2> QED  BY <2>3, <2>4, <2>7, <2>9 DEF Governed, PolicyOfDecision
<1> HIDE DEF runs, d, t
<1>3. runs => t.accounts \in [AccountsOf(d) -> Nat]
  BY <1>1, AccountsAreBound DEF CommandsInv, DbShape
<1>4. CallSound(t)  BY <1>1, <1>2, <1>3 DEF CallSound
<1> QED  BY <1>4 DEF t

-----------------------------------------------------------------------------
(* What is submitted again carries the payload of its claim.               *)

LEMMA FingerprintFixesPayload ==
  ASSUME NEW c \in Commands, NEW d \in Commands, Fingerprint(c) = Fingerprint(d)
  PROVE  /\ c.kind = d.kind /\ c.request = d.request
         /\ c.kind = "amend" => c.amount = d.amount
<1>1. /\ Fingerprint(c).kind = c.kind /\ Fingerprint(c).request = c.request
      /\ Fingerprint(d).kind = d.kind /\ Fingerprint(d).request = d.request
  BY CommandsAssumption DEF Fingerprint
<1>2. c.kind = "amend" => Fingerprint(c).amount = c.amount
  BY CommandsAssumption DEF Fingerprint
<1>3. d.kind = "amend" => Fingerprint(d).amount = d.amount
  BY CommandsAssumption DEF Fingerprint
<1> QED  BY <1>1, <1>2, <1>3

LEMMA InitCommands == Init => CommandsInv
<1> SUFFICES ASSUME Init PROVE CommandsInv
  OBVIOUS
<1>1. DbShape
  <2>1. \A r \in Requests : Stored(r, FirstDatabase.requests[r])
    <3>1. \A q : RequestRevision(q) => {"id", "amount", "evaluation"} \subseteq DOMAIN q
      BY DEF RequestRevision, RequestFields
    <3>2. \A r \in Requests : FirstDatabase.requests[r] # None =>
            RequestRevision(FirstDatabase.requests[r]) /\ FirstDatabase.requests[r].id = r
      BY DatabaseAssumption
    <3> QED  BY <3>1, <3>2 DEF Stored
  <2>2. \A p \in PolicyIds : FirstDatabase.guards[p] # None =>
          {"revision", "epoch", "counter"} \subseteq DOMAIN FirstDatabase.guards[p]
    BY DatabaseAssumption
  <2>3. /\ FirstDatabase.requests = [r \in Requests |-> FirstDatabase.requests[r]]
        /\ FirstDatabase.guards = [p \in PolicyIds |-> FirstDatabase.guards[p]]
    BY DatabaseAssumption
  <2>4. db.accounts \in [Accounts -> Nat]
    BY DEF Init
  <2> QED  BY <2>1, <2>2, <2>3, <2>4 DEF Init, DbShape
<1>2. ClaimsInv
  BY DatabaseAssumption DEF Init, ClaimsInv, ClaimSound, CommandIds
<1>3. PoliciesInv
  BY EpochsAssumption DEF Init, PoliciesInv, Policies
<1>4. CallsInv
  BY DEF Init, CallsInv, CallSound, Idle
<1> QED  BY <1>1, <1>2, <1>3, <1>4 DEF CommandsInv

LEMMA CallStep ==
  ASSUME CommandsInv, NEW v \in Servers, NEW t, CallSound(t), calls' = [calls EXCEPT ![v] = t],
         UNCHANGED <<db, publishing>>
  PROVE  CommandsInv'
<1>1. DbShape' /\ ClaimsInv' /\ PoliciesInv'
  BY DEF CommandsInv, DbShape, ClaimsInv, PoliciesInv, Stored, ClaimSound
<1>2. \A u \in Servers : calls'[u] = IF u = v THEN t ELSE calls[u]
  BY DEF CommandsInv, CallsInv
<1>3. \A u \in Servers : CallSound(calls'[u])
  BY <1>2 DEF CommandsInv, CallsInv
<1>4. CallsInv'
  BY <1>3 DEF CommandsInv, CallsInv, CallSound
<1> QED  BY <1>1, <1>4 DEF CommandsInv

\* A commit stores its claim, its decision and the revision it inserted.
LEMMA CommitWrites ==
  ASSUME CommandsInv, NEW v \in Servers, Commit(v)
  PROVE  LET t == calls[v]
             p == PolicyOfDecision(t.decision)
         IN  /\ t.at = "open" /\ t.cmd \in Commands /\ t.decision # None /\ t.claim = None
             /\ t.cmd.id \in CommandIds /\ t.cmd.request \in Requests /\ p \in PolicyIds
             /\ db.claims[t.cmd.id] = None /\ db.guards[p] = t.guard
             /\ DbShape'
             /\ db'.claims = [db.claims EXCEPT ![t.cmd.id] =
                   [fingerprint |-> Fingerprint(t.cmd), response |-> t.decision]]
             /\ db'.decisions = db.decisions \union {t.decision}
             /\ db'.policies = db.policies
             /\ db'.guards = [db.guards EXCEPT ![p].counter = @ + 1]
             /\ db'.requests = [db.requests EXCEPT ![t.cmd.request] =
                   IF Inserts(t) THEN t.decision.request ELSE db.requests[t.cmd.request]]
             /\ db'.authorities = db.authorities
             /\ db'.accounts = [a \in Accounts |-> IF a \in AccountsOf(t.decision)
                                                   THEN db.accounts[a] + 1 ELSE db.accounts[a]]
             /\ \A a \in AccountsOf(t.decision) : db.accounts[a] = t.accounts[a]
             /\ Inserts(t) => db.requests[t.cmd.request] = t.request
<1> DEFINE t == calls[v]
           p == PolicyOfDecision(t.decision)
<1>1. t.at = "open" /\ t.decision # None /\ ~WriteConflict(t) /\ db' = Writes(t)
  BY DEF Commit, Runs
<1>2. t.cmd \in Commands /\ t.claim = None /\ p \in PolicyIds /\ Answers(t.decision, t.cmd)
  BY <1>1 DEF CommandsInv, CallsInv, CallSound
<1>3. t.cmd.id \in CommandIds /\ t.cmd.request \in Requests
  BY <1>2, CommandsAssumption DEF CommandIds
<1>4. /\ db.claims[t.cmd.id] = None /\ db.guards[p] = t.guard
      /\ \A a \in AccountsOf(t.decision) : db.accounts[a] = t.accounts[a]
      /\ Inserts(t) => db.requests[t.cmd.request] = t.request
  BY <1>1, <1>2 DEF WriteConflict, AccountsMoved
<1> DEFINE claim == [fingerprint |-> Fingerprint(t.cmd), response |-> t.decision]
           request == IF Inserts(t) THEN t.decision.request ELSE db.requests[t.cmd.request]
           accounts == [a \in Accounts |-> IF a \in AccountsOf(t.decision)
                                           THEN db.accounts[a] + 1 ELSE db.accounts[a]]
<1>5. db' = [claims |-> [db.claims EXCEPT ![t.cmd.id] = claim],
             requests |-> [db.requests EXCEPT ![t.cmd.request] = request],
             decisions |-> db.decisions \union {t.decision},
             policies |-> db.policies,
             guards |-> [db.guards EXCEPT ![p].counter = @ + 1],
             authorities |-> db.authorities, accounts |-> accounts]
  BY <1>1 DEF Writes, CommandsInv, DbShape
<1>6. Stored(t.cmd.request, request)
  BY <1>2, <1>3 DEF Answers, Stored, CommandsInv, DbShape
<1>7. DbShape'
  <2>1. db.guards[p] # None
    BY <1>1, <1>4 DEF CommandsInv, CallsInv, CallSound, Governed
  <2>2. DOMAIN [db.guards[p] EXCEPT !.counter = @ + 1] = DOMAIN db.guards[p]
    OBVIOUS
  <2>3. accounts \in [Accounts -> Nat]
    BY DEF CommandsInv, DbShape
  <2> HIDE DEF t, p, request, claim, accounts
  <2> QED  BY <1>5, <1>6, <2>1, <2>2, <2>3 DEF CommandsInv, DbShape
<1> QED  BY <1>1, <1>2, <1>3, <1>4, <1>5, <1>7

LEMMA CommitKeeps == ASSUME NoneIsNoDocument, CommandsInv, NEW v \in Servers, Commit(v) PROVE CommandsInv'
<1> DEFINE t == calls[v]
           p == PolicyOfDecision(t.decision)
           d == t.decision
           id == t.cmd.id
           claim == [fingerprint |-> Fingerprint(t.cmd), response |-> d]
<1>1. /\ t.at = "open" /\ t.cmd \in Commands /\ d # None /\ t.claim = None
      /\ id \in CommandIds /\ p \in PolicyIds
      /\ db.claims[id] = None /\ db.guards[p] = t.guard
      /\ DbShape'
      /\ db'.claims = [db.claims EXCEPT ![id] = claim]
      /\ db'.decisions = db.decisions \union {d}
      /\ db'.policies = db.policies
      /\ db'.guards = [db.guards EXCEPT ![p].counter = @ + 1]
  BY CommitWrites
<1>2. Answers(d, t.cmd)
  BY <1>1 DEF CommandsInv, CallsInv, CallSound
<1>3. calls' = [calls EXCEPT ![v] = Idle] /\ UNCHANGED publishing
  BY DEF Commit
<1>4. claim # None /\ claim.fingerprint = Fingerprint(t.cmd) /\ claim.response = d
  BY DEF NoneIsNoDocument
<1>5. d.command = id  BY <1>2 DEF Answers
<1>6. db.claims = [i \in CommandIds |-> db.claims[i]] /\ db.guards = [q \in PolicyIds |-> db.guards[q]]
  BY DEF CommandsInv, DbShape
<1> HIDE DEF claim, d, p, id
<1>7. /\ db'.claims[id] = claim
      /\ \A i \in CommandIds : i # id => db'.claims[i] = db.claims[i]
  BY <1>1, <1>6
<1>8. ClaimSound(claim, id)
  BY <1>1, <1>2, <1>4 DEF ClaimSound, id
<1>9. \A e \in db.decisions : e.command # id
  BY <1>1 DEF CommandsInv, ClaimsInv
<1>10. ClaimsInv'
  <2>1. \A i \in CommandIds : ClaimSound(db'.claims[i], i)
    BY <1>7, <1>8 DEF CommandsInv, ClaimsInv
  <2>2. \A i \in CommandIds : db'.claims[i] # None => db'.claims[i].response \in db'.decisions
    BY <1>1, <1>4, <1>7 DEF CommandsInv, ClaimsInv
  <2>3. \A e, f \in db'.decisions : e.command = f.command => e = f
    BY <1>1, <1>5, <1>9 DEF CommandsInv, ClaimsInv
  <2>4. \A e \in db'.decisions : e.command \in CommandIds => db'.claims[e.command] # None
    BY <1>1, <1>4, <1>5, <1>7 DEF CommandsInv, ClaimsInv
  <2> QED  BY <2>1, <2>2, <2>3, <2>4 DEF ClaimsInv, ClaimSound
<1>11. PoliciesInv'
  <2>1. ASSUME NEW q \in Policies,
               db'.guards[q.id] # None, db'.guards[q.id].revision = q.revision
        PROVE  db'.guards[q.id].epoch = q.epoch
    <3>1. q.id \in PolicyIds
      BY DatabaseAssumption DEF Policies
    <3>2. CASE q.id # p
      <4>1. db'.guards[q.id] = db.guards[q.id]
        BY <1>1, <1>6, <3>1, <3>2
      <4> QED  BY <2>1, <4>1 DEF CommandsInv, PoliciesInv
    <3>3. CASE q.id = p
      <4>1. db'.guards[p] = [db.guards[p] EXCEPT !.counter = @ + 1]
        BY <1>1, <1>6
      <4>2. db.guards[p] # None /\ {"revision", "epoch", "counter"} \subseteq DOMAIN db.guards[p]
        BY <1>1 DEF CommandsInv, DbShape, CallsInv, CallSound, Governed, p, d
      <4>3. db'.guards[p].revision = db.guards[p].revision /\ db'.guards[p].epoch = db.guards[p].epoch
        BY <4>1, <4>2
      <4> QED  BY <2>1, <3>3, <4>2, <4>3 DEF CommandsInv, PoliciesInv
    <3> QED  BY <3>2, <3>3
  <2> QED  BY <1>1, <1>3, <2>1 DEF CommandsInv, PoliciesInv
<1>12. CallsInv'
  <2>1. \A u \in Servers : calls'[u] = IF u = v THEN Idle ELSE calls[u]
    BY <1>3 DEF CommandsInv, CallsInv
  <2>2. ASSUME NEW u \in Servers, calls'[u].at = "open"
        PROVE  CallSound(calls[u]) /\ u # v /\ calls'[u] = calls[u]
    BY <2>1, <2>2 DEF CommandsInv, CallsInv, Idle
  <2>3. ASSUME NEW u \in Servers, calls'[u].at = "open", calls[u].claim # None
        PROVE  calls[u].claim = db'.claims[calls[u].cmd.id]
    <3>1. calls[u].claim = db.claims[calls[u].cmd.id] /\ calls[u].cmd.id \in CommandIds
      BY <2>2, <2>3 DEF CallSound, CommandIds
    <3> QED  BY <1>1, <1>7, <2>3, <3>1
  <2>4. \A u \in Servers : CallSound(calls[u])'
    BY <2>2, <2>3 DEF CallSound
  <2> QED  BY <1>3, <2>4 DEF CommandsInv, CallsInv
<1> QED  BY <1>1, <1>10, <1>11, <1>12 DEF CommandsInv

\* A policy's document is published under its revision, in place of the one before.
LEMMA PublishKeeps == ASSUME CommandsInv, PublishPolicy PROVE CommandsInv'
<1>1. PICK p \in Publications :
        /\ db' = [db EXCEPT !.policies = {q \in db.policies : q.id # p.id \/ q.revision # p.revision}
                                            \union {p}]
        /\ publishing' = p
  BY DEF PublishPolicy
<1> DEFINE kept == {q \in db.policies : q.id # p.id \/ q.revision # p.revision} \union {p}
<1>2. db' = [claims |-> db.claims, requests |-> db.requests, decisions |-> db.decisions,
             policies |-> kept, guards |-> db.guards, authorities |-> db.authorities,
             accounts |-> db.accounts]
  BY <1>1 DEF CommandsInv, DbShape
<1>3. kept \subseteq Policies /\ \A q, o \in kept : q.id = o.id /\ q.revision = o.revision => q = o
  BY DEF CommandsInv, PoliciesInv, Policies
<1> HIDE DEF kept
<1>4. DbShape'  BY <1>2 DEF CommandsInv, DbShape
<1>5. ClaimsInv'  BY <1>2 DEF CommandsInv, ClaimsInv
<1>6. PoliciesInv'  BY <1>1, <1>2, <1>3 DEF CommandsInv, PoliciesInv, Policies
<1>7. CallsInv'  BY <1>2 DEF CommandsInv, CallsInv, CallSound, PublishPolicy
<1> QED  BY <1>4, <1>5, <1>6, <1>7 DEF CommandsInv

LEMMA ActivateKeeps == ASSUME NoneIsNoDocument, CommandsInv, ActivatePolicy PROVE CommandsInv'
<1> DEFINE p == publishing
           guard == [revision |-> p.revision, epoch |-> p.epoch,
                     counter |-> IF db.guards[p.id] = None THEN 0 ELSE db.guards[p.id].counter]
<1>1. /\ p \in Policies /\ p.id \in PolicyIds
      /\ db' = [db EXCEPT !.guards[p.id] = guard] /\ publishing' = None /\ UNCHANGED calls
  BY DatabaseAssumption DEF CommandsInv, PoliciesInv, ActivatePolicy, Policies
<1>2. /\ guard.revision = p.revision /\ guard.epoch = p.epoch
      /\ {"revision", "epoch", "counter"} \subseteq DOMAIN guard
  OBVIOUS
<1> HIDE DEF guard
<1>3. db' = [claims |-> db.claims, requests |-> db.requests, decisions |-> db.decisions,
             policies |-> db.policies, guards |-> [db.guards EXCEPT ![p.id] = guard],
             authorities |-> db.authorities, accounts |-> db.accounts]
  BY <1>1 DEF CommandsInv, DbShape
<1>4. DbShape'  BY <1>2, <1>3 DEF CommandsInv, DbShape
<1>5. ClaimsInv'  BY <1>3 DEF CommandsInv, ClaimsInv
<1>6. PoliciesInv'
  <2>1. ASSUME NEW q \in Policies, db'.guards[q.id] # None, db'.guards[q.id].revision = q.revision
        PROVE  db'.guards[q.id].epoch = q.epoch
    <3>1. q.id \in PolicyIds  BY DatabaseAssumption DEF Policies
    <3>2. db'.guards[q.id] = IF q.id = p.id THEN guard ELSE db.guards[q.id]
      BY <1>3, <3>1 DEF CommandsInv, DbShape
    <3>3. CASE q.id = p.id
      BY <1>1, <1>2, <2>1, <3>2, <3>3, EpochsAssumption DEF Policies
    <3>4. CASE q.id # p.id
      BY <2>1, <3>2, <3>4 DEF CommandsInv, PoliciesInv
    <3> QED  BY <3>3, <3>4
  <2> QED  BY <1>1, <1>3, <2>1 DEF CommandsInv, PoliciesInv
<1>7. CallsInv'  BY <1>1, <1>3 DEF CommandsInv, CallsInv, CallSound
<1> QED  BY <1>4, <1>5, <1>6, <1>7 DEF CommandsInv

LEMMA RevokeKeeps == ASSUME CommandsInv, RevokeAuthority PROVE CommandsInv'
<1>1. PICK a \in Principals : db' = [db EXCEPT !.authorities[a].revoked = TRUE]
  BY DEF RevokeAuthority
<1>2. db' = [claims |-> db.claims, requests |-> db.requests, decisions |-> db.decisions,
             policies |-> db.policies, guards |-> db.guards,
             authorities |-> [db.authorities EXCEPT ![a].revoked = TRUE],
             accounts |-> db.accounts]
  BY <1>1 DEF CommandsInv, DbShape
<1>3. DbShape'  BY <1>2 DEF CommandsInv, DbShape
<1>4. UNCHANGED <<calls, publishing>>  BY DEF RevokeAuthority
<1> QED
  BY <1>2, <1>3, <1>4 DEF CommandsInv, ClaimsInv, PoliciesInv, CallsInv, CallSound

LEMMA NextCommands == NoneIsNoDocument /\ CommandsInv /\ [Next]_vars => CommandsInv'
<1> SUFFICES ASSUME NoneIsNoDocument, CommandsInv, [Next]_vars PROVE CommandsInv'
  OBVIOUS
<1>1. ASSUME NEW v \in Servers, Submit(v)
      PROVE  CommandsInv'
  <2>1. PICK cmd \in Commands : calls' = [calls EXCEPT ![v] = Begin(cmd)]
    BY <1>1 DEF Submit
  <2>2. CallSound(Begin(cmd))  BY BeginSound
  <2> QED  BY <1>1, <2>1, <2>2, CallStep DEF Submit
<1>2. ASSUME NEW v \in Servers, Replay(v) \/ Fail(v)
      PROVE  CommandsInv'
  <2>1. CallSound(Idle)  BY DEF CallSound, Idle
  <2> QED  BY <1>2, <2>1, CallStep DEF Replay, Fail
<1>3. ASSUME NEW v \in Servers, Commit(v)
      PROVE  CommandsInv'
  BY <1>3, CommitKeeps
<1>4. ASSUME NEW v \in Servers, Retry(v)
      PROVE  CommandsInv'
  <2>1. calls[v].cmd \in Commands
    BY <1>4 DEF Retry, Runs, CommandsInv, CallsInv, CallSound
  <2>2. CallSound(Begin(calls[v].cmd))  BY <2>1, BeginSound
  <2> QED  BY <1>4, <2>2, CallStep DEF Retry
<1>5. CASE PublishPolicy  BY <1>5, PublishKeeps
<1>6. CASE ActivatePolicy  BY <1>6, ActivateKeeps
<1>7. CASE RevokeAuthority  BY <1>7, RevokeKeeps
<1>8. CASE UNCHANGED vars
  BY <1>8 DEF vars, CommandsInv, DbShape, ClaimsInv, PoliciesInv, CallsInv, CallSound, Stored, ClaimSound
<1> QED
  BY <1>1, <1>2, <1>3, <1>4, <1>5, <1>6, <1>7, <1>8 DEF Next

LEMMA CommandsInvariant == ASSUME NoneIsNoDocument PROVE CommandsSpec => []CommandsInv
<1> QED  BY InitCommands, NextCommands, PTL DEF CommandsSpec

(***************************************************************************)
(* A command that clients send again and again, through any server, while  *)
(* commits race and policies change, decides once; what a replay answers   *)
(* is the effect of the command the client sent.                           *)
(***************************************************************************)
THEOREM CommandsDecideOnce ==
  ASSUME NoneIsNoDocument
  PROVE  CommandsSpec => []CommandsTakeEffectOnce
<1>1. CommandsInv => CommandsTakeEffectOnce
  <2> SUFFICES ASSUME CommandsInv, NEW v \in Servers, Replays(calls[v])
               PROVE  LET cmd == calls[v].cmd
                          reply == calls[v].claim.response
                      IN  /\ reply \in db.decisions
                          /\ reply.request.id = cmd.request
                          /\ cmd.kind = "amend" => reply.request.amount = cmd.amount
    BY DEF CommandsTakeEffectOnce, CommandsInv, ClaimsInv
  <2> DEFINE cmd == calls[v].cmd
             claim == calls[v].claim
  <2>1. cmd \in Commands /\ claim # None /\ claim = db.claims[cmd.id] /\ claim.fingerprint = Fingerprint(cmd)
    BY DEF CommandsInv, CallsInv, CallSound, Replays
  <2>2. claim.response \in db.decisions /\ ClaimSound(claim, cmd.id)
    BY <2>1 DEF CommandsInv, ClaimsInv, CommandIds
  <2>3. PICK c \in Commands : claim.fingerprint = Fingerprint(c) /\ Answers(claim.response, c)
    BY <2>1, <2>2 DEF ClaimSound
  <2>4. c.kind = cmd.kind /\ c.request = cmd.request /\ (c.kind = "amend" => c.amount = cmd.amount)
    BY <2>1, <2>3, FingerprintFixesPayload
  <2> QED  BY <2>2, <2>3, <2>4 DEF Answers
<1> QED  BY <1>1, CommandsInvariant, PTL

(***************************************************************************)
(* Whenever a policy is published, before, during or between the two       *)
(* writes of its publication, no decision is committed under a revision or *)
(* an epoch that the guard has left.                                       *)
(***************************************************************************)
THEOREM DecisionsAreCurrent ==
  ASSUME NoneIsNoDocument
  PROVE  CommandsSpec => DecidedUnderActivePolicy
<1> DEFINE Current(d) == LET guard == db.guards[d.verdict.policy[1]]
                         IN  d.verdict.policy[2] = guard.revision /\ d.verdict.epoch = guard.epoch
           StillCurrent == \A d \in db'.decisions \ db.decisions : Current(d)
<1>1. CommandsInv /\ [Next]_vars => [StillCurrent]_vars
  <2> SUFFICES ASSUME CommandsInv, Next, NEW d \in db'.decisions \ db.decisions
               PROVE  Current(d)
    BY DEF vars
  <2>1. ASSUME NEW v \in Servers, Commit(v)
        PROVE  Current(d)
    <3>1. /\ d = calls[v].decision /\ d # None /\ calls[v].at = "open"
          /\ db.guards[PolicyOfDecision(d)] = calls[v].guard
      <4>1. /\ db'.decisions = db.decisions \union {calls[v].decision}
            /\ calls[v].decision # None /\ calls[v].at = "open"
            /\ db.guards[PolicyOfDecision(calls[v].decision)] = calls[v].guard
        BY <2>1, CommitWrites
      <4> QED  BY <4>1
    <3>2. Governed(d, calls[v].guard)
      BY <3>1 DEF CommandsInv, CallsInv, CallSound
    <3> QED  BY <3>1, <3>2 DEF Governed, PolicyOfDecision
  <2>2. CASE PublishPolicy \/ ActivatePolicy \/ RevokeAuthority
    <3>1. db'.decisions = db.decisions
      BY <2>2 DEF PublishPolicy, ActivatePolicy, RevokeAuthority, CommandsInv, DbShape
    <3> QED  BY <3>1
  <2> QED  BY <2>1, <2>2 DEF Next, Submit, Replay, Fail, Retry
<1> QED  BY <1>1, CommandsInvariant, PTL DEF CommandsSpec, DecidedUnderActivePolicy

-----------------------------------------------------------------------------
(* The allowance of a policy.  A transaction counts every request of its   *)
(* snapshot.  Meanwhile a decision under the same policy moves its guard,  *)
(* and an approval on a common account moves that account; what else       *)
(* commits can only take a request away from those that count.             *)

\* A revision of a policy is published once, with the rules it keeps.
RevisionsAreFinal == \A p, q \in Policies : p.id = q.id /\ p.revision = q.revision => p = q

\* Two revisions of one request that rules and totals cannot tell apart.
Alike(r, e) ==
  \A f \in {"id", "organization", "requester", "purpose", "project", "category", "scopes",
             "cumulative"} : e[f] = r[f]

\* Of a snapshot, what other requests have consumed does not grow when requests are left out.
LEMMA LessIsConsumed ==
  ASSUME NEW r, NEW e, Alike(r, e), NEW dimension, NEW s, NEW z, IsFiniteSet(Requests),
         \A q \in Requests : s.requests[q] # None => s.requests[q].cumulative \in Nat,
         \A q \in Requests : z.requests[q] = None \/ z.requests[q] = s.requests[q]
  PROVE  /\ Consumed(dimension, r, s) \in Nat /\ Consumed(dimension, e, z) \in Nat
         /\ Consumed(dimension, e, z) <= Consumed(dimension, r, s)
<1> DEFINE S == Sharing(dimension, r, s)
           T == Sharing(dimension, e, z)
           f == [q \in S |-> s.requests[q].cumulative]
           g == [q \in T |-> z.requests[q].cumulative]
<1>1. OwnDimensionId(dimension, e) = OwnDimensionId(dimension, r) /\ e.id = r.id
  BY DEF Alike, OwnDimensionId
<1>2. S \subseteq Requests /\ T \in SUBSET S /\ \A q \in T : z.requests[q] = s.requests[q]
  BY <1>1 DEF Sharing
<1>3. \A q \in S : s.requests[q].cumulative \in Nat
  BY DEF Sharing
<1>4. IsFiniteSet(S)
  BY <1>2, FS_Subset
<1> HIDE DEF S, T
<1>5. f \in [S -> Nat] /\ g \in [T -> Nat] /\ \A q \in T : g[q] <= f[q]
  BY <1>2, <1>3
<1> HIDE DEF f, g
<1>6. SumFunction(f) \in Nat /\ SumFunction(g) \in Nat /\ SumFunction(g) <= SumFunction(f)
  BY <1>2, <1>4, <1>5, SumOfPart
<1> QED  BY <1>6 DEF Consumed, f, g, S, T

LEMMA LessIsTotal ==
  ASSUME NEW r, NEW e, Alike(r, e), r.cumulative \in Nat, NEW s, NEW z, IsFiniteSet(Requests),
         \A q \in Requests : s.requests[q] # None => s.requests[q].cumulative \in Nat,
         \A q \in Requests : z.requests[q] = None \/ z.requests[q] = s.requests[q],
         NEW t \in CumulativeTotals(e, z)
  PROVE  \E u \in CumulativeTotals(r, s) :
           /\ u.dimension = t.dimension /\ u.id = OwnDimensionId(u.dimension, r)
           /\ t.increase \in Nat /\ u.increase \in Nat /\ t.increase <= u.increase
<1> DEFINE D(x) == {"purpose", "employee"} \union (IF x.project = None THEN {} ELSE {"project"})
           T(d, x, y) == [dimension |-> d, id |-> OwnDimensionId(d, x),
                          increase |-> x.cumulative + Consumed(d, x, y)]
<1>1. D(e) = D(r) /\ e.cumulative = r.cumulative
  BY DEF Alike
<1>2. PICK d \in D(e) : t = T(d, e, z)
  BY DEF CumulativeTotals
<1>3. T(d, r, s) \in CumulativeTotals(r, s)
  BY <1>1 DEF CumulativeTotals
<1>4. /\ Consumed(d, r, s) \in Nat /\ Consumed(d, e, z) \in Nat
      /\ Consumed(d, e, z) <= Consumed(d, r, s)
  BY LessIsConsumed
<1> HIDE DEF D
<1>5. T(d, r, s).dimension = d /\ T(d, r, s).id = OwnDimensionId(d, r)
  OBVIOUS
<1>6. T(d, r, s).increase = r.cumulative + Consumed(d, r, s)
  OBVIOUS
<1>7. t.dimension = d /\ t.increase = e.cumulative + Consumed(d, e, z)
  BY <1>2
<1> HIDE DEF T
<1> QED  BY <1>1, <1>3, <1>4, <1>5, <1>6, <1>7

\* The rules that apply to alike revisions are the same.
LEMMA SameCandidates ==
  ASSUME NEW i, NEW j, Alike(i.request, j.request), j.policy = i.policy, j.roles = i.roles,
         j.now = i.now
  PROVE  Candidates(j) = Candidates(i)
<1>1. \A scope : Covers(scope, j.request) <=> Covers(scope, i.request)
  BY DEF Alike, Covers
<1>2. PolicyApplicability(j.policy, j.request, j.now) = PolicyApplicability(i.policy, i.request, i.now)
  BY <1>1 DEF PolicyApplicability
<1>3. \A rule : MatchesCategory(rule, j.request) <=> MatchesCategory(rule, i.request)
  BY DEF Alike, MatchesCategory
<1> QED  BY <1>2, <1>3 DEF Candidates, CategoryRules

\* The requests that count with a decision.
LEMMA CountingIs ==
  ASSUME NEW s, "requests" \in DOMAIN s, NEW d, NEW q \in Requests
  PROVE  Counting(s, d).requests[q] =
           IF \E e \in s.decisions : /\ e.request.id = q /\ CountsWith(e, d)
                                     /\ e.request.revision = s.requests[q].revision
           THEN s.requests[q] ELSE None
BY DEF Counting

\* What a snapshot clears without a human is within the limits of its rules.
LEMMA ClearIsWithin ==
  ASSUME NEW r, NEW d, Alike(r, d.request), r.cumulative \in Nat, NEW p \in Policies, NEW s, NEW i,
         "requests" \in DOMAIN s,
         \A q \in Requests : s.requests[q] # None => s.requests[q].cumulative \in Nat,
         i.request = r, i.policy = p, i.roles = s.authorities[r.requester].roles, i.now = Now,
         i.totals = CumulativeTotals(r, s), Clear(i)
  PROVE  WithinLimits(d, p, s)
<1> DEFINE e == d.request
           j == [request |-> e, policy |-> p, roles |-> s.authorities[e.requester].roles, now |-> Now]
<1>1. Candidates(j) = Candidates(i)
  <2>1. e.requester = r.requester
    BY DEF Alike
  <2>2. j.request = e /\ j.policy = p /\ j.roles = s.authorities[e.requester].roles /\ j.now = Now
    OBVIOUS
  <2> HIDE DEF j
  <2> QED  BY <2>1, <2>2, SameCandidates
<1> SUFFICES ASSUME NEW rule \in Candidates(i), NEW t \in CumulativeTotals(e, Counting(s, d)),
                    rule.maxCumulative # None, t.dimension = rule.dimension
             PROVE  t.increase <= rule.maxCumulative
  BY <1>1 DEF WithinLimits
<1>2. rule.maxCumulative \in Nat
  <2>1. rule \in p.rules
    BY DEF Candidates, CategoryRules
  <2> QED  BY <2>1, LimitsAssumption DEF Policies
<1>3. IsFiniteSet(Requests)
  BY DatabaseAssumption
<1>4. PICK u \in CumulativeTotals(r, s) :
         /\ u.dimension = t.dimension /\ u.id = OwnDimensionId(u.dimension, r)
         /\ t.increase \in Nat /\ u.increase \in Nat /\ t.increase <= u.increase
  <2> DEFINE z == Counting(s, d)
  <2>1. \A q \in Requests : z.requests[q] = None \/ z.requests[q] = s.requests[q]
    BY CountingIs
  <2>2. t \in CumulativeTotals(e, z)
    OBVIOUS
  <2> HIDE DEF z
  <2> QED  BY <1>3, <2>1, <2>2, LessIsTotal
<1>5. u \in TotalsOf(rule.dimension, i)
  BY <1>4 DEF TotalsOf
<1>6. ~FailureOf("cumulative_limit", rule, i)
  <2>1. RuleFailures(rule, i) = {}
    BY ReasonsVanish, NoFailure DEF Clear
  <2> QED  BY <2>1 DEF RuleFailures
<1>7. ~(u.increase > rule.maxCumulative)
  BY <1>5, <1>6 DEF FailureOf
<1> QED  BY <1>2, <1>4, <1>7

\* What is within the limits stays so when no other requests come to count.
LEMMA StaysWithin ==
  ASSUME NEW d, d.request.cumulative \in Nat, NEW p \in Policies, NEW s, NEW z,
         WithinLimits(d, p, s),
         z.authorities[d.request.requester].roles = s.authorities[d.request.requester].roles,
         \A q \in Requests : Counting(s, d).requests[q] # None =>
           Counting(s, d).requests[q].cumulative \in Nat,
         \A q \in Requests : Counting(z, d).requests[q] = None
                               \/ Counting(z, d).requests[q] = Counting(s, d).requests[q]
  PROVE  WithinLimits(d, p, z)
<1> DEFINE e == d.request
           i == [request |-> e, policy |-> p, roles |-> s.authorities[e.requester].roles, now |-> Now]
           x == Counting(s, d)
           y == Counting(z, d)
<1>1. i = [request |-> e, policy |-> p, roles |-> z.authorities[e.requester].roles, now |-> Now]
  OBVIOUS
<1> SUFFICES ASSUME NEW rule \in Candidates(i), NEW t \in CumulativeTotals(e, y),
                    rule.maxCumulative # None, t.dimension = rule.dimension
             PROVE  t.increase <= rule.maxCumulative
  BY <1>1 DEF WithinLimits
<1>2. rule.maxCumulative \in Nat
  <2>1. rule \in p.rules
    BY DEF Candidates, CategoryRules
  <2> QED  BY <2>1, LimitsAssumption DEF Policies
<1>3. IsFiniteSet(Requests) /\ Alike(e, e)
  BY DatabaseAssumption DEF Alike
<1>4. PICK u \in CumulativeTotals(e, x) :
         /\ u.dimension = t.dimension
         /\ t.increase \in Nat /\ u.increase \in Nat /\ t.increase <= u.increase
  <2> HIDE DEF x, y
  <2>1. /\ \A q \in Requests : x.requests[q] # None => x.requests[q].cumulative \in Nat
        /\ \A q \in Requests : y.requests[q] = None \/ y.requests[q] = x.requests[q]
    BY DEF x, y
  <2> QED  BY <1>3, <2>1, LessIsTotal
<1>5. u.increase <= rule.maxCumulative
  BY <1>4 DEF WithinLimits
<1> QED  BY <1>2, <1>4, <1>5

\* Limits are those of the requests, the decisions and the requester's roles.
LEMMA LimitsReadRecords ==
  ASSUME NEW d, NEW p, NEW s, NEW z, WithinLimits(d, p, s),
         "requests" \in DOMAIN s, "requests" \in DOMAIN z,
         z.requests = s.requests, z.decisions = s.decisions,
         z.authorities[d.request.requester].roles = s.authorities[d.request.requester].roles
  PROVE  WithinLimits(d, p, z)
<1> DEFINE r == d.request
           x == Counting(s, d)
           y == Counting(z, d)
<1>1. x.requests = y.requests
  BY DEF Counting
<1>2. CumulativeTotals(r, x) = CumulativeTotals(r, y)
  <2> HIDE DEF x, y
  <2>1. \A dim : Sharing(dim, r, x) = Sharing(dim, r, y)
    BY <1>1 DEF Sharing
  <2>2. \A dim : Consumed(dim, r, x) = Consumed(dim, r, y)
    BY <1>1, <2>1 DEF Consumed
  <2> QED  BY <2>2 DEF CumulativeTotals
<1> QED  BY <1>2 DEF WithinLimits

\* What is decided without a human is clear.
LEMMA AllowanceNeedsNobody ==
  ASSUME NEW cmd, NEW s, "allowance" \in CommandVerdict(cmd, s).reasons
  PROVE  Clear(Input(cmd, s))
<1> DEFINE i == Input(cmd, s)
           v == EvaluateRequestPolicy(i)
<1>1. CommandVerdict(cmd, s) # Verdict("denied", {"human_denied"}, i)
  BY DEF Verdict
<1>2. "allowance" \in Evaluate(i).reasons
  BY <1>1 DEF CommandVerdict
<1>3. v = [outcome |-> v.outcome, reasons |-> v.reasons, policy |-> v.policy, epoch |-> v.epoch,
           role |-> v.role]
  <2>1. \E outcome, reasons : v = Verdict(outcome, reasons, i)
    BY DEF EvaluateRequestPolicy
  <2> HIDE DEF v
  <2> QED  BY <2>1 DEF Verdict
<1> HIDE DEF i, v
<1>4. Evaluate(i).reasons \subseteq v.reasons \union {"missing_facts"}
  BY <1>3 DEF Evaluate, v
<1>5. "allowance" \in v.reasons
  BY <1>2, <1>4
<1> QED  BY <1>5, AllowanceIsClear DEF v, i

-----------------------------------------------------------------------------
(* The invariant.                                                          *)

\* The guard counts, decisions are of revisions that exist, and roles are not edited.
RecordsInv ==
  /\ \A r \in Requests : db.requests[r] # None => RequestRevision(db.requests[r])
  /\ \A p \in PolicyIds : db.guards[p] # None => db.guards[p].counter \in Nat
  /\ \A d \in db.decisions :
       LET q == db.requests[d.request.id]
       IN  /\ d.request.id \in Requests /\ q # None
           /\ d.request.revision \in Nat /\ d.request.revision <= q.revision
  /\ db.authorities = [a \in DOMAIN FirstDatabase.authorities |-> db.authorities[a]]
  /\ \A a \in DOMAIN FirstDatabase.authorities : "roles" \in DOMAIN db.authorities[a]

\* An approval without a human is within the limits of the policy it names.
Respected(d, s) ==
  "allowance" \in d.verdict.reasons =>
    \A p \in s.policies : d.verdict.policy = <<p.id, p.revision>> => WithinLimits(d, p, s)

\* The revision a call inserts follows the one it read; the one it decides is stored.
Follows(t, q) ==
  IF Inserts(t)
  THEN t.request = None
         \/ (t.request.revision \in Nat /\ t.request.revision < t.decision.request.revision)
  ELSE q # None /\ t.decision.request.revision <= q.revision

\* Neither the guard nor the accounts a call read were written.
Unmoved(t, s) ==
  /\ s.guards[PolicyOfDecision(t.decision)].counter = t.guard.counter
  /\ \A a \in AccountsOf(t.decision) : s.accounts[a] = t.accounts[a]

\* As long as that is so, what a call decided is respected.
Respects(t, s) ==
  t.at = "open" /\ t.decision # None =>
    LET d == t.decision
        guard == s.guards[PolicyOfDecision(d)]
    IN  /\ RequestRevision(d.request) /\ d.request # None
        /\ Follows(t, s.requests[t.cmd.request])
        /\ guard # None /\ t.guard.counter \in Nat /\ t.guard.counter <= guard.counter
        /\ \E p \in s.policies : d.verdict.policy = <<p.id, p.revision>>
        /\ \A a \in AccountsOf(d) : t.accounts[a] \in Nat /\ t.accounts[a] <= s.accounts[a]
        /\ Unmoved(t, s) => Respected(d, s)

AllowanceInv == CommandsInv /\ RecordsInv /\ \A v \in Servers : Respects(calls[v], db)

LEMMA InitAllowance == Init => AllowanceInv
<1> SUFFICES ASSUME Init PROVE AllowanceInv
  OBVIOUS
<1>1. CommandsInv
  BY InitCommands
<1>2. RecordsInv
  BY DatabaseAssumption DEF Init, RecordsInv
<1>3. \A v \in Servers : Respects(calls[v], db)
  BY DEF Init, Respects, Idle
<1> QED  BY <1>1, <1>2, <1>3 DEF AllowanceInv

\* The revision a command that succeeds is about.
LEMMA RevisionIsSound ==
  ASSUME AllowanceInv, NEW cmd \in Commands, Succeeds(cmd, db)
  PROVE  LET r == Revision(cmd, db)
             q == db.requests[cmd.request]
         IN  /\ RequestRevision(r)
             /\ cmd.kind = "create" => q = None
             /\ cmd.kind = "amend" => q.revision \in Nat /\ q.revision < r.revision
             /\ cmd.kind \notin {"create", "amend"} => r = q /\ q # None
<1> DEFINE r == Revision(cmd, db)
           q == db.requests[cmd.request]
<1>1. Admissible(cmd, db) /\ cmd.request \in Requests
  BY CommandsAssumption DEF Succeeds
<1>2. q # None => RequestRevision(q)
  BY <1>1 DEF AllowanceInv, RecordsInv
<1>3. CASE cmd.kind = "create"
  BY <1>1, <1>3, CommandsAssumption DEF Admissible, Revision
<1>4. CASE cmd.kind = "amend"
  <2>1. q # None /\ r = DeriveAmendment(q, cmd.amount) /\ cmd.amount \in Nat /\ cmd.amount > q.amount
    BY <1>1, <1>4, CommandsAssumption DEF Admissible, Amendable, Revision
  <2>2. RequestRevision(q)
    BY <1>2, <2>1
  <2> HIDE DEF r, q
  <2>3. /\ DOMAIN r = DOMAIN q /\ r = [f \in DOMAIN q |-> r[f]]
        /\ r.revision = q.revision + 1 /\ r.amount = cmd.amount
        /\ r.cumulative = q.cumulative + (cmd.amount - q.amount) /\ r.requester = q.requester
    BY <2>1, <2>2 DEF DeriveAmendment, RequestRevision, RequestFields
  <2>4. q.amount \in Nat /\ q.cumulative \in Nat /\ q.revision \in Nat
    BY <2>2 DEF RequestRevision
  <2>5. r.revision \in Nat /\ r.cumulative \in Nat
    BY <2>1, <2>3, <2>4
  <2>6. RequestRevision(r)
    BY <2>1, <2>2, <2>3, <2>5 DEF RequestRevision
  <2>7. q.revision < r.revision
    BY <2>3, <2>4
  <2> QED  BY <1>4, <2>4, <2>6, <2>7 DEF r, q
<1>5. CASE cmd.kind \in {"approve", "refuse"}
  BY <1>1, <1>2, <1>5 DEF Admissible, Revision
<1> QED  BY <1>3, <1>4, <1>5, CommandsAssumption

\* A command that succeeds is decided under the policy that is loaded for it.
LEMMA DecidedUnderLoaded ==
  ASSUME AllowanceInv, NEW cmd \in Commands, Succeeds(cmd, db)
  PROVE  LET p == LoadActivePolicy(Revision(cmd, db), db)
             d == Decision(cmd, db)
         IN  /\ p \in db.policies /\ p \in Policies /\ p.id \in PolicyIds /\ db.guards[p.id] # None
             /\ d.verdict.policy = <<p.id, p.revision>>
<1> DEFINE r == Revision(cmd, db)
           p == LoadActivePolicy(r, db)
<1>1. p \in ActivePolicies(r, db)
  BY LoadedIsActive DEF AllowanceInv, CommandsInv, Succeeds
<1>2. p \in db.policies /\ p \in Policies /\ p.id \in PolicyIds /\ db.guards[p.id] # None
  BY <1>1, DatabaseAssumption DEF ActivePolicies, AllowanceInv, CommandsInv, PoliciesInv, Policies
<1>3. Input(cmd, db).policy = p
  BY DEF Input, EvaluationInput
<1>4. Decision(cmd, db).verdict = CommandVerdict(cmd, db)
  BY DEF Decision
<1>5. CommandVerdict(cmd, db).policy = <<p.id, p.revision>>
  BY <1>3, VerdictPolicy DEF CommandVerdict
<1> QED  BY <1>2, <1>4, <1>5

\* What a call decides on its snapshot is within the limits of that snapshot.
LEMMA BeginRespects ==
  ASSUME NoneIsNoDocument, AllowanceInv, NEW cmd \in Commands
  PROVE  Respects(Begin(cmd), db)
<1> DEFINE runs == db.claims[cmd.id] = None /\ Succeeds(cmd, db)
           d == Decision(cmd, db)
           r == Revision(cmd, db)
           q == db.requests[cmd.request]
           p == LoadActivePolicy(r, db)
           t == Begin(cmd)
<1>1. /\ t.at = "open" /\ t.cmd = cmd /\ t.decision = (IF runs THEN d ELSE None)
      /\ runs => /\ t.guard = db.guards[PolicyOfDecision(d)] /\ t.request = q
                 /\ t.accounts = [a \in AccountsOf(d) |-> db.accounts[a]]
  BY DEF Begin
<1> SUFFICES ASSUME runs, t.decision = d PROVE Respects(t, db)
  BY <1>1 DEF Respects
<1>2. /\ RequestRevision(r)
      /\ cmd.kind = "create" => q = None
      /\ cmd.kind = "amend" => q.revision \in Nat /\ q.revision < r.revision
      /\ cmd.kind \notin {"create", "amend"} => r = q /\ q # None
  BY RevisionIsSound
<1>3. /\ p \in db.policies /\ p \in Policies /\ p.id \in PolicyIds /\ db.guards[p.id] # None
      /\ d.verdict.policy = <<p.id, p.revision>>
  BY DecidedUnderLoaded
<1>4. /\ d.verdict = CommandVerdict(cmd, db)
      /\ d.request = IF cmd.kind \in {"create", "amend"}
                     THEN [r EXCEPT !.evaluation = d.verdict.outcome] ELSE r
  BY DEF Decision
<1>5. "allowance" \in d.verdict.reasons => Clear(Input(cmd, db))
  BY <1>4, AllowanceNeedsNobody
<1>6. /\ Input(cmd, db).request = r /\ Input(cmd, db).policy = p /\ Input(cmd, db).now = Now
      /\ Input(cmd, db).roles = db.authorities[r.requester].roles
      /\ Input(cmd, db).totals = CumulativeTotals(r, db)
  BY DEF Input, EvaluationInput
<1> HIDE DEF r, p, d, t, q
<1>7. RequestRevision(d.request) /\ Alike(r, d.request) /\ d.request.revision = r.revision
  <2>1. CASE cmd.kind \in {"create", "amend"}
    <3>1. d.request = [r EXCEPT !.evaluation = d.verdict.outcome]
      BY <1>4, <2>1
    <3>2. r = [f \in DOMAIN r |-> r[f]] /\ RequestFields \subseteq DOMAIN r
      BY <1>2 DEF RequestRevision
    <3>3. DOMAIN d.request = DOMAIN r /\ \A f \in DOMAIN r : f # "evaluation" => d.request[f] = r[f]
      BY <3>1, <3>2
    <3>4. d.request = [f \in DOMAIN d.request |-> d.request[f]]
      BY <3>1
    <3>5. Alike(r, d.request)
      BY <3>2, <3>3 DEF Alike, RequestFields
    <3>6. d.request.revision = r.revision /\ d.request.amount = r.amount
            /\ d.request.cumulative = r.cumulative /\ d.request.requester = r.requester
      BY <3>2, <3>3 DEF RequestFields
    <3> QED  BY <1>2, <3>2, <3>3, <3>4, <3>5, <3>6 DEF RequestRevision
  <2>2. CASE cmd.kind \notin {"create", "amend"}
    BY <1>2, <1>4, <2>2 DEF Alike
  <2> QED  BY <2>1, <2>2
<1>8. d.request # None
  <2>1. CASE cmd.kind \in {"create", "amend"}
    <3>1. d.request = [r EXCEPT !["evaluation"] = d.verdict.outcome]
      BY <1>4, <2>1
    <3> HIDE DEF NoneIsNoDocument
    <3>2. \A e, f, x : [e EXCEPT ![f] = x] # None
      BY DEF NoneIsNoDocument
    <3> QED  BY <3>1, <3>2
  <2>2. CASE cmd.kind \notin {"create", "amend"}
    BY <1>2, <1>4, <2>2
  <2> QED  BY <2>1, <2>2
<1>9. Follows(t, q)
  <2>1. Inserts(t) <=> cmd.kind \in {"create", "amend"}
    BY <1>1 DEF Inserts
  <2>2. r.revision \in Nat
    BY <1>2 DEF RequestRevision
  <2> QED  BY <1>1, <1>2, <1>7, <2>1, <2>2 DEF Follows
<1>10. Respected(d, db)
  <2> SUFFICES ASSUME "allowance" \in d.verdict.reasons, NEW o \in db.policies,
                      d.verdict.policy = <<o.id, o.revision>>
               PROVE  WithinLimits(d, o, db)
    BY DEF Respected
  <2>1. o = p
    <3>1. o.id = p.id /\ o.revision = p.revision
      BY <1>3
    <3> QED  BY <1>3, <3>1 DEF AllowanceInv, CommandsInv, PoliciesInv
  <2>2. "requests" \in DOMAIN db /\ r.cumulative \in Nat
    BY <1>2 DEF AllowanceInv, CommandsInv, DbShape, RequestRevision
  <2>3. \A x \in Requests : db.requests[x] # None => db.requests[x].cumulative \in Nat
    BY DEF AllowanceInv, RecordsInv, RequestRevision
  <2>4. Clear(Input(cmd, db))
    BY <1>5
  <2>5. WithinLimits(d, p, db)
    BY <1>3, <1>6, <1>7, <2>2, <2>3, <2>4, ClearIsWithin
  <2> QED  BY <2>1, <2>5
<1>11. db.guards[PolicyOfDecision(d)] # None /\ db.guards[PolicyOfDecision(d)].counter \in Nat
  BY <1>3 DEF PolicyOfDecision, AllowanceInv, RecordsInv
<1>12. t.guard = db.guards[PolicyOfDecision(d)]
  BY <1>1
<1>13. \A a \in AccountsOf(d) : t.accounts[a] \in Nat /\ t.accounts[a] <= db.accounts[a]
  <2>1. \A a \in AccountsOf(d) : a \in Accounts /\ t.accounts[a] = db.accounts[a]
    BY <1>1, AccountsAreBound
  <2> QED  BY <2>1 DEF AllowanceInv, CommandsInv, DbShape
<1> QED
  BY <1>1, <1>3, <1>7, <1>8, <1>9, <1>10, <1>11, <1>12, <1>13 DEF Respects, q

\* A step of one call that leaves the database alone.
LEMMA CallRespects ==
  ASSUME AllowanceInv, CommandsInv', NEW v \in Servers, NEW t, Respects(t, db),
         calls' = [calls EXCEPT ![v] = t], UNCHANGED db
  PROVE  AllowanceInv'
<1>1. \A u \in Servers : calls'[u] = IF u = v THEN t ELSE calls[u]
  BY DEF AllowanceInv, CommandsInv, CallsInv
<1>2. \A u \in Servers : Respects(calls'[u], db')
  BY <1>1 DEF AllowanceInv
<1>3. RecordsInv'
  BY DEF AllowanceInv, RecordsInv
<1> QED  BY <1>2, <1>3 DEF AllowanceInv

\* What a commit does to the records of a request.
LEMMA CommitRecords ==
  ASSUME NoneIsNoDocument, AllowanceInv, NEW v \in Servers, Commit(v)
  PROVE  LET t == calls[v]
             d == t.decision
             p == PolicyOfDecision(d)
         IN  /\ RecordsInv'
             /\ d.request.id = t.cmd.request /\ t.cmd.request \in Requests /\ p \in PolicyIds
             /\ db.guards[p] # None /\ db'.guards[p] # None /\ db.guards[p].counter \in Nat
             /\ db'.guards[p].counter = db.guards[p].counter + 1
             /\ \A o \in PolicyIds : o # p => db'.guards[o] = db.guards[o]
             /\ \A q \in Requests : q # t.cmd.request => db'.requests[q] = db.requests[q]
             /\ db'.requests[t.cmd.request] # None
             /\ \/ db'.requests[t.cmd.request] = db.requests[t.cmd.request]
                \/ /\ db'.requests[t.cmd.request] = d.request /\ d.request.revision \in Nat
                   /\ \A e \in db.decisions :
                        e.request.id = t.cmd.request => e.request.revision < d.request.revision
                   /\ db.requests[t.cmd.request] # None =>
                        /\ db.requests[t.cmd.request].revision \in Nat
                        /\ db.requests[t.cmd.request].revision < d.request.revision
<1> DEFINE t == calls[v]
           d == t.decision
           p == PolicyOfDecision(d)
           id == t.cmd.request
           q == db.requests[id]
<1>1. /\ t.at = "open" /\ t.cmd \in Commands /\ d # None
      /\ id \in Requests /\ p \in PolicyIds
      /\ db.guards[p] = t.guard
      /\ DbShape'
      /\ db'.decisions = db.decisions \union {d}
      /\ db'.guards = [db.guards EXCEPT ![p].counter = @ + 1]
      /\ db'.requests = [db.requests EXCEPT ![id] = IF Inserts(t) THEN d.request ELSE q]
      /\ db'.authorities = db.authorities
      /\ Inserts(t) => q = t.request
  BY CommitWrites DEF AllowanceInv
<1>2. Respects(t, db) /\ Answers(d, t.cmd) /\ Governed(d, t.guard)
  BY <1>1 DEF AllowanceInv, CommandsInv, CallsInv, CallSound
<1>3. RequestRevision(d.request) /\ d.request # None /\ Follows(t, q)
  BY <1>1, <1>2 DEF Respects
<1>4. d.request.id = id /\ db.guards[p] # None
  BY <1>1, <1>2 DEF Answers, Governed
<1>5. db.requests = [r \in Requests |-> db.requests[r]] /\ db.guards = [o \in PolicyIds |-> db.guards[o]]
  BY DEF AllowanceInv, CommandsInv, DbShape
<1>6. db.guards[p].counter \in Nat /\ "counter" \in DOMAIN db.guards[p]
  BY <1>1, <1>4 DEF AllowanceInv, RecordsInv, CommandsInv, DbShape
<1> HIDE DEF t, d, p, id, q
<1>7. db'.guards[p] = [db.guards[p] EXCEPT !.counter = db.guards[p].counter + 1]
  BY <1>1, <1>5
<1>8. db'.guards[p].counter = db.guards[p].counter + 1
  BY <1>6, <1>7
<1>9. \A o \in PolicyIds : o # p => db'.guards[o] = db.guards[o]
  BY <1>1, <1>5
<1>10. /\ db'.requests[id] = IF Inserts(t) THEN d.request ELSE q
       /\ \A r \in Requests : r # id => db'.requests[r] = db.requests[r]
  BY <1>1, <1>5
<1>11. \A e \in db.decisions : e.request.id = id =>
         q # None /\ e.request.revision \in Nat /\ e.request.revision <= q.revision
  BY DEF AllowanceInv, RecordsInv, q
<1>12. q # None => RequestRevision(q)
  BY <1>1 DEF AllowanceInv, RecordsInv, q
<1>13. q # None => q.revision \in Nat
  BY <1>12 DEF RequestRevision
<1>14. d.request.revision \in Nat
  BY <1>3 DEF RequestRevision
<1>15. \/ db'.requests[id] = q /\ q # None /\ d.request.revision <= q.revision
       \/ /\ db'.requests[id] = d.request
          /\ q # None => q.revision < d.request.revision
  <2>1. CASE Inserts(t)
    BY <1>1, <1>3, <1>10, <2>1 DEF Follows, d
  <2>2. CASE ~Inserts(t)
    BY <1>3, <1>10, <2>2 DEF Follows, d
  <2> QED  BY <2>1, <2>2
<1>16. db'.requests[id] # None /\ RequestRevision(db'.requests[id])
  BY <1>3, <1>12, <1>15
<1>17. db'.guards[p] # None
  BY <1>7 DEF NoneIsNoDocument
<1>18. \A e \in db.decisions : e.request.id = id /\ db'.requests[id] # q =>
         e.request.revision < d.request.revision
  BY <1>11, <1>13, <1>14, <1>15
<1>19. RecordsInv'
  <2>1. \A r \in Requests : db'.requests[r] # None => RequestRevision(db'.requests[r])
    BY <1>10, <1>16 DEF AllowanceInv, RecordsInv
  <2>2. \A o \in PolicyIds : db'.guards[o] # None => db'.guards[o].counter \in Nat
    BY <1>6, <1>8, <1>9 DEF AllowanceInv, RecordsInv
  <2>3. ASSUME NEW e \in db'.decisions
        PROVE  LET x == db'.requests[e.request.id]
               IN  /\ e.request.id \in Requests /\ x # None
                   /\ e.request.revision \in Nat /\ e.request.revision <= x.revision
    <3>1. CASE e = d
      BY <1>1, <1>4, <1>13, <1>14, <1>15, <1>16, <3>1
    <3>2. CASE e # d /\ e.request.id = id
      <4>1. e \in db.decisions
        BY <1>1, <3>2
      <4> QED  BY <1>1, <1>11, <1>13, <1>14, <1>15, <1>16, <3>2, <4>1
    <3>3. CASE e # d /\ e.request.id # id
      <4>1. e \in db.decisions
        BY <1>1, <3>3
      <4>2. /\ e.request.id \in Requests /\ db.requests[e.request.id] # None
            /\ e.request.revision \in Nat /\ e.request.revision <= db.requests[e.request.id].revision
        BY <4>1 DEF AllowanceInv, RecordsInv
      <4> QED  BY <1>10, <3>3, <4>2
    <3> QED  BY <3>1, <3>2, <3>3
  <2>4. /\ db'.authorities = [a \in DOMAIN FirstDatabase.authorities |-> db'.authorities[a]]
        /\ \A a \in DOMAIN FirstDatabase.authorities : "roles" \in DOMAIN db'.authorities[a]
    BY <1>1 DEF AllowanceInv, RecordsInv
  <2> QED  BY <2>1, <2>2, <2>3, <2>4 DEF RecordsInv
<1> QED
  BY <1>1, <1>4, <1>6, <1>8, <1>9, <1>10, <1>13, <1>14, <1>15, <1>16, <1>17, <1>18, <1>19
  DEF t, d, p, id, q

\* What a commit of another call leaves to count with a decision it does not count with:
\* all of it, or all but the request that was decided.
LEMMA CommitLeaves ==
  ASSUME NoneIsNoDocument, AllowanceInv, NEW v \in Servers, Commit(v), NEW x,
         ~CountsWith(calls[v].decision, x), NEW q \in Requests
  PROVE  Counting(db', x).requests[q] = None
           \/ Counting(db', x).requests[q] = Counting(db, x).requests[q]
<1> DEFINE t == calls[v]
           d == t.decision
           Counts(s) == \E e \in s.decisions : /\ e.request.id = q /\ CountsWith(e, x)
                                               /\ e.request.revision = s.requests[q].revision
<1>1. /\ d.request.id = t.cmd.request /\ t.cmd.request \in Requests
      /\ \A r \in Requests : r # t.cmd.request => db'.requests[r] = db.requests[r]
      /\ \/ db'.requests[t.cmd.request] = db.requests[t.cmd.request]
         \/ /\ db'.requests[t.cmd.request] = d.request /\ d.request.revision \in Nat
            /\ \A e \in db.decisions :
                 e.request.id = t.cmd.request => e.request.revision < d.request.revision
  BY CommitRecords
<1>2. db'.decisions = db.decisions \union {d} /\ DbShape'
  BY CommitWrites DEF AllowanceInv
<1>3. ~CountsWith(d, x)
  OBVIOUS
<1>4. "requests" \in DOMAIN db /\ "requests" \in DOMAIN db'
  BY <1>2 DEF AllowanceInv, CommandsInv, DbShape
<1>5. /\ Counting(db, x).requests[q] = IF Counts(db) THEN db.requests[q] ELSE None
      /\ Counting(db', x).requests[q] = IF Counts(db') THEN db'.requests[q] ELSE None
  BY <1>4, CountingIs
<1> HIDE DEF t, d
<1>6. CASE db'.requests[q] = db.requests[q]
  <2>1. Counts(db') => Counts(db)
    BY <1>2, <1>3, <1>6
  <2> HIDE DEF Counts
  <2> QED  BY <1>5, <1>6, <2>1
<1>7. CASE db'.requests[q] # db.requests[q]
  <2>1. /\ q = t.cmd.request /\ db'.requests[q] = d.request /\ d.request.revision \in Nat
        /\ \A e \in db.decisions : e.request.id = q => e.request.revision < d.request.revision
    BY <1>1, <1>7
  <2>2. ASSUME NEW e \in db.decisions, e.request.id = q
        PROVE  e.request.revision # d.request.revision
    <3>1. e.request.revision \in Nat /\ e.request.revision < d.request.revision
      BY <2>1, <2>2 DEF AllowanceInv, RecordsInv
    <3> QED  BY <2>1, <3>1
  <2>3. ~Counts(db')
    BY <1>2, <1>3, <2>1, <2>2
  <2> HIDE DEF Counts
  <2> QED  BY <1>5, <2>3
<1> QED  BY <1>6, <1>7

\* So a call that is still open keeps what it decided, or what it read was written.
LEMMA OthersRespect ==
  ASSUME NoneIsNoDocument, AllowanceInv, NEW v \in Servers, Commit(v),
         NEW t, Respects(t, db), CallSound(t)
  PROVE  Respects(t, db')
<1> SUFFICES ASSUME t.at = "open", t.decision # None PROVE Respects(t, db')
  BY DEF Respects
<1> DEFINE d == t.decision
           p == PolicyOfDecision(d)
           o == PolicyOfDecision(calls[v].decision)
           id == t.cmd.request
           c == calls[v].cmd.request
<1>1. /\ RequestRevision(d.request) /\ d.request # None
      /\ Follows(t, db.requests[id])
      /\ db.guards[p] # None /\ t.guard.counter \in Nat /\ t.guard.counter <= db.guards[p].counter
      /\ \E x \in db.policies : d.verdict.policy = <<x.id, x.revision>>
      /\ \A a \in AccountsOf(d) : t.accounts[a] \in Nat /\ t.accounts[a] <= db.accounts[a]
      /\ Unmoved(t, db) => Respected(d, db)
  BY DEF Respects
<1>2. p \in PolicyIds /\ id \in Requests
  BY CommandsAssumption DEF CallSound
<1>3. /\ db'.policies = db.policies /\ db'.authorities = db.authorities
  BY CommitWrites DEF AllowanceInv
<1>4. /\ o \in PolicyIds /\ db.guards[o] # None /\ db'.guards[o] # None /\ db.guards[o].counter \in Nat
      /\ db'.guards[o].counter = db.guards[o].counter + 1
      /\ \A x \in PolicyIds : x # o => db'.guards[x] = db.guards[x]
  BY CommitRecords
<1>5. /\ c \in Requests
      /\ \A q \in Requests : q # c => db'.requests[q] = db.requests[q]
      /\ db'.requests[c] # None
      /\ \/ db'.requests[c] = db.requests[c]
         \/ /\ db'.requests[c] = calls[v].decision.request
            /\ calls[v].decision.request.revision \in Nat
            /\ db.requests[c] # None =>
                 /\ db.requests[c].revision \in Nat
                 /\ db.requests[c].revision < calls[v].decision.request.revision
  BY CommitRecords
<1>6. Follows(t, db'.requests[id])
  <2>1. CASE Inserts(t)
    BY <1>1, <2>1 DEF Follows
  <2>2. CASE ~Inserts(t)
    <3>1. db.requests[id] # None /\ d.request.revision <= db.requests[id].revision
      BY <1>1, <2>2 DEF Follows
    <3>2. d.request.revision \in Nat
      BY <1>1 DEF RequestRevision
    <3> HIDE DEF d, id, c
    <3>3. db'.requests[id] # None /\ d.request.revision <= db'.requests[id].revision
      <4>1. CASE id # c
        BY <1>2, <1>5, <3>1, <4>1
      <4>2. CASE id = c
        BY <1>2, <1>5, <3>1, <3>2, <4>2
      <4> QED  BY <4>1, <4>2
    <3> QED  BY <2>2, <3>3 DEF Follows, d
  <2> QED  BY <2>1, <2>2
<1>7. /\ db'.guards[p] # None /\ t.guard.counter <= db'.guards[p].counter
      /\ db'.guards[p].counter = t.guard.counter => p # o /\ db.guards[p].counter = t.guard.counter
  <2> HIDE DEF p, o
  <2>1. CASE p = o
    <3>1. db.guards[p].counter \in Nat /\ db'.guards[p].counter = db.guards[p].counter + 1
      BY <1>4, <2>1
    <3> QED  BY <1>1, <1>4, <2>1, <3>1
  <2>2. CASE p # o
    BY <1>1, <1>2, <1>4, <2>2
  <2> QED  BY <2>1, <2>2
<1>8. ASSUME NEW a \in AccountsOf(d)
      PROVE  /\ t.accounts[a] \in Nat /\ t.accounts[a] <= db'.accounts[a]
             /\ db'.accounts[a] = t.accounts[a] =>
                  a \notin AccountsOf(calls[v].decision) /\ db.accounts[a] = t.accounts[a]
  <2>1. a \in Accounts
    BY AccountsAreBound
  <2>2. db'.accounts[a] = IF a \in AccountsOf(calls[v].decision)
                          THEN db.accounts[a] + 1 ELSE db.accounts[a]
    <3>1. db'.accounts = [b \in Accounts |-> IF b \in AccountsOf(calls[v].decision)
                                             THEN db.accounts[b] + 1 ELSE db.accounts[b]]
      BY CommitWrites DEF AllowanceInv
    <3> QED  BY <2>1, <3>1
  <2>3. db.accounts[a] \in Nat /\ t.accounts[a] \in Nat /\ t.accounts[a] <= db.accounts[a]
    BY <1>1, <2>1 DEF AllowanceInv, CommandsInv, DbShape
  <2> QED  BY <2>2, <2>3
<1>9. Unmoved(t, db') => ~CountsWith(calls[v].decision, d) /\ Unmoved(t, db)
  BY <1>7, <1>8 DEF Unmoved, CountsWith
<1>10. ASSUME ~CountsWith(calls[v].decision, d), Respected(d, db)
      PROVE  Respected(d, db')
  <2> SUFFICES ASSUME "allowance" \in d.verdict.reasons, NEW x \in db.policies,
                      d.verdict.policy = <<x.id, x.revision>>
               PROVE  WithinLimits(d, x, db')
    BY <1>3 DEF Respected
  <2>1. WithinLimits(d, x, db)
    BY <1>10 DEF Respected
  <2>2. x \in Policies
    BY DEF AllowanceInv, CommandsInv, PoliciesInv
  <2>3. \A q \in Requests : Counting(db', d).requests[q] = None
           \/ Counting(db', d).requests[q] = Counting(db, d).requests[q]
    BY <1>10, CommitLeaves
  <2>4. ASSUME NEW q \in Requests, Counting(db, d).requests[q] # None
        PROVE  Counting(db, d).requests[q].cumulative \in Nat
    <3>1. "requests" \in DOMAIN db
      BY DEF AllowanceInv, CommandsInv, DbShape
    <3>2. Counting(db, d).requests[q] = db.requests[q]
      BY <2>4, <3>1, CountingIs
    <3>3. RequestRevision(db.requests[q])
      BY <2>4, <3>2 DEF AllowanceInv, RecordsInv
    <3> QED  BY <3>2, <3>3 DEF RequestRevision
  <2>5. d.request.cumulative \in Nat
    BY <1>1 DEF RequestRevision
  <2>6. db'.authorities[d.request.requester].roles = db.authorities[d.request.requester].roles
    BY <1>3
  <2> HIDE DEF d
  <2> QED  BY <2>1, <2>2, <2>3, <2>4, <2>5, <2>6, StaysWithin
<1> HIDE DEF p, o
<1> QED  BY <1>1, <1>3, <1>6, <1>7, <1>8, <1>9, <1>10 DEF Respects, p

\* What changes no request and no decision: a publication, or an edit of an authority.
LEMMA QuietRespects ==
  ASSUME RevisionsAreFinal, AllowanceInv, CommandsInv', UNCHANGED calls,
         db'.requests = db.requests, db'.decisions = db.decisions, db'.accounts = db.accounts,
         db.policies \subseteq db'.policies,
         \A p \in PolicyIds : db'.guards[p] # None => db'.guards[p].counter \in Nat,
         \A p \in PolicyIds : db.guards[p] # None =>
           db'.guards[p] # None /\ db'.guards[p].counter = db.guards[p].counter,
         db'.authorities = [a \in DOMAIN FirstDatabase.authorities |-> db'.authorities[a]],
         \A a \in DOMAIN FirstDatabase.authorities :
           "roles" \in DOMAIN db'.authorities[a] /\ db'.authorities[a].roles = db.authorities[a].roles
  PROVE  AllowanceInv'
<1>1. RecordsInv'
  BY DEF AllowanceInv, RecordsInv
<1>2. ASSUME NEW t, Respects(t, db), CallSound(t), t.at = "open", t.decision # None
      PROVE  Respects(t, db')
  <2> DEFINE d == t.decision
             g == PolicyOfDecision(d)
  <2>1. /\ RequestRevision(d.request) /\ d.request # None
        /\ Follows(t, db.requests[t.cmd.request])
        /\ db.guards[g] # None /\ t.guard.counter \in Nat /\ t.guard.counter <= db.guards[g].counter
        /\ \E p \in db.policies : d.verdict.policy = <<p.id, p.revision>>
        /\ \A a \in AccountsOf(d) : t.accounts[a] \in Nat /\ t.accounts[a] <= db.accounts[a]
        /\ Unmoved(t, db) => Respected(d, db)
    BY <1>2 DEF Respects
  <2>2. g \in PolicyIds
    BY <1>2 DEF CallSound
  <2>3. db'.guards[g] # None /\ db'.guards[g].counter = db.guards[g].counter
    BY <2>1, <2>2
  <2>4. ASSUME Respected(d, db)
        PROVE  Respected(d, db')
    <3> SUFFICES ASSUME "allowance" \in d.verdict.reasons, NEW x \in db'.policies,
                        d.verdict.policy = <<x.id, x.revision>>
                 PROVE  WithinLimits(d, x, db')
      BY DEF Respected
    <3>1. x \in Policies /\ x \in db.policies
      <4>1. PICK p \in db.policies : d.verdict.policy = <<p.id, p.revision>>
        BY <2>1
      <4>2. p.id = x.id /\ p.revision = x.revision
        BY <4>1
      <4>3. p \in Policies /\ x \in Policies
        BY DEF AllowanceInv, CommandsInv, PoliciesInv, Policies
      <4> QED  BY <4>2, <4>3 DEF RevisionsAreFinal
    <3>2. WithinLimits(d, x, db)
      BY <2>4, <3>1 DEF Respected
    <3>3. "requests" \in DOMAIN db /\ "requests" \in DOMAIN db'
      BY DEF AllowanceInv, CommandsInv, DbShape
    <3>4. d.request.requester \in DOMAIN FirstDatabase.authorities
      BY <2>1 DEF RequestRevision
    <3>5. db'.authorities[d.request.requester].roles = db.authorities[d.request.requester].roles
      BY <3>4
    <3>6. db'.requests = db.requests /\ db'.decisions = db.decisions
      OBVIOUS
    <3> HIDE DEF d
    <3> QED  BY <3>2, <3>3, <3>5, <3>6, LimitsReadRecords
  <2>5. \E p \in db'.policies : d.verdict.policy = <<p.id, p.revision>>
    BY <2>1
  <2>6. Follows(t, db'.requests[t.cmd.request])
    BY <2>1
  <2>7. Unmoved(t, db') => Unmoved(t, db)
    BY <2>3 DEF Unmoved
  <2> HIDE DEF g
  <2> QED  BY <2>1, <2>3, <2>4, <2>5, <2>6, <2>7 DEF Respects, g
<1>3. \A v \in Servers : Respects(calls'[v], db')
  <2> SUFFICES ASSUME NEW v \in Servers PROVE Respects(calls[v], db')
    OBVIOUS
  <2>1. Respects(calls[v], db) /\ CallSound(calls[v])
    BY DEF AllowanceInv, CommandsInv, CallsInv
  <2>2. CASE calls[v].at = "open" /\ calls[v].decision # None
    BY <1>2, <2>1, <2>2
  <2>3. CASE ~(calls[v].at = "open" /\ calls[v].decision # None)
    BY <2>3 DEF Respects
  <2> QED  BY <2>2, <2>3
<1> QED  BY <1>1, <1>3 DEF AllowanceInv

LEMMA PublishRespects ==
  ASSUME RevisionsAreFinal, AllowanceInv, CommandsInv', PublishPolicy PROVE AllowanceInv'
<1>1. PICK p \in Publications :
        db' = [db EXCEPT !.policies = {q \in db.policies : q.id # p.id \/ q.revision # p.revision}
                                         \union {p}]
  BY DEF PublishPolicy
<1> DEFINE kept == {q \in db.policies : q.id # p.id \/ q.revision # p.revision} \union {p}
<1>2. db' = [claims |-> db.claims, requests |-> db.requests, decisions |-> db.decisions,
             policies |-> kept, guards |-> db.guards, authorities |-> db.authorities,
             accounts |-> db.accounts]
  BY <1>1 DEF AllowanceInv, CommandsInv, DbShape
<1>3. db.policies \subseteq kept
  <2> SUFFICES ASSUME NEW q \in db.policies, q.id = p.id, q.revision = p.revision PROVE q = p
    OBVIOUS
  <2>1. q \in Policies /\ p \in Policies
    BY DEF AllowanceInv, CommandsInv, PoliciesInv, Policies
  <2> QED  BY <2>1 DEF RevisionsAreFinal
<1> HIDE DEF kept
<1>4. /\ db'.requests = db.requests /\ db'.decisions = db.decisions /\ db'.policies = kept
      /\ db'.guards = db.guards /\ db'.authorities = db.authorities
      /\ db'.accounts = db.accounts
  BY <1>2
<1>5. UNCHANGED calls  BY DEF PublishPolicy
<1>6. /\ \A o \in PolicyIds : db.guards[o] # None => db.guards[o].counter \in Nat
      /\ db.authorities = [a \in DOMAIN FirstDatabase.authorities |-> db.authorities[a]]
      /\ \A a \in DOMAIN FirstDatabase.authorities : "roles" \in DOMAIN db.authorities[a]
  BY DEF AllowanceInv, RecordsInv
<1> QED  BY <1>3, <1>4, <1>5, <1>6, QuietRespects

LEMMA ActivateRespects ==
  ASSUME NoneIsNoDocument, RevisionsAreFinal, AllowanceInv, CommandsInv', ActivatePolicy PROVE AllowanceInv'
<1> DEFINE p == publishing
           guard == [revision |-> p.revision, epoch |-> p.epoch,
                     counter |-> IF db.guards[p.id] = None THEN 0 ELSE db.guards[p.id].counter]
<1>1. /\ p \in Policies /\ p.id \in PolicyIds
      /\ db' = [db EXCEPT !.guards[p.id] = guard] /\ UNCHANGED calls
  BY DatabaseAssumption DEF AllowanceInv, CommandsInv, PoliciesInv, ActivatePolicy, Policies
<1>2. guard.counter = IF db.guards[p.id] = None THEN 0 ELSE db.guards[p.id].counter
  OBVIOUS
<1> HIDE DEF guard
<1>3. db' = [claims |-> db.claims, requests |-> db.requests, decisions |-> db.decisions,
             policies |-> db.policies, guards |-> [db.guards EXCEPT ![p.id] = guard],
             authorities |-> db.authorities, accounts |-> db.accounts]
  BY <1>1 DEF AllowanceInv, CommandsInv, DbShape
<1>4. /\ db'.requests = db.requests /\ db'.decisions = db.decisions /\ db'.policies = db.policies
      /\ db'.guards = [db.guards EXCEPT ![p.id] = guard] /\ db'.authorities = db.authorities
      /\ db'.accounts = db.accounts
  BY <1>3
<1>5. /\ \A o \in PolicyIds : db.guards[o] # None => db.guards[o].counter \in Nat
      /\ db.authorities = [a \in DOMAIN FirstDatabase.authorities |-> db.authorities[a]]
      /\ \A a \in DOMAIN FirstDatabase.authorities : "roles" \in DOMAIN db.authorities[a]
      /\ db.guards = [o \in PolicyIds |-> db.guards[o]]
  BY DEF AllowanceInv, RecordsInv, CommandsInv, DbShape
<1>6. \A o \in PolicyIds : db'.guards[o] = IF o = p.id THEN guard ELSE db.guards[o]
  BY <1>4, <1>5
<1>7. guard # None
  BY DEF NoneIsNoDocument, guard
<1> HIDE DEF p
<1>8. \A o \in PolicyIds : db'.guards[o] # None => db'.guards[o].counter \in Nat
  BY <1>2, <1>5, <1>6
<1>9. \A o \in PolicyIds : db.guards[o] # None =>
         db'.guards[o] # None /\ db'.guards[o].counter = db.guards[o].counter
  BY <1>2, <1>6, <1>7
<1> QED  BY <1>1, <1>4, <1>5, <1>8, <1>9, QuietRespects

LEMMA RevokeRespects ==
  ASSUME RevisionsAreFinal, AllowanceInv, CommandsInv', RevokeAuthority PROVE AllowanceInv'
<1>1. PICK a \in Principals : db' = [db EXCEPT !.authorities[a].revoked = TRUE]
  BY DEF RevokeAuthority
<1> DEFINE revoked == [db.authorities EXCEPT ![a].revoked = TRUE]
<1>2. db' = [claims |-> db.claims, requests |-> db.requests, decisions |-> db.decisions,
             policies |-> db.policies, guards |-> db.guards, authorities |-> revoked,
             accounts |-> db.accounts]
  BY <1>1 DEF AllowanceInv, CommandsInv, DbShape
<1>3. UNCHANGED calls  BY DEF RevokeAuthority
<1>4. /\ \A o \in PolicyIds : db.guards[o] # None => db.guards[o].counter \in Nat
      /\ db.authorities = [b \in DOMAIN FirstDatabase.authorities |-> db.authorities[b]]
      /\ \A b \in DOMAIN FirstDatabase.authorities : "roles" \in DOMAIN db.authorities[b]
  BY DEF AllowanceInv, RecordsInv
<1>5. /\ revoked = [b \in DOMAIN FirstDatabase.authorities |-> revoked[b]]
      /\ \A b \in DOMAIN FirstDatabase.authorities :
           revoked[b] = IF b = a THEN [db.authorities[a] EXCEPT !.revoked = TRUE] ELSE db.authorities[b]
  BY <1>4
<1> HIDE DEF revoked
<1>6. ASSUME NEW b \in DOMAIN FirstDatabase.authorities
      PROVE  "roles" \in DOMAIN revoked[b] /\ revoked[b].roles = db.authorities[b].roles
  <2>1. CASE b = a
    BY <1>4, <1>5, <2>1
  <2>2. CASE b # a
    BY <1>4, <1>5, <2>2
  <2> QED  BY <2>1, <2>2
<1>7. /\ db'.requests = db.requests /\ db'.decisions = db.decisions /\ db'.policies = db.policies
      /\ db'.guards = db.guards /\ db'.authorities = revoked
      /\ db'.accounts = db.accounts
  BY <1>2
<1> QED  BY <1>3, <1>4, <1>5, <1>6, <1>7, QuietRespects

LEMMA NextAllowance ==
  NoneIsNoDocument /\ RevisionsAreFinal /\ AllowanceInv /\ [Next]_vars => AllowanceInv'
<1> SUFFICES ASSUME NoneIsNoDocument, RevisionsAreFinal, AllowanceInv, [Next]_vars
             PROVE  AllowanceInv'
  OBVIOUS
<1>1. CommandsInv'
  BY NextCommands DEF AllowanceInv
<1>2. ASSUME NEW v \in Servers, Submit(v)
      PROVE  AllowanceInv'
  <2>1. PICK cmd \in Commands : calls' = [calls EXCEPT ![v] = Begin(cmd)]
    BY <1>2 DEF Submit
  <2>2. Respects(Begin(cmd), db)  BY BeginRespects
  <2> QED  BY <1>1, <1>2, <2>1, <2>2, CallRespects DEF Submit
<1>3. ASSUME NEW v \in Servers, Replay(v) \/ Fail(v)
      PROVE  AllowanceInv'
  <2>1. Respects(Idle, db)  BY DEF Respects, Idle
  <2> QED  BY <1>1, <1>3, <2>1, CallRespects DEF Replay, Fail
<1>4. ASSUME NEW v \in Servers, Retry(v)
      PROVE  AllowanceInv'
  <2>1. calls[v].cmd \in Commands
    BY <1>4 DEF Retry, Runs, AllowanceInv, CommandsInv, CallsInv, CallSound
  <2>2. Respects(Begin(calls[v].cmd), db)  BY <2>1, BeginRespects
  <2> QED  BY <1>1, <1>4, <2>2, CallRespects DEF Retry
<1>5. ASSUME NEW v \in Servers, Commit(v)
      PROVE  AllowanceInv'
  <2>1. RecordsInv'
    BY <1>5, CommitRecords
  <2>2. \A u \in Servers : calls'[u] = IF u = v THEN Idle ELSE calls[u]
    BY <1>5 DEF Commit, AllowanceInv, CommandsInv, CallsInv
  <2>3. ASSUME NEW u \in Servers
        PROVE  Respects(calls'[u], db')
    <3>1. CASE u = v
      BY <2>2, <3>1 DEF Respects, Idle
    <3>2. CASE u # v
      <4>1. Respects(calls[u], db) /\ CallSound(calls[u]) /\ calls'[u] = calls[u]
        BY <2>2, <3>2 DEF AllowanceInv, CommandsInv, CallsInv
      <4>2. Respects(calls[u], db')
        BY <1>5, <4>1, OthersRespect
      <4> QED  BY <4>1, <4>2
    <3> QED  BY <3>1, <3>2
  <2> QED  BY <1>1, <2>1, <2>3 DEF AllowanceInv
<1>6. CASE PublishPolicy  BY <1>1, <1>6, PublishRespects
<1>7. CASE ActivatePolicy  BY <1>1, <1>7, ActivateRespects
<1>8. CASE RevokeAuthority  BY <1>1, <1>8, RevokeRespects
<1>9. CASE UNCHANGED vars
  <2>1. RecordsInv'  BY <1>9 DEF vars, AllowanceInv, RecordsInv
  <2>2. \A v \in Servers : Respects(calls'[v], db')  BY <1>9 DEF vars, AllowanceInv
  <2> QED  BY <1>1, <2>1, <2>2 DEF AllowanceInv
<1> QED  BY <1>2, <1>3, <1>4, <1>5, <1>6, <1>7, <1>8, <1>9 DEF Next

(***************************************************************************)
(* An allowance is never shared twice: whatever transactions race, and     *)
(* through whatever servers, an approval without a human is committed only *)
(* while the increases of all requests decided under its policy, or        *)
(* approved under any policy on an account it binds, fit every limit of    *)
(* the rules that apply to it.                                             *)
(***************************************************************************)
THEOREM AllowancesAreNotSharedTwice ==
  ASSUME NoneIsNoDocument, RevisionsAreFinal
  PROVE  CommandsSpec => AllowanceIsSharedOnce
<1> DEFINE Fits == \A d \in db'.decisions \ db.decisions : \A p \in db.policies :
                     "allowance" \in d.verdict.reasons /\ d.verdict.policy = <<p.id, p.revision>>
                       => WithinLimits(d, p, db)
<1>1. AllowanceInv /\ [Next]_vars => [Fits]_vars
  <2> SUFFICES ASSUME AllowanceInv, Next, NEW d \in db'.decisions \ db.decisions,
                      NEW p \in db.policies, "allowance" \in d.verdict.reasons,
                      d.verdict.policy = <<p.id, p.revision>>
               PROVE  WithinLimits(d, p, db)
    BY DEF vars
  <2>1. ASSUME NEW v \in Servers, Commit(v)
        PROVE  WithinLimits(d, p, db)
    <3>1. /\ d = calls[v].decision /\ d # None /\ calls[v].at = "open"
          /\ db.guards[PolicyOfDecision(d)] = calls[v].guard
          /\ \A a \in AccountsOf(d) : db.accounts[a] = calls[v].accounts[a]
      <4>1. /\ db'.decisions = db.decisions \union {calls[v].decision}
            /\ calls[v].decision # None /\ calls[v].at = "open"
            /\ db.guards[PolicyOfDecision(calls[v].decision)] = calls[v].guard
            /\ \A a \in AccountsOf(calls[v].decision) : db.accounts[a] = calls[v].accounts[a]
        BY <2>1, CommitWrites DEF AllowanceInv
      <4> QED  BY <4>1
    <3>2. Respected(d, db)
      BY <3>1 DEF AllowanceInv, Respects, Unmoved
    <3> QED  BY <3>2 DEF Respected
  <2>2. CASE PublishPolicy \/ ActivatePolicy \/ RevokeAuthority
    <3>1. db'.decisions = db.decisions
      BY <2>2 DEF PublishPolicy, ActivatePolicy, RevokeAuthority, AllowanceInv, CommandsInv, DbShape
    <3> QED  BY <3>1
  <2> QED  BY <2>1, <2>2 DEF Next, Submit, Replay, Fail, Retry
<1>2. CommandsSpec => []AllowanceInv
  BY InitAllowance, NextAllowance, PTL DEF CommandsSpec
<1> QED  BY <1>1, <1>2, PTL DEF CommandsSpec, AllowanceIsSharedOnce

-----------------------------------------------------------------------------
(***************************************************************************)
(* Imports: SourceImports.                                                 *)
(***************************************************************************)
\* The sources number their postings: every revision of a posting comes from one
\* object, whose own revisions are ordered for all of them or for none, and alike.
SourcesNumberPostings ==
  \A d, e \in Deliveries :
    HasPosting(d) /\ HasPosting(e) /\ d.posting.id = e.posting.id =>
      /\ SameObject(d, e) /\ d.numeric = e.numeric
      /\ d.numeric /\ d.revision < e.revision => d.posting.revision < e.posting.revision

\* A posting is the one of a delivery that was stored.
ComesFrom(p, stored) ==
  \E r \in stored :
    LET d == r.delivery
    IN  /\ d \in Deliveries /\ HasPosting(d)
        /\ p = [instance |-> d.instance, object |-> d.object, revision |-> d.revision,
                numeric |-> d.numeric, posting |-> d.posting, current |-> p.current]

Imported ==
  /\ IsFiniteSet(normalized)
  /\ \A p \in normalized : p.current \in BOOLEAN /\ ComesFrom(p, deliveries)
  /\ \A p, q \in normalized : p.posting.id = q.posting.id /\ p.posting.revision = q.posting.revision => p = q

\* The ledger has, of every posting, a revision that was imported.
LedgerInv ==
  /\ ledger = [p \in Postings |-> ledger[p]]
  /\ \A id \in Postings :
       \/ ledger[id] = 0
       \/ \E p \in normalized : p.posting.id = id /\ p.posting.revision = ledger[id]

Concerned(s) == {p \in normalized : s \in {OrganizationScope} \union p.posting.scopes}

AskedInv ==
  /\ refreshes = [s \in Scopes |-> [generation |-> refreshes[s].generation,
                                    watermarks |-> refreshes[s].watermarks]]
  /\ \A s \in Scopes : refreshes[s].generation = Cardinality(Concerned(s))

\* A transaction that still sees the organization's refresh request sees every posting.
UpToDate(request) ==
  LET seen == request.db
  IN  /\ request = [at |-> "open", delivery |-> request.delivery, db |-> seen]
      /\ request.delivery \in Deliveries
      /\ \A p \in seen.normalized : ComesFrom(p, seen.deliveries)
      /\ seen.refreshes[OrganizationScope].generation \in Nat
      /\ seen.refreshes[OrganizationScope].generation <= refreshes[OrganizationScope].generation
      /\ seen.refreshes[OrganizationScope].generation = refreshes[OrganizationScope].generation
           => seen.normalized = normalized

RequestsInv ==
  /\ requests = [c \in Callers |-> requests[c]]
  /\ \A c \in Callers : requests[c].at = "open" => UpToDate(requests[c])

ImportInv == Imported /\ LedgerInv /\ AskedInv /\ RequestsInv /\ CurrentIsNewest

-----------------------------------------------------------------------------
LEMMA Generations ==
  ASSUME Imported, AskedInv, NEW s \in Scopes
  PROVE  refreshes[s].generation \in Nat
<1>1. Concerned(s) \subseteq normalized
  BY DEF Concerned
<1>2. IsFiniteSet(Concerned(s))
  BY <1>1, FS_Subset DEF Imported
<1> QED  BY <1>2, FS_CardinalityType DEF AskedInv

LEMMA ImportsStart == ImportInit => ImportInv
<1> SUFFICES ASSUME ImportInit PROVE ImportInv
  OBVIOUS
<1>1. Imported /\ CurrentIsNewest
  BY FS_EmptySet DEF ImportInit, Imported, CurrentIsNewest
<1>2. LedgerInv
  BY DEF ImportInit, LedgerInv
<1>3. AskedInv
  <2>1. \A s \in Scopes : Concerned(s) = {}
    BY DEF ImportInit, Concerned
  <2>2. \A s \in Scopes : refreshes[s].generation = 0
    BY DEF ImportInit
  <2>3. refreshes = [s \in Scopes |-> [generation |-> refreshes[s].generation,
                                       watermarks |-> refreshes[s].watermarks]]
    BY DEF ImportInit
  <2> QED  BY <2>1, <2>2, <2>3, FS_EmptySet DEF AskedInv
<1>4. RequestsInv
  BY DEF ImportInit, RequestsInv, IdleRequest
<1> QED  BY <1>1, <1>2, <1>3, <1>4 DEF ImportInv

\* What a caller does to its own request.
LEMMA RequestMoves ==
  ASSUME ImportInv, NEW c \in Callers, NEW request,
         requests' = [requests EXCEPT ![c] = request],
         request.at = "open" => UpToDate(request),
         UNCHANGED <<deliveries, normalized, ledger, refreshes>>
  PROVE  ImportInv'
<1>1. \A r : UpToDate(r)' <=> UpToDate(r)
  BY DEF UpToDate, ComesFrom, HasPosting
<1>2. RequestsInv'
  BY <1>1 DEF ImportInv, RequestsInv
<1> QED
  BY <1>2 DEF ImportInv, Imported, LedgerInv, AskedInv, Concerned, CurrentIsNewest, ComesFrom, SameObject

LEMMA FreshSnapshot ==
  ASSUME ImportInv, NEW d \in Deliveries
  PROVE  UpToDate([at |-> "open", delivery |-> d, db |-> Database])
BY Generations, DeliveriesAssumption DEF ImportInv, UpToDate, Database, Imported

-----------------------------------------------------------------------------
(* What normalizing a delivery makes of the postings.                      *)
Retired(p, d) == [p EXCEPT !.current = p.current /\ ~SameObject(p, d)]
Kept(d) == {Retired(p, d) : p \in normalized}

LEMMA Retiring ==
  ASSUME NEW p, NEW d, p.current \in BOOLEAN, ComesFrom(p, deliveries)
  PROVE  LET q == Retired(p, d)
         IN  /\ q.current \in BOOLEAN
             /\ q.current <=> p.current /\ ~SameObject(p, d)
             /\ q.instance = p.instance /\ q.object = p.object /\ q.revision = p.revision
             /\ q.numeric = p.numeric /\ q.posting = p.posting
             /\ ComesFrom(q, deliveries)
             /\ ~SameObject(p, d) => q = p
<1>1. PICK r \in deliveries :
        /\ r.delivery \in Deliveries /\ HasPosting(r.delivery)
        /\ p = [instance |-> r.delivery.instance, object |-> r.delivery.object,
                revision |-> r.delivery.revision, numeric |-> r.delivery.numeric,
                posting |-> r.delivery.posting, current |-> p.current]
  BY DEF ComesFrom
<1> DEFINE e == r.delivery
           live == p.current /\ ~SameObject(p, d)
<1>2. live \in BOOLEAN
  OBVIOUS
<1>3. Retired(p, d) = [instance |-> e.instance, object |-> e.object, revision |-> e.revision,
                       numeric |-> e.numeric, posting |-> e.posting, current |-> live]
  BY <1>1 DEF Retired
<1>4. (live <=> p.current /\ ~SameObject(p, d)) /\ (~SameObject(p, d) => live = p.current)
  OBVIOUS
<1> HIDE DEF live
<1> QED  BY <1>1, <1>2, <1>3, <1>4 DEF ComesFrom

LEMMA Normalizing ==
  ASSUME ImportInv, NEW d \in Deliveries, HasPosting(d), NEW seen, seen.normalized = normalized
  PROVE  Normalize(d, seen) = Kept(d) \union {NormalizedPosting(d)}
<1>1. \A p \in normalized :
        [p EXCEPT !.current = p.current /\ ~(SameObject(p, d) /\ p \in seen.normalized)] = Retired(p, d)
  BY DEF Retired
<1> QED  BY <1>1 DEF Normalize, Kept

-----------------------------------------------------------------------------
\* A posting commits: the caller still saw every posting, and its own is new and newest.
LEMMA CommitFacts ==
  ASSUME ImportInv, NEW c \in Callers, CommitIngest(c),
         Applies(requests[c].delivery, requests[c].db)
  PROVE  LET d == requests[c].delivery
             seen == requests[c].db
         IN  /\ d \in Deliveries /\ HasPosting(d)
             /\ normalized' = Kept(d) \union {NormalizedPosting(d)}
             /\ \A p \in normalized : ~(p.posting.id = d.posting.id /\ p.posting.revision = d.posting.revision)
             /\ \A p \in normalized : SameObject(p, d) /\ p.numeric /\ d.numeric => p.revision < d.revision
             /\ ledger' = ApplyPosting(d.posting, ledger)
             /\ refreshes' = Schedule(d, refreshes)
             /\ deliveries \subseteq deliveries'
             /\ \E r \in deliveries' : r.delivery = d
<1> DEFINE d == requests[c].delivery
           seen == requests[c].db
<1>1. /\ requests[c].at = "open" /\ Applies(d, seen) /\ ~Collides(d, seen) /\ ~IngestConflict(d, seen)
      /\ deliveries' = deliveries \union {[delivery |-> d, result |-> Result(d, seen)]}
      /\ normalized' = Normalize(d, seen) /\ ledger' = ApplyPosting(d.posting, ledger)
      /\ refreshes' = Schedule(d, refreshes)
  BY DEF CommitIngest
<1>2. d \in Deliveries /\ HasPosting(d) /\ Accepted(d, seen) /\ UpToDate(requests[c])
  BY <1>1 DEF Applies, ImportInv, RequestsInv, UpToDate
<1>3. seen.normalized = normalized
  <2>1. refreshes[OrganizationScope] = seen.refreshes[OrganizationScope]
    BY <1>1 DEF IngestConflict, Touched
  <2> QED  BY <1>2, <2>1 DEF UpToDate
<1>4. normalized' = Kept(d) \union {NormalizedPosting(d)}
  <2>1. Normalize(d, seen) = Kept(d) \union {NormalizedPosting(d)}
    <3>1. d \in Deliveries /\ HasPosting(d)  BY <1>2
    <3>2. seen.normalized = normalized  BY <1>3
    <3> HIDE DEF d, seen
    <3> QED  BY <3>1, <3>2, Normalizing
  <2> QED  BY <1>1, <2>1
<1>5. \A p \in normalized : ~(p.posting.id = d.posting.id /\ p.posting.revision = d.posting.revision)
  BY <1>1, <1>3 DEF Collides
<1>6. ASSUME NEW p \in normalized, SameObject(p, d), p.numeric, d.numeric
      PROVE  p.revision < d.revision
  <2>1. ComesFrom(p, seen.deliveries)
    BY <1>2, <1>3 DEF UpToDate
  <2>2. PICK r \in seen.deliveries : /\ r.delivery \in Deliveries /\ SameObject(r.delivery, d)
                                   /\ r.delivery.numeric /\ r.delivery.revision = p.revision
    BY <1>6, <2>1 DEF ComesFrom, SameObject
  <2>3. ~(p.revision > d.revision)
    BY <1>2, <1>6, <2>2 DEF Accepted, IsStale
  <2>4. p.revision # d.revision
    <3>1. PICK s \in deliveries : SameObject(s.delivery, d) /\ s.delivery.revision = p.revision
      BY <1>6 DEF ImportInv, Imported, ComesFrom, SameObject
    <3>2. SameRevision(d, Database) = {}
      BY <1>1 DEF IngestConflict
    <3> QED  BY <3>1, <3>2 DEF SameRevision, Database
  <2>5. p.revision \in Nat /\ d.revision \in Nat
    BY <1>2, <1>6, <2>2, DeliveriesAssumption
  <2> QED  BY <2>3, <2>4, <2>5
<1>7. \E r \in deliveries' : r.delivery = d
  <2>1. [delivery |-> d, result |-> Result(d, seen)] \in deliveries'
    BY <1>1
  <2> QED  BY <2>1
<1> QED  BY <1>1, <1>2, <1>4, <1>5, <1>6, <1>7

\* The posting that commits, and those there were.
LEMMA PostingsAfter ==
  ASSUME ImportInv, NEW d \in Deliveries, HasPosting(d),
         normalized' = Kept(d) \union {NormalizedPosting(d)},
         deliveries \subseteq deliveries', \E r \in deliveries' : r.delivery = d,
         \A p \in normalized : ~(p.posting.id = d.posting.id /\ p.posting.revision = d.posting.revision)
  PROVE  Imported'
<1> DEFINE new == NormalizedPosting(d)
<1>1. new.current = TRUE /\ new.posting = d.posting /\ ComesFrom(new, deliveries')
  BY DEF NormalizedPosting, ComesFrom
<1> HIDE DEF new
<1>2. ASSUME NEW p \in normalized
      PROVE  LET q == Retired(p, d)
             IN  q.current \in BOOLEAN /\ q.posting = p.posting /\ ComesFrom(q, deliveries')
  <2>1. p.current \in BOOLEAN /\ ComesFrom(p, deliveries)
    BY DEF ImportInv, Imported
  <2>2. LET q == Retired(p, d)
        IN  q.current \in BOOLEAN /\ q.posting = p.posting /\ ComesFrom(q, deliveries)
    BY <2>1, Retiring
  <2> QED  BY <2>2 DEF ComesFrom
<1>3. IsFiniteSet(normalized')
  <2> DEFINE f == [p \in normalized |-> Retired(p, d)]
  <2>1. f \in Surjection(normalized, Kept(d))
    BY DEF Surjection, Kept
  <2>2. IsFiniteSet(Kept(d))
    BY <2>1, FS_Surjection DEF ImportInv, Imported
  <2> QED  BY <2>2, FS_AddElement
<1>4. \A q \in normalized' : q = new \/ \E p \in normalized : q = Retired(p, d)
  BY DEF new, Kept
<1>5. \A q \in normalized' : q.current \in BOOLEAN /\ ComesFrom(q, deliveries')
  BY <1>1, <1>2, <1>4
<1>6. ASSUME NEW q \in normalized', NEW r \in normalized',
             q.posting.id = r.posting.id, q.posting.revision = r.posting.revision
      PROVE  q = r
  BY <1>1, <1>2, <1>4, <1>6 DEF ImportInv, Imported
<1> QED  BY <1>3, <1>5, <1>6 DEF Imported, ComesFrom

LEMMA CurrentAfter ==
  ASSUME ImportInv, NEW d \in Deliveries, HasPosting(d),
         normalized' = Kept(d) \union {NormalizedPosting(d)},
         \A p \in normalized : SameObject(p, d) /\ p.numeric /\ d.numeric => p.revision < d.revision
  PROVE  CurrentIsNewest'
<1> DEFINE new == NormalizedPosting(d)
<1>1. /\ new.current /\ new.instance = d.instance /\ new.object = d.object
      /\ new.revision = d.revision /\ new.numeric = d.numeric
  BY DEF NormalizedPosting
<1> HIDE DEF new
<1>2. \A p \in normalized : p.current \in BOOLEAN /\ ComesFrom(p, deliveries)
  BY DEF ImportInv, Imported
<1>3. \A p \in normalized :
        LET q == Retired(p, d)
        IN  /\ q.current <=> p.current /\ ~SameObject(p, d)
            /\ q.instance = p.instance /\ q.object = p.object /\ q.revision = p.revision
            /\ q.numeric = p.numeric
            /\ ~SameObject(p, d) => q = p
  BY <1>2, Retiring
<1>4. \A q \in normalized' : q = new \/ \E p \in normalized : q = Retired(p, d)
  BY DEF new, Kept
<1>5. new \in normalized' /\ \A p \in normalized : Retired(p, d) \in normalized'
  BY DEF new, Kept
<1>6. ASSUME NEW p \in normalized', p.current, NEW q \in normalized', q.current, SameObject(p, q)
      PROVE  q = p
  <2>1. \A x \in normalized' : x.current /\ SameObject(x, d) => x = new
    BY <1>3, <1>4 DEF SameObject
  <2>2. CASE SameObject(p, d)
    BY <1>6, <2>1, <2>2 DEF SameObject
  <2>3. CASE ~SameObject(p, d)
    <3>1. p \in normalized /\ q \in normalized
      BY <1>1, <1>3, <1>4, <1>6, <2>3 DEF SameObject
    <3> QED  BY <3>1, <1>6 DEF ImportInv, CurrentIsNewest
  <2> QED  BY <2>2, <2>3
<1>7. ASSUME NEW p \in normalized', p.numeric
      PROVE  \E q \in normalized' : /\ q.current /\ SameObject(p, q)
                                    /\ q.numeric => q.revision >= p.revision
  <2>1. CASE p = new
    <3>1. p.revision \in Nat
      BY <1>1, <1>7, <2>1, DeliveriesAssumption
    <3> QED  BY <2>1, <3>1, <1>1, <1>5 DEF SameObject
  <2>2. CASE p # new
    <3>1. PICK x \in normalized : p = Retired(x, d)
      BY <1>4, <2>2
    <3>2. x.numeric /\ p.revision = x.revision /\ p.instance = x.instance /\ p.object = x.object
      BY <1>3, <1>7, <3>1
    <3>3. CASE SameObject(x, d)
      <4>1. d.numeric => x.revision < d.revision
        BY <3>2, <3>3
      <4>2. x.revision \in Nat /\ (d.numeric => d.revision \in Nat)
        BY <1>2, <3>2, DeliveriesAssumption DEF ComesFrom
      <4>3. SameObject(p, new) /\ (new.numeric => new.revision >= p.revision)
        BY <1>1, <3>2, <3>3, <4>1, <4>2 DEF SameObject
      <4> QED  BY <4>3, <1>1, <1>5
    <3>4. CASE ~SameObject(x, d)
      <4>1. PICK y \in normalized : /\ y.current /\ SameObject(x, y)
                                    /\ y.numeric => y.revision >= x.revision
        <5>1. x.numeric => \E y \in normalized : /\ y.current /\ SameObject(x, y)
                                                 /\ y.numeric => y.revision >= x.revision
          BY DEF ImportInv, CurrentIsNewest
        <5> QED  BY <3>2, <5>1
      <4>2. ~SameObject(y, d)
        BY <3>4, <4>1 DEF SameObject
      <4>3. Retired(y, d) = y /\ y \in normalized'
        <5>1. Retired(y, d) = y
          BY <4>2, <1>3
        <5> QED  BY <5>1, <1>5
      <4>4. SameObject(p, y) /\ (y.numeric => y.revision >= p.revision)
        BY <3>2, <4>1 DEF SameObject
      <4> QED  BY <4>1, <4>3, <4>4
    <3> QED  BY <3>3, <3>4
  <2> QED  BY <2>1, <2>2
<1> QED  BY <1>6, <1>7 DEF CurrentIsNewest, SameObject

LEMMA LedgerAfter ==
  ASSUME ImportInv, NEW d \in Deliveries, HasPosting(d),
         normalized' = Kept(d) \union {NormalizedPosting(d)},
         ledger' = ApplyPosting(d.posting, ledger)
  PROVE  LedgerInv'
<1> DEFINE new == NormalizedPosting(d)
<1>1. new \in normalized' /\ new.posting = d.posting
  BY DEF NormalizedPosting
<1> HIDE DEF new
<1>2. \A p \in normalized : Retired(p, d) \in normalized' /\ Retired(p, d).posting = p.posting
  <2>1. \A p \in normalized : p.current \in BOOLEAN /\ ComesFrom(p, deliveries)
    BY DEF ImportInv, Imported
  <2> QED  BY <2>1, Retiring DEF Kept
<1>3. d.posting.id \in Postings
  BY DeliveriesAssumption
<1>4. ledger' = [p \in Postings |-> ledger'[p]]
  BY DEF ApplyPosting, ImportInv, LedgerInv
<1>5. ASSUME NEW id \in Postings
      PROVE  \/ ledger'[id] = 0
             \/ \E p \in normalized' : p.posting.id = id /\ p.posting.revision = ledger'[id]
  <2>1. CASE ledger'[id] = ledger[id]
    <3>1. CASE ledger[id] = 0
      BY <2>1, <3>1
    <3>2. ASSUME NEW p \in normalized, p.posting.id = id, p.posting.revision = ledger[id]
          PROVE  \E q \in normalized' : q.posting.id = id /\ q.posting.revision = ledger'[id]
      BY <2>1, <3>2, <1>2
    <3> QED  BY <3>1, <3>2 DEF ImportInv, LedgerInv
  <2>2. CASE ledger'[id] # ledger[id]
    <3>1. id = d.posting.id /\ ledger'[id] = d.posting.revision
      BY <2>2, <1>3 DEF ApplyPosting, ImportInv, LedgerInv
    <3> QED  BY <3>1, <1>1
  <2> QED  BY <2>1, <2>2
<1> QED  BY <1>4, <1>5 DEF LedgerInv

-----------------------------------------------------------------------------
(* Every scope is asked once for each posting that concerns it.            *)

LEMMA AsMany ==
  ASSUME NEW S, IsFiniteSet(S), NEW R, NEW f \in [S -> R],
         \A p, q \in S : f[p] = f[q] => p = q,
         \A r \in R : \E p \in S : f[p] = r
  PROVE  IsFiniteSet(R) /\ Cardinality(R) = Cardinality(S)
<1>1. f \in Injection(S, R) /\ f \in Surjection(S, R)
  BY DEF Injection, Surjection, IsInjective
<1>2. f \in Bijection(S, R)
  BY <1>1 DEF Bijection
<1> QED  BY <1>2, FS_Bijection DEF ExistsBijection

LEMMA RequestsAfter ==
  ASSUME ImportInv, NEW d \in Deliveries, HasPosting(d),
         normalized' = Kept(d) \union {NormalizedPosting(d)},
         refreshes' = Schedule(d, refreshes),
         \A p \in normalized : ~(p.posting.id = d.posting.id /\ p.posting.revision = d.posting.revision)
  PROVE  AskedInv' /\ refreshes'[OrganizationScope].generation = refreshes[OrganizationScope].generation + 1
<1> DEFINE new == NormalizedPosting(d)
<1>1. new.posting = d.posting
  BY DEF NormalizedPosting
<1> HIDE DEF new
<1>2. \A p \in normalized : Retired(p, d).posting = p.posting
  <2>1. \A p \in normalized : p.current \in BOOLEAN /\ ComesFrom(p, deliveries)
    BY DEF ImportInv, Imported
  <2> QED  BY <2>1, Retiring
<1>3. \A p, q \in normalized : Retired(p, d) = Retired(q, d) => p = q
  <2> SUFFICES ASSUME NEW p \in normalized, NEW q \in normalized, Retired(p, d) = Retired(q, d)
               PROVE  p = q
    OBVIOUS
  <2>1. p.posting = q.posting
    BY <1>2
  <2> QED  BY <2>1 DEF ImportInv, Imported
<1>4. \A s \in Scopes : /\ refreshes[s].generation \in Nat
                        /\ refreshes[s].generation = Cardinality(Concerned(s))
  BY Generations DEF ImportInv, AskedInv
<1>5. ASSUME NEW s \in Scopes
      PROVE  /\ refreshes'[s] = [generation |-> refreshes'[s].generation,
                                 watermarks |-> refreshes'[s].watermarks]
             /\ refreshes'[s].generation = refreshes[s].generation + (IF s \in Touched(d) THEN 1 ELSE 0)
  <2>1. refreshes[s] = [generation |-> refreshes[s].generation, watermarks |-> refreshes[s].watermarks]
    BY DEF ImportInv, AskedInv
  <2>2. CASE s \notin Touched(d)
    <3>1. refreshes'[s] = refreshes[s]
      BY <2>2 DEF Schedule
    <3> QED  BY <1>4, <2>1, <2>2, <3>1
  <2>3. CASE s \in Touched(d)
    <3>1. refreshes'[s] = [refreshes[s] EXCEPT !.generation = @ + 1, !.watermarks[d.instance] = d.observed]
      BY <2>3 DEF Schedule
    <3>2. refreshes'[s] = [generation |-> refreshes[s].generation + 1,
                           watermarks |-> [refreshes[s].watermarks EXCEPT ![d.instance] = d.observed]]
      BY <2>1, <3>1
    <3> QED  BY <2>3, <3>2
  <2> QED  BY <2>2, <2>3
<1>6. ASSUME NEW s \in Scopes
      PROVE  Cardinality(Concerned(s)') = Cardinality(Concerned(s)) + (IF s \in Touched(d) THEN 1 ELSE 0)
  <2> DEFINE kept == {Retired(p, d) : p \in Concerned(s)}
             f == [p \in Concerned(s) |-> Retired(p, d)]
  <2>1. IsFiniteSet(Concerned(s)) /\ Concerned(s) \subseteq normalized
    <3>1. Concerned(s) \subseteq normalized
      BY DEF Concerned
    <3> QED  BY <3>1, FS_Subset DEF ImportInv, Imported
  <2>2. /\ f \in [Concerned(s) -> kept]
        /\ \A p, q \in Concerned(s) : f[p] = f[q] => p = q
        /\ \A r \in kept : \E p \in Concerned(s) : f[p] = r
    BY <1>3, <2>1
  <2>3. IsFiniteSet(kept) /\ Cardinality(kept) = Cardinality(Concerned(s))
    <3> HIDE DEF kept, f
    <3> QED  BY <2>1, <2>2, AsMany
  <2>4. Concerned(s)' = kept \union (IF s \in Touched(d) THEN {new} ELSE {})
    <3>1. Concerned(s)' = {q \in normalized' : s \in {OrganizationScope} \union q.posting.scopes}
      BY DEF Concerned
    <3>2. normalized' = {Retired(p, d) : p \in normalized} \union {new}
      BY DEF Kept, new
    <3>3. s \in {OrganizationScope} \union new.posting.scopes <=> s \in Touched(d)
      BY <1>1 DEF Touched
    <3> QED  BY <1>2, <3>1, <3>2, <3>3 DEF Concerned
  <2>5. new \notin kept
    BY <1>1, <1>2, <2>1
  <2>6. Cardinality(kept \union {new}) = Cardinality(kept) + 1
    BY <2>3, <2>5, FS_AddElement
  <2>7. Cardinality(Concerned(s)) \in Nat
    BY <2>1, FS_CardinalityType
  <2>8. CASE s \in Touched(d)
    <3>1. Concerned(s)' = kept \union {new}
      BY <2>4, <2>8
    <3> HIDE DEF kept
    <3> QED  BY <3>1, <2>3, <2>6, <2>8
  <2>9. CASE s \notin Touched(d)
    <3>1. Concerned(s)' = kept
      BY <2>4, <2>9
    <3> HIDE DEF kept
    <3> QED  BY <3>1, <2>3, <2>7, <2>9
  <2> QED  BY <2>8, <2>9
<1>7. AskedInv'
  <2>1. refreshes' = [s \in Scopes |-> refreshes'[s]]
    BY DEF Schedule
  <2>2. \A s \in Scopes : refreshes'[s].generation = Cardinality(Concerned(s)')
    BY <1>4, <1>5, <1>6
  <2>3. refreshes' = [s \in Scopes |-> [generation |-> refreshes'[s].generation,
                                        watermarks |-> refreshes'[s].watermarks]]
    BY <2>1, <1>5
  <2> QED  BY <2>2, <2>3 DEF AskedInv
<1>8. OrganizationScope \in Scopes /\ OrganizationScope \in Touched(d)
  BY DeliveriesAssumption DEF Touched
<1> QED  BY <1>5, <1>7, <1>8

-----------------------------------------------------------------------------
\* What the other requests have seen is as little as it was, or less.
LEMMA OthersAfter ==
  ASSUME ImportInv, NEW c \in Callers, requests' = [requests EXCEPT ![c] = IdleRequest],
         \/ UNCHANGED <<normalized, refreshes>>
         \/ refreshes'[OrganizationScope].generation = refreshes[OrganizationScope].generation + 1
  PROVE  RequestsInv'
<1>1. OrganizationScope \in Scopes /\ refreshes[OrganizationScope].generation \in Nat
  BY Generations, DeliveriesAssumption DEF ImportInv
<1>2. \A r : UpToDate(r) => UpToDate(r)'
  BY <1>1 DEF UpToDate, ComesFrom, HasPosting
<1> QED  BY <1>2 DEF ImportInv, RequestsInv, IdleRequest

LEMMA PostingCommits ==
  ASSUME ImportInv, NEW c \in Callers, CommitIngest(c), Applies(requests[c].delivery, requests[c].db)
  PROVE  ImportInv'
<1> DEFINE d == requests[c].delivery
<1>1. /\ d \in Deliveries /\ HasPosting(d)
      /\ normalized' = Kept(d) \union {NormalizedPosting(d)}
      /\ \A p \in normalized : ~(p.posting.id = d.posting.id /\ p.posting.revision = d.posting.revision)
      /\ \A p \in normalized : SameObject(p, d) /\ p.numeric /\ d.numeric => p.revision < d.revision
      /\ ledger' = ApplyPosting(d.posting, ledger)
      /\ refreshes' = Schedule(d, refreshes)
      /\ deliveries \subseteq deliveries'
      /\ \E r \in deliveries' : r.delivery = d
  BY CommitFacts
<1> HIDE DEF d
<1>2. Imported' /\ CurrentIsNewest' /\ LedgerInv'
  BY <1>1, PostingsAfter, CurrentAfter, LedgerAfter
<1>3. AskedInv' /\ refreshes'[OrganizationScope].generation = refreshes[OrganizationScope].generation + 1
  BY <1>1, RequestsAfter
<1>4. requests' = [requests EXCEPT ![c] = IdleRequest]
  BY DEF CommitIngest
<1>5. RequestsInv'
  BY <1>3, <1>4, OthersAfter
<1> QED  BY <1>2, <1>3, <1>5 DEF ImportInv

LEMMA OtherCommits ==
  ASSUME ImportInv, NEW c \in Callers, CommitIngest(c), ~Applies(requests[c].delivery, requests[c].db)
  PROVE  ImportInv' /\ UNCHANGED <<normalized, ledger, refreshes>>
<1>1. /\ UNCHANGED <<normalized, ledger, refreshes>>
      /\ requests' = [requests EXCEPT ![c] = IdleRequest]
      /\ deliveries \subseteq deliveries'
  BY DEF CommitIngest
<1>2. RequestsInv'
  BY <1>1, OthersAfter
<1>3. Imported'
  BY <1>1 DEF ImportInv, Imported, ComesFrom, HasPosting
<1>4. LedgerInv' /\ AskedInv' /\ CurrentIsNewest'
  BY <1>1 DEF ImportInv, LedgerInv, AskedInv, Concerned, CurrentIsNewest, SameObject
<1> QED  BY <1>1, <1>2, <1>3, <1>4 DEF ImportInv

LEMMA Rebased ==
  ASSUME NEW request, NEW d, NEW old, NEW seen, request = [at |-> "open", delivery |-> d, db |-> old]
  PROVE  [request EXCEPT !.db = seen] = [at |-> "open", delivery |-> d, db |-> seen]
OBVIOUS

LEMMA ImportStep == ImportInv /\ [ImportNext]_ivars => ImportInv'
<1> SUFFICES ASSUME ImportInv, [ImportNext]_ivars PROVE ImportInv'
  OBVIOUS
<1>1. ASSUME NEW c \in Callers, BeginIngest(c) PROVE ImportInv'
  <2>1. PICK d \in Deliveries :
          requests' = [requests EXCEPT ![c] = [at |-> "open", delivery |-> d, db |-> Database]]
    BY <1>1 DEF BeginIngest
  <2>2. UpToDate([at |-> "open", delivery |-> d, db |-> Database])
    BY FreshSnapshot
  <2> QED  BY <1>1, <2>1, <2>2, RequestMoves DEF BeginIngest
<1>2. ASSUME NEW c \in Callers, Reply(c) PROVE ImportInv'
  BY <1>2, RequestMoves DEF Reply, IdleRequest
<1>3. ASSUME NEW c \in Callers, CommitIngest(c) PROVE ImportInv'
  BY <1>3, PostingCommits, OtherCommits
<1>4. ASSUME NEW c \in Callers, RetryIngest(c) PROVE ImportInv'
  <2> DEFINE d == requests[c].delivery
  <2>1. requests[c] = [at |-> "open", delivery |-> d, db |-> requests[c].db] /\ d \in Deliveries
    BY <1>4 DEF RetryIngest, ImportInv, RequestsInv, UpToDate
  <2>2. requests' = [requests EXCEPT ![c] = [at |-> "open", delivery |-> d, db |-> Database]]
    <3>1. requests' = [requests EXCEPT ![c] = [requests[c] EXCEPT !.db = Database]]
      BY <1>4 DEF RetryIngest
    <3>2. [requests[c] EXCEPT !.db = Database] = [at |-> "open", delivery |-> d, db |-> Database]
      BY <2>1, Rebased
    <3> QED  BY <3>1, <3>2
  <2>3. UpToDate([at |-> "open", delivery |-> d, db |-> Database])
    BY <2>1, FreshSnapshot
  <2> QED  BY <1>4, <2>2, <2>3, RequestMoves DEF RetryIngest
<1>5. CASE UNCHANGED ivars
  <2>1. UNCHANGED <<deliveries, normalized, ledger, refreshes, requests>>
    BY <1>5 DEF ivars
  <2>2. \A r : UpToDate(r)' <=> UpToDate(r)
    BY <2>1 DEF UpToDate, ComesFrom, HasPosting
  <2> QED
    BY <2>1, <2>2 DEF ImportInv, Imported, LedgerInv, AskedInv, RequestsInv, Concerned, CurrentIsNewest,
                      ComesFrom, SameObject
<1> QED  BY <1>1, <1>2, <1>3, <1>4, <1>5 DEF ImportNext

LEMMA ImportInvariant == ImportSpec => []ImportInv
<1> QED  BY ImportsStart, ImportStep, PTL DEF ImportSpec

(***************************************************************************)
(* Of any source objects, however their deliveries are ordered, repeated   *)
(* and raced: one posting of an object is current, and none with an older  *)
(* number than one that was accepted.                                      *)
(***************************************************************************)
THEOREM NewestIsCurrent == ImportSpec => []CurrentIsNewest
<1>1. ImportInv => CurrentIsNewest
  BY DEF ImportInv
<1> QED  BY <1>1, ImportInvariant, PTL

-----------------------------------------------------------------------------
\* The revision that is listed took effect.
Listed == \A p \in normalized : p.current /\ p.numeric => ledger[p.posting.id] = p.posting.revision

LEMMA ListedAfter ==
  ASSUME SourcesNumberPostings, ImportInv, Listed, NEW c \in Callers, CommitIngest(c)
  PROVE  Listed'
<1>1. CASE ~Applies(requests[c].delivery, requests[c].db)
  BY <1>1, OtherCommits DEF Listed
<1>2. CASE Applies(requests[c].delivery, requests[c].db)
  <2> DEFINE d == requests[c].delivery
             new == NormalizedPosting(d)
  <2>1. /\ d \in Deliveries /\ HasPosting(d)
        /\ normalized' = Kept(d) \union {new}
        /\ \A p \in normalized : SameObject(p, d) /\ p.numeric /\ d.numeric => p.revision < d.revision
        /\ ledger' = ApplyPosting(d.posting, ledger)
    BY <1>2, CommitFacts
  <2>2. new.posting = d.posting /\ new.numeric = d.numeric
    BY DEF NormalizedPosting
  <2> HIDE DEF d, new
  <2>3. d.posting.id \in Postings /\ d.posting.revision \in Nat
    BY <2>1, DeliveriesAssumption
  <2>4. \A p \in normalized : p.current \in BOOLEAN /\ ComesFrom(p, deliveries)
    BY DEF ImportInv, Imported
  <2>5. ASSUME NEW p \in normalized, p.posting.id = d.posting.id
        PROVE  /\ SameObject(p, d) /\ p.numeric = d.numeric /\ p.posting.revision \in Nat
               /\ d.numeric => p.posting.revision < d.posting.revision
    <3>1. PICK r \in deliveries :
            LET e == r.delivery
            IN  /\ e \in Deliveries /\ HasPosting(e) /\ e.posting = p.posting
                /\ e.instance = p.instance /\ e.object = p.object
                /\ e.revision = p.revision /\ e.numeric = p.numeric
      BY <2>4 DEF ComesFrom
    <3>2. /\ SameObject(r.delivery, d) /\ r.delivery.numeric = d.numeric
          /\ d.numeric /\ r.delivery.revision < d.revision => r.delivery.posting.revision < d.posting.revision
      BY <2>1, <2>5, <3>1 DEF SourcesNumberPostings
    <3>3. SameObject(p, d) /\ p.numeric = d.numeric
      BY <3>1, <3>2 DEF SameObject
    <3>4. d.numeric => p.revision < d.revision
      BY <2>1, <3>3
    <3>5. p.posting.revision \in Nat
      BY <3>1, DeliveriesAssumption
    <3> QED  BY <3>1, <3>2, <3>3, <3>4, <3>5
  <2>6. d.numeric => ledger'[d.posting.id] = d.posting.revision
    <3>1. ledger[d.posting.id] = 0 \/ \E p \in normalized : p.posting.id = d.posting.id /\ p.posting.revision = ledger[d.posting.id]
      BY <2>3 DEF ImportInv, LedgerInv
    <3>2. d.numeric => ledger[d.posting.id] <= d.posting.revision /\ ledger[d.posting.id] \in Nat
      <4>1. CASE ledger[d.posting.id] = 0
        BY <2>3, <4>1
      <4>2. ASSUME NEW p \in normalized, p.posting.id = d.posting.id, p.posting.revision = ledger[d.posting.id]
            PROVE  d.numeric => ledger[d.posting.id] <= d.posting.revision /\ ledger[d.posting.id] \in Nat
        <5>1. p.posting.revision \in Nat /\ (d.numeric => p.posting.revision < d.posting.revision)
          BY <2>5, <4>2
        <5> QED  BY <2>3, <4>2, <5>1
      <4> QED  BY <3>1, <4>1, <4>2
    <3> QED  BY <2>1, <2>3, <3>2 DEF ApplyPosting, ImportInv, LedgerInv
  <2>7. ASSUME NEW q \in normalized', q.current, q.numeric
        PROVE  ledger'[q.posting.id] = q.posting.revision
    <3>1. CASE q = new
      BY <2>2, <2>6, <2>7, <3>1
    <3>2. CASE q # new
      <4>1. PICK p \in normalized : q = Retired(p, d)
        BY <2>1, <3>2 DEF Kept
      <4>2. p.current /\ ~SameObject(p, d) /\ q = p
        <5>1. q.current <=> p.current /\ ~SameObject(p, d)
          BY <2>4, <4>1, Retiring
        <5>2. ~SameObject(p, d) => q = p
          BY <2>4, <4>1, Retiring
        <5> QED  BY <2>7, <5>1, <5>2
      <4>3. p.posting.id # d.posting.id
        BY <2>5, <4>2
      <4>4. ledger'[p.posting.id] = ledger[p.posting.id]
        <5>1. p.posting.id \in Postings
          BY <2>4, DeliveriesAssumption DEF ComesFrom
        <5> QED  BY <2>1, <4>3, <5>1 DEF ApplyPosting, ImportInv, LedgerInv
      <4> QED  BY <2>7, <4>2, <4>4 DEF Listed
    <3> QED  BY <3>1, <3>2
  <2> QED  BY <2>7 DEF Listed
<1> QED  BY <1>1, <1>2

LEMMA ListedStep ==
  ASSUME SourcesNumberPostings
  PROVE  ImportInv /\ Listed /\ [ImportNext]_ivars => Listed'
<1> SUFFICES ASSUME ImportInv, Listed, [ImportNext]_ivars PROVE Listed'
  OBVIOUS
<1>1. CASE UNCHANGED <<normalized, ledger>>
  BY <1>1 DEF Listed
<1>2. CASE ~UNCHANGED <<normalized, ledger>>
  <2>1. PICK c \in Callers : CommitIngest(c)
    BY <1>2 DEF ImportNext, ivars, BeginIngest, Reply, RetryIngest
  <2> QED  BY <2>1, ListedAfter
<1> QED  BY <1>1, <1>2

(***************************************************************************)
(* The ledger has the revision of a posting that is listed, whatever comes *)
(* late or twice, as long as a source numbers the revisions of a posting   *)
(* like its own; and a forecast of each scope is asked for once for every  *)
(* posting that was accepted.                                              *)
(***************************************************************************)
THEOREM LedgerIsAsListed ==
  ASSUME SourcesNumberPostings
  PROVE  ImportSpec => []LedgerFollowsImports
<1>1. ImportInit => Listed
  BY DEF ImportInit, Listed
<1>2. ImportInv /\ Listed => LedgerFollowsImports
  BY DEF ImportInv, Listed, AskedInv, Concerned, LedgerFollowsImports
<1> QED  BY <1>1, <1>2, ImportsStart, ImportStep, ListedStep, PTL DEF ImportSpec

-----------------------------------------------------------------------------
(***************************************************************************)
(* Forecasts: ForecastSnapshots.                                           *)
(***************************************************************************)
\* A transaction that still sees the pointer sees every snapshot.
RefreshInv ==
  /\ refreshing = [r \in Refreshers |-> refreshing[r]]
  /\ \A r \in Refreshers : refreshing[r].at = "open" =>
       /\ {"at", "stored", "current"} \subseteq DOMAIN refreshing[r]
       /\ refreshing[r].current \in 0 .. pointer
       /\ refreshing[r].current = pointer => refreshing[r].stored = snapshots

\* A reader was pointed at a revision that exists.
ReadInv ==
  /\ reading = [r \in Readers |-> reading[r]]
  /\ \A r \in Readers : reading[r].at = "pointed" => reading[r].revision \in 0 .. pointer

ForecastInv == pointer \in Nat /\ RefreshInv /\ ReadInv /\ HistoryIsAChain

\* A revision up to the pointer has one snapshot, and revision 0 has none.
LEMMA OneSnapshot ==
  ASSUME ForecastInv, NEW n \in 0 .. pointer
  PROVE  Cardinality({s \in snapshots : s.revision = n}) = IF n = 0 THEN 0 ELSE 1
<1> DEFINE found == {s \in snapshots : s.revision = n}
<1>1. CASE n = 0
  <2>1. found = {}
    BY <1>1 DEF ForecastInv, HistoryIsAChain
  <2> QED  BY <1>1, <2>1, FS_EmptySet
<1>2. CASE n # 0
  <2>1. PICK s \in snapshots : s.revision = n
    BY <1>2 DEF ForecastInv, HistoryIsAChain
  <2>2. found = {s}
    BY <2>1 DEF ForecastInv, HistoryIsAChain
  <2> QED  BY <1>2, <2>2, FS_Singleton
<1> QED  BY <1>1, <1>2

LEMMA ForecastStarts == ForecastInit => ForecastInv
<1> SUFFICES ASSUME ForecastInit PROVE ForecastInv
  OBVIOUS
<1>1. RefreshInv
  BY DEF ForecastInit, RefreshInv, IdleRefresh
<1>2. ReadInv /\ \A r \in Readers : reading[r].at = "idle"
  BY DEF ForecastInit, ReadInv, IdleRead
<1>3. HistoryIsAChain
  BY <1>2 DEF ForecastInit, HistoryIsAChain
<1> QED  BY <1>1, <1>2, <1>3 DEF ForecastInit, ForecastInv

\* What one caller of refresh does leaves what the others know.
LEMMA RefresherMoves ==
  ASSUME ForecastInv, NEW r \in Refreshers, NEW t,
         refreshing' = [refreshing EXCEPT ![r] = t],
         t.at = "open" => /\ {"at", "stored", "current"} \subseteq DOMAIN t
                          /\ t.current \in 0 .. pointer
                          /\ t.current = pointer => t.stored = snapshots,
         UNCHANGED <<snapshots, pointer, reading>>
  PROVE  ForecastInv'
<1>1. RefreshInv'
  BY DEF ForecastInv, RefreshInv
<1> QED  BY <1>1 DEF ForecastInv, ReadInv, HistoryIsAChain

LEMMA SnapshotIsAdded ==
  ASSUME ForecastInv, NEW r \in Refreshers,
         refreshing[r].at = "open", Duplicates(refreshing[r]) = {}, ~PointerConflict(refreshing[r]),
         snapshots' = snapshots \union {NextSnapshot(refreshing[r])},
         pointer' = refreshing[r].current + 1,
         refreshing' = [refreshing EXCEPT ![r] = IdleRefresh],
         UNCHANGED reading
  PROVE  ForecastInv'
<1> DEFINE new == NextSnapshot(refreshing[r])
<1>1. pointer \in Nat /\ pointer' = pointer + 1 /\ refreshing[r].stored = snapshots
  BY DEF ForecastInv, RefreshInv, PointerConflict
<1>2. /\ new.revision = pointer + 1 /\ new.corrects = pointer
      /\ \A s \in snapshots : s.input # new.input
  BY <1>1 DEF NextSnapshot, Duplicates, PointerConflict
<1> HIDE DEF new
<1>3. /\ \A s \in snapshots : s.revision \in 1 .. pointer /\ s.corrects = s.revision - 1
      /\ \A n \in 1 .. pointer : \E s \in snapshots : s.revision = n
  BY DEF ForecastInv, HistoryIsAChain
<1>4. HistoryIsAChain'
  <2>1. \A s, t \in snapshots' : s.input = t.input \/ s.revision = t.revision => s = t
    BY <1>1, <1>2, <1>3 DEF ForecastInv, HistoryIsAChain, new
  <2>2. {s.revision : s \in snapshots'} = 1 .. pointer'
    <3>1. snapshots' = snapshots \union {new}
      BY DEF new
    <3>2. \A n \in 1 .. pointer' : n \in 1 .. pointer \/ n = new.revision
      BY <1>1, <1>2
    <3> QED  BY <3>1, <3>2, <1>1, <1>2, <1>3
  <2>3. \A s \in snapshots' : s.corrects = s.revision - 1
    BY <1>1, <1>2, <1>3 DEF new
  <2> QED  BY <2>1, <2>2, <2>3 DEF ForecastInv, HistoryIsAChain
<1>5. RefreshInv'
  BY <1>1 DEF ForecastInv, RefreshInv, IdleRefresh
<1>6. ReadInv'
  BY <1>1 DEF ForecastInv, ReadInv
<1> QED  BY <1>1, <1>4, <1>5, <1>6 DEF ForecastInv

LEMMA ForecastStep == ForecastInv /\ [ForecastNext]_fvars => ForecastInv'
<1> SUFFICES ASSUME ForecastInv, [ForecastNext]_fvars PROVE ForecastInv'
  OBVIOUS
<1>1. ASSUME NEW r \in Refreshers, StartRefresh(r) PROVE ForecastInv'
  <2>1. PICK i \in ForecastInputs :
          refreshing' = [refreshing EXCEPT ![r] =
            [at |-> "open", input |-> i, stored |-> snapshots, current |-> pointer]]
    BY <1>1 DEF StartRefresh
  <2>2. pointer \in 0 .. pointer
    BY DEF ForecastInv
  <2> QED  BY <1>1, <2>1, <2>2, RefresherMoves DEF StartRefresh
<1>2. ASSUME NEW r \in Refreshers, CommitRefresh(r) PROVE ForecastInv'
  <2>1. CASE UNCHANGED <<snapshots, pointer>>
    BY <1>2, <2>1, RefresherMoves DEF CommitRefresh, IdleRefresh
  <2>2. CASE ~UNCHANGED <<snapshots, pointer>>
    BY <1>2, <2>2, SnapshotIsAdded DEF CommitRefresh
  <2> QED  BY <2>1, <2>2
<1>3. ASSUME NEW r \in Refreshers, RestartRefresh(r) PROVE ForecastInv'
  <2> DEFINE t == refreshing[r]
             again == [t EXCEPT !.stored = snapshots, !.current = pointer]
  <2>1. CASE refreshing' = [refreshing EXCEPT ![r] = IdleRefresh]
    BY <1>3, <2>1, RefresherMoves DEF RestartRefresh, IdleRefresh
  <2>2. CASE refreshing' = [refreshing EXCEPT ![r].stored = snapshots, ![r].current = pointer]
    <3>1. refreshing' = [refreshing EXCEPT ![r] = again]
      BY <2>2 DEF ForecastInv, RefreshInv
    <3>2. pointer \in 0 .. pointer /\ {"at", "stored", "current"} \subseteq DOMAIN t
      BY <1>3 DEF RestartRefresh, ForecastInv, RefreshInv
    <3>3. again.at = "open" => /\ {"at", "stored", "current"} \subseteq DOMAIN again
                               /\ again.current \in 0 .. pointer /\ again.stored = snapshots
      BY <3>2
    <3> QED  BY <1>3, <3>1, <3>3, RefresherMoves DEF RestartRefresh
  <2> QED  BY <1>3, <2>1, <2>2 DEF RestartRefresh
<1>4. ASSUME NEW r \in Readers, ReadPointer(r) PROVE ForecastInv'
  <2>1. ReadInv'
    BY <1>4 DEF ReadPointer, ForecastInv, ReadInv
  <2>2. RefreshInv' /\ HistoryIsAChain' /\ pointer' \in Nat
    BY <1>4 DEF ReadPointer, ForecastInv, RefreshInv, ReadInv, HistoryIsAChain
  <2> QED  BY <2>1, <2>2 DEF ForecastInv
<1>5. ASSUME NEW r \in Readers, ReadSnapshot(r) PROVE ForecastInv'
  <2>1. ReadInv'
    BY <1>5 DEF ReadSnapshot, ForecastInv, ReadInv
  <2>2. RefreshInv' /\ pointer' \in Nat
    BY <1>5 DEF ReadSnapshot, ForecastInv, RefreshInv
  <2>3. Cardinality({s \in snapshots : s.revision = reading[r].revision})
          = IF reading[r].revision = 0 THEN 0 ELSE 1
    BY <1>5, OneSnapshot DEF ReadSnapshot, ForecastInv, ReadInv
  <2>4. HistoryIsAChain'
    BY <1>5, <2>3 DEF ReadSnapshot, ForecastInv, ReadInv, HistoryIsAChain
  <2> QED  BY <2>1, <2>2, <2>4 DEF ForecastInv
<1>6. CASE UNCHANGED fvars
  BY <1>6 DEF fvars, ForecastInv, RefreshInv, ReadInv, HistoryIsAChain
<1> QED  BY <1>1, <1>2, <1>3, <1>4, <1>5, <1>6 DEF ForecastNext

(***************************************************************************)
(* However refreshes of any inputs race, restart and give up, every input  *)
(* has one snapshot, the revisions are a chain without gaps that ends at   *)
(* the pointer, and a reader finds the one snapshot it was pointed at.     *)
(***************************************************************************)
THEOREM SnapshotsAreAChain == ForecastSpec => []HistoryIsAChain
<1>1. ForecastInv => HistoryIsAChain
  BY DEF ForecastInv
<1> QED  BY <1>1, ForecastStarts, ForecastStep, PTL DEF ForecastSpec

(***************************************************************************)
(* The amounts of a forecast.                                              *)
(***************************************************************************)
LEMMA InputFields ==
  ASSUME NEW i \in ForecastInputs
  PROVE  /\ i.start \in Int /\ i.cutoff \in Int /\ i.horizon \in Int
         /\ IsFiniteSet(i.postings) /\ IsFiniteSet(i.commitments)
         /\ IsFiniteSet(i.schedules) /\ IsFiniteSet(i.assumptions)
         /\ \A p \in i.postings : p.amount \in Int
         /\ \A c \in i.commitments : c.outstanding \in Int
         /\ \A s \in i.schedules : s.amount \in Int /\ s.obligation # NoObligation
         /\ \A a \in i.assumptions :
              a.kind \in {"fixed_adjustment", "percentage_change", "timing_shift"} /\ a.value \in Int
<1>1. \A p \in i.postings : p.amount \in Nat
  BY ForecastInputsAssumption
<1>2. \A c \in i.commitments : c.outstanding \in Nat
  BY ForecastInputsAssumption
<1>3. \A s \in i.schedules : s.amount \in Nat /\ s.obligation # NoObligation
  BY ForecastInputsAssumption
<1>4. IsFiniteSet(i.postings) /\ IsFiniteSet(i.commitments) /\ IsFiniteSet(i.schedules) /\ IsFiniteSet(i.assumptions)
  <2>1. \A kind \in {"postings", "commitments", "schedules", "assumptions"} : IsFiniteSet(i[kind])
    BY ForecastInputsAssumption
  <2> QED
    BY <2>1
<1>5. \A a \in i.assumptions :
        a.kind \in {"fixed_adjustment", "percentage_change", "timing_shift"} /\ a.value \in Int
  BY ForecastInputsAssumption
<1>6. i.start \in Int /\ i.cutoff \in Int /\ i.horizon \in Int
  BY ForecastInputsAssumption
<1> QED
  BY <1>1, <1>2, <1>3, <1>4, <1>5, <1>6

LEMMA RoundedType ==
  ASSUME NEW n \in Int, NEW d \in Int, d > 0
  PROVE  Rounded(n, d) \in Int
<1>1. 2 * n + d \in Int /\ 2 * d \in Int /\ 2 * d > 0
  OBVIOUS
<1>2. \A a \in Int, b \in Int : b > 0 => a \div b \in Int
  OBVIOUS
<1> QED
  BY <1>1, <1>2 DEF Rounded

LEMMA SelectedAmounts ==
  ASSUME NEW i \in ForecastInputs, NEW P \in SUBSET i.postings
  PROVE  SumFunction([p \in P |-> SignedAmount(p)]) \in Int
<1> DEFINE f == [p \in P |-> SignedAmount(p)]
<1>1. f \in [P -> Int]
  BY InputFields DEF SignedAmount
<1>2. IsFiniteSet(P)
  BY InputFields, FS_Subset
<1>3. SumFunction(f) \in Int
  <2> HIDE DEF f
  <2> QED
    BY <1>1, <1>2, SumIsInteger
<1> QED
  BY <1>3

LEMMA BaselineType ==
  ASSUME NEW i \in ForecastInputs, i.start <= i.cutoff
  PROVE  Baseline(i) \in Int
<1> DEFINE h == SumFunction([p \in Historical(i) |-> SignedAmount(p)])
<1>1. h \in Int
  <2>1. Historical(i) \in SUBSET i.postings
    BY DEF Historical, Actual, Selected
  <2> QED
    BY <2>1, SelectedAmounts
<1> HIDE DEF h
<1>2. i.start \in Int /\ i.cutoff \in Int /\ i.horizon \in Int
  BY InputFields
<1>3. h * (i.horizon - i.cutoff) \in Int
  <2>1. i.horizon - i.cutoff \in Int
    BY <1>2
  <2>2. \A a \in Int, b \in Int : a * b \in Int
    OBVIOUS
  <2> QED
    BY <1>1, <2>1, <2>2
<1>4. i.cutoff - i.start + 1 \in Int /\ i.cutoff - i.start + 1 > 0
  BY <1>2
<1>5. Baseline(i) = Rounded(h * (i.horizon - i.cutoff), i.cutoff - i.start + 1)
  BY DEF Baseline, h
<1> QED
  BY <1>3, <1>4, <1>5, RoundedType

LEMMA OutstandingFunction ==
  ASSUME NEW i \in ForecastInputs
  PROVE  /\ IsFiniteSet(Outstanding(i)) /\ Outstanding(i) \subseteq i.commitments
         /\ [c \in Outstanding(i) |-> c.outstanding] \in [Outstanding(i) -> Int]
         /\ OutstandingAmount(i) \in Int
<1> DEFINE O == Outstanding(i)
           f == [c \in O |-> c.outstanding]
<1>1. O \subseteq i.commitments
  BY DEF Outstanding, Open
<1>2. IsFiniteSet(O)
  BY <1>1, InputFields, FS_Subset
<1>3. f \in [O -> Int]
  BY <1>1, InputFields
<1>4. SumFunction(f) \in Int
  <2> HIDE DEF f, O
  <2> QED
    BY <1>2, <1>3, SumIsInteger
<1> QED
  BY <1>1, <1>2, <1>3, <1>4 DEF OutstandingAmount

\* Which pairs of a schedule and a day are recurring.
Due(i, s, d) ==
  /\ s \in i.schedules /\ ScopeMatches(s.scopes, i.scope)
  /\ d \in Occurrences(s, i.cutoff, i.horizon)
  /\ <<s.obligation, Month(d)>> \notin CommittedPeriods(i)

LEMMA RecurringIsDue ==
  ASSUME NEW i
  PROVE  /\ \A s, d : Due(i, s, d) <=> <<s, d>> \in Recurring(i)
         /\ \A sd \in Recurring(i) : \E s, d : sd = <<s, d>> /\ Due(i, s, d)
<1> DEFINE Pairs(s) == {<<s, d>> : d \in {o \in Occurrences(s, i.cutoff, i.horizon) :
                                          <<s.obligation, Month(o)>> \notin CommittedPeriods(i)}}
           M == {x \in i.schedules : ScopeMatches(x.scopes, i.scope)}
<1>1. Recurring(i) = UNION {Pairs(s) : s \in M}
  BY DEF Recurring
<1>2. \A s, d : <<s, d>> \in Pairs(s) <=>
        d \in Occurrences(s, i.cutoff, i.horizon) /\ <<s.obligation, Month(d)>> \notin CommittedPeriods(i)
  OBVIOUS
<1>3. \A s : \A sd \in Pairs(s) : \E d : sd = <<s, d>>
  OBVIOUS
<1>4. \A s : s \in M <=> s \in i.schedules /\ ScopeMatches(s.scopes, i.scope)
  OBVIOUS
<1> HIDE DEF Pairs, M
<1>5. \A sd : sd \in Recurring(i) <=> \E s \in M : sd \in Pairs(s)
  BY <1>1
<1>6. \A s \in M : \A d : <<s, d>> \in Pairs(s) <=> Due(i, s, d)
  BY <1>2, <1>4 DEF Due
<1>7. \A s, d : <<s, d>> \in Recurring(i) => Due(i, s, d)
  <2> SUFFICES ASSUME NEW s, NEW d, <<s, d>> \in Recurring(i) PROVE Due(i, s, d)
    OBVIOUS
  <2>1. PICK y \in M : <<s, d>> \in Pairs(y)
    BY <1>5
  <2>2. PICK e : <<s, d>> = <<y, e>>
    BY <1>3, <2>1
  <2>3. s = y
    BY <2>2
  <2> QED
    BY <1>6, <2>1, <2>3
<1>8. \A s, d : Due(i, s, d) => <<s, d>> \in Recurring(i)
  <2> SUFFICES ASSUME NEW s, NEW d, Due(i, s, d) PROVE <<s, d>> \in Recurring(i)
    OBVIOUS
  <2>1. s \in M
    BY <1>4 DEF Due
  <2> QED
    BY <1>5, <1>6, <2>1
<1>9. \A sd \in Recurring(i) : \E s, d : sd = <<s, d>> /\ Due(i, s, d)
  <2> SUFFICES ASSUME NEW sd \in Recurring(i) PROVE \E s, d : sd = <<s, d>> /\ Due(i, s, d)
    OBVIOUS
  <2>1. PICK y \in M : sd \in Pairs(y)
    BY <1>5
  <2>2. PICK e : sd = <<y, e>>
    BY <1>3, <2>1
  <2> QED
    BY <1>6, <2>1, <2>2
<1> QED
  BY <1>7, <1>8, <1>9

LEMMA RecurringFunction ==
  ASSUME NEW i \in ForecastInputs
  PROVE  /\ IsFiniteSet(Recurring(i)) /\ Recurring(i) \subseteq i.schedules \X (i.cutoff .. i.horizon)
         /\ [sd \in Recurring(i) |-> sd[1].amount] \in [Recurring(i) -> Int]
         /\ RecurringAmount(i) \in Int
<1> DEFINE R == Recurring(i)
           D == i.cutoff .. i.horizon
           f == [sd \in R |-> sd[1].amount]
<1>1. R \subseteq i.schedules \X D
  <2> SUFFICES ASSUME NEW sd \in R PROVE sd \in i.schedules \X D
    OBVIOUS
  <2>1. PICK s, d : sd = <<s, d>> /\ Due(i, s, d)
    BY RecurringIsDue
  <2>2. s \in i.schedules /\ d \in D
    BY <2>1 DEF Due, Occurrences
  <2> HIDE DEF D
  <2> QED
    BY <2>1, <2>2
<1>2. IsFiniteSet(R)
  <2>1. IsFiniteSet(D) /\ IsFiniteSet(i.schedules)
    BY InputFields, FS_Interval
  <2>2. IsFiniteSet(i.schedules \X D)
    <3> HIDE DEF D
    <3> QED
      BY <2>1, FS_Product
  <2> HIDE DEF R, D
  <2> QED
    BY <1>1, <2>2, FS_Subset
<1>3. f \in [R -> Int]
  <2>1. \A sd \in R : sd[1] \in i.schedules
    BY <1>1
  <2> HIDE DEF R
  <2> QED
    BY <2>1, InputFields
<1>4. SumFunction(f) \in Int
  <2> HIDE DEF f, R
  <2> QED
    BY <1>2, <1>3, SumIsInteger
<1> QED
  BY <1>1, <1>2, <1>3, <1>4 DEF RecurringAmount

LEMMA AdjustmentType ==
  ASSUME NEW i \in ForecastInputs, Calculable(i), NEW a \in Relevant(i)
  PROVE  Adjustment(a, i) \in Int
<1>1. a \in i.assumptions /\ Baseline(i) \in Int
  BY BaselineType DEF Relevant, Calculable
<1>2. a.kind \in {"fixed_adjustment", "percentage_change", "timing_shift"} /\ a.value \in Int
  BY <1>1, InputFields
<1>3. CASE a.kind = "fixed_adjustment"
  BY <1>2, <1>3 DEF Adjustment
<1>4. CASE a.kind = "percentage_change"
  <2>1. Adjustment(a, i) = Rounded(Baseline(i) * a.value, 10000)
    BY <1>4 DEF Adjustment
  <2>2. \A m \in Int, n \in Int : m * n \in Int
    OBVIOUS
  <2>3. Baseline(i) * a.value \in Int
    BY <1>1, <1>2, <2>2
  <2> QED
    BY <2>1, <2>3, RoundedType
<1>5. CASE a.kind = "timing_shift"
  <2> DEFINE c == CHOOSE x \in Targets(a, i) : TRUE
             Within(d) == IF d \in i.cutoff .. i.horizon THEN c.outstanding ELSE 0
  <2>1. Adjustment(a, i) = Within(c.at + a.value) - Within(c.at)
    BY <1>5 DEF Adjustment
  <2>2. c \in Targets(a, i)
    BY <1>5 DEF Calculable
  <2> HIDE DEF c
  <2>3. c.outstanding \in Int
    BY <2>2, InputFields DEF Targets, Open
  <2> QED
    BY <2>1, <2>3
<1> QED
  BY <1>2, <1>3, <1>4, <1>5

Kinds == {"actual_spend", "outstanding_commitment", "uncommitted_baseline", "scenario_adjustment"}

LEMMA KindsAreFinite == IsFiniteSet(Kinds)
<1>1. IsFiniteSet({"actual_spend"}) /\ IsFiniteSet({"outstanding_commitment"})
      /\ IsFiniteSet({"uncommitted_baseline"}) /\ IsFiniteSet({"scenario_adjustment"})
  BY FS_Singleton
<1>2. IsFiniteSet({"actual_spend"} \cup {"outstanding_commitment"})
      /\ IsFiniteSet({"uncommitted_baseline"} \cup {"scenario_adjustment"})
  BY <1>1, FS_Union
<1>3. IsFiniteSet(({"actual_spend"} \cup {"outstanding_commitment"})
                  \cup ({"uncommitted_baseline"} \cup {"scenario_adjustment"}))
  BY <1>2, FS_Union
<1>4. Kinds = ({"actual_spend"} \cup {"outstanding_commitment"})
                  \cup ({"uncommitted_baseline"} \cup {"scenario_adjustment"})
  BY DEF Kinds
<1> QED
  BY <1>3, <1>4

LEMMA ComponentsType ==
  ASSUME NEW i \in ForecastInputs, Calculable(i)
  PROVE  Components(i) \in [Kinds -> Int]
<1> DEFINE f == [a \in Relevant(i) |-> Adjustment(a, i)]
<1>1. ActualAmount(i) \in Int
  <2>1. Actual(i) \in SUBSET i.postings
    BY DEF Actual, Selected
  <2> QED
    BY <2>1, SelectedAmounts DEF ActualAmount
<1>2. Baseline(i) \in Int /\ RecurringAmount(i) \in Int /\ OutstandingAmount(i) \in Int
  BY BaselineType, RecurringFunction, OutstandingFunction DEF Calculable
<1>3. SumFunction(f) \in Int
  <2>1. f \in [Relevant(i) -> Int]
    BY AdjustmentType
  <2>2. Relevant(i) \subseteq i.assumptions
    BY DEF Relevant
  <2>3. IsFiniteSet(Relevant(i))
    BY <2>2, InputFields, FS_Subset
  <2> HIDE DEF f
  <2> QED
    BY <2>1, <2>3, SumIsInteger
<1> HIDE DEF f
<1>4. Components(i) = [actual_spend |-> ActualAmount(i), outstanding_commitment |-> OutstandingAmount(i),
                       uncommitted_baseline |-> Baseline(i) + RecurringAmount(i),
                       scenario_adjustment |-> SumFunction(f)]
  BY DEF Components, f
<1> QED
  BY <1>1, <1>2, <1>3, <1>4 DEF Kinds

LEMMA TotalIsSum ==
  ASSUME NEW i \in ForecastInputs, Calculable(i), NEW j \in ForecastInputs, Calculable(j), NEW d \in Int,
         Components(i).actual_spend = Components(j).actual_spend,
         Components(j).outstanding_commitment = Components(i).outstanding_commitment - d,
         Components(j).uncommitted_baseline = Components(i).uncommitted_baseline + d,
         Components(i).scenario_adjustment = Components(j).scenario_adjustment
  PROVE  ForecastTotal(i) = ForecastTotal(j)
<1> DEFINE f == Components(i)
           g == Components(j)
           x == "outstanding_commitment"
           y == "uncommitted_baseline"
<1>1. f \in [Kinds -> Int] /\ g \in [Kinds -> Int]
  BY ComponentsType
<1>2. x \in Kinds /\ y \in Kinds /\ x # y /\ g[x] = f[x] - d /\ g[y] = f[y] + d
  BY DEF Kinds
<1>3. \A z \in Kinds \ {x, y} : g[z] = f[z]
  BY DEF Kinds
<1> HIDE DEF f, g, x, y
<1>4. SumFunction(g) = SumFunction(f)
  BY <1>1, <1>2, <1>3, KindsAreFinite, SumMoves
<1> QED
  BY <1>4 DEF ForecastTotal, f, g

\* The records that do not mention commitments.
LEMMA SameHistory ==
  ASSUME NEW i, NEW j, j.scope = i.scope, j.start = i.start, j.cutoff = i.cutoff, j.horizon = i.horizon,
         j.postings = i.postings, j.schedules = i.schedules, j.assumptions = i.assumptions
  PROVE  /\ ActualAmount(j) = ActualAmount(i) /\ Baseline(j) = Baseline(i)
         /\ Relevant(j) = Relevant(i)
<1>1. Selected(j) = Selected(i)
  BY DEF Selected
<1>2. Actual(j) = Actual(i)
  BY <1>1 DEF Actual
<1>3. Historical(j) = Historical(i)
  BY <1>2 DEF Historical
<1>4. Relevant(j) = Relevant(i)
  BY DEF Relevant
<1> QED
  BY <1>2, <1>3, <1>4 DEF ActualAmount, Baseline

LEMMA LessOutstanding ==
  ASSUME NEW i \in ForecastInputs, NEW j \in ForecastInputs, NEW c \in Outstanding(i),
         Outstanding(j) = Outstanding(i) \ {c}
  PROVE  /\ OutstandingAmount(i) = OutstandingAmount(j) + c.outstanding
         /\ OutstandingAmount(j) \in Int /\ c.outstanding \in Int
<1> DEFINE S == Outstanding(j)
           f == [e \in Outstanding(i) |-> e.outstanding]
           g == [e \in S |-> e.outstanding]
<1>1. Outstanding(i) = S \cup {c} /\ c \notin S
  OBVIOUS
<1>2. IsFiniteSet(S) /\ f \in [S \cup {c} -> Int] /\ g \in [S -> Int]
  BY <1>1, OutstandingFunction
<1>3. (\A e \in S : f[e] = g[e]) /\ f[c] = c.outstanding
  BY <1>1
<1> HIDE DEF S, f, g
<1>4. SumFunction(f) = SumFunction(g) + f[c] /\ SumFunction(g) \in Int
  BY <1>1, <1>2, <1>3, SumExtends
<1>5. OutstandingAmount(i) = SumFunction(f) /\ OutstandingAmount(j) = SumFunction(g)
  BY DEF OutstandingAmount, f, g, S
<1>6. c.outstanding \in Int
  BY InputFields, OutstandingFunction
<1> QED
  BY <1>3, <1>4, <1>5, <1>6

LEMMA MoreRecurring ==
  ASSUME NEW i \in ForecastInputs, NEW j \in ForecastInputs, NEW z,
         Recurring(j) = Recurring(i) \cup {z}, z \notin Recurring(i)
  PROVE  /\ RecurringAmount(j) = RecurringAmount(i) + z[1].amount
         /\ RecurringAmount(i) \in Int
<1> DEFINE S == Recurring(i)
           f == [sd \in Recurring(j) |-> sd[1].amount]
           g == [sd \in S |-> sd[1].amount]
<1>1. IsFiniteSet(S) /\ f \in [S \cup {z} -> Int] /\ g \in [S -> Int]
  BY RecurringFunction
<1>2. (\A sd \in S : f[sd] = g[sd]) /\ f[z] = z[1].amount
  OBVIOUS
<1>3. z \notin S
  OBVIOUS
<1> HIDE DEF S, f, g
<1>4. SumFunction(f) = SumFunction(g) + f[z] /\ SumFunction(g) \in Int
  BY <1>1, <1>2, <1>3, SumExtends
<1>5. RecurringAmount(j) = SumFunction(f) /\ RecurringAmount(i) = SumFunction(g)
  BY DEF RecurringAmount, f, g, S
<1> QED
  BY <1>2, <1>4, <1>5

\* With a commitment less, its payment is expected instead.
LEMMA PaymentIsExpected ==
  ASSUME NEW i \in ForecastInputs, Calculable(i), NEW j \in ForecastInputs, Calculable(j),
         NEW c \in Outstanding(i), NEW x \in i.schedules, IsThePayment(x, c, i),
         j = [i EXCEPT !.commitments = @ \ {c}],
         \A a \in i.assumptions : a.kind = "timing_shift" => a.target # c.id
  PROVE  ForecastTotal(i) = ForecastTotal(j)
<1>1. /\ j.scope = i.scope /\ j.start = i.start /\ j.cutoff = i.cutoff /\ j.horizon = i.horizon
      /\ j.postings = i.postings /\ j.schedules = i.schedules /\ j.assumptions = i.assumptions
      /\ j.commitments = i.commitments \ {c}
  BY ForecastInputsAssumption
<1>2. ActualAmount(j) = ActualAmount(i) /\ Baseline(j) = Baseline(i) /\ Relevant(j) = Relevant(i)
  BY <1>1, SameHistory
<1>3. Open(j) = Open(i) \ {c}
  BY <1>1 DEF Open
<1>4. Outstanding(j) = Outstanding(i) \ {c}
  BY <1>1, <1>3 DEF Outstanding
<1>5. /\ OutstandingAmount(i) = OutstandingAmount(j) + c.outstanding
      /\ OutstandingAmount(j) \in Int /\ c.outstanding \in Int
  BY <1>4, LessOutstanding
<1> DEFINE p == <<c.obligation, Month(c.at)>>
<1>6. x.obligation = c.obligation /\ x.obligation # NoObligation /\ x.amount = c.outstanding
  BY InputFields DEF IsThePayment
<1>7. \A q : q \in CommittedPeriods(i) <=> q \in CommittedPeriods(j) \/ q = p
  BY <1>4, <1>6 DEF CommittedPeriods
<1>8. p \notin CommittedPeriods(j)
  <2> SUFFICES ASSUME NEW o \in Outstanding(j), p = <<o.obligation, Month(o.at)>> PROVE FALSE
    BY DEF CommittedPeriods
  <2>1. o \in Outstanding(i) /\ o # c /\ o.obligation = c.obligation /\ Month(o.at) = Month(c.at)
    BY <1>4
  <2> QED
    BY <2>1 DEF IsThePayment
<1>9. PICK d : {e \in Occurrences(x, i.cutoff, i.horizon) : Month(e) = Month(c.at)} = {d}
  <2> DEFINE E == {e \in Occurrences(x, i.cutoff, i.horizon) : Month(e) = Month(c.at)}
  <2>1. Cardinality(E) = 1
    BY DEF IsThePayment
  <2>2. E \subseteq i.cutoff .. i.horizon
    BY DEF Occurrences
  <2>3. IsFiniteSet(i.cutoff .. i.horizon)
    BY InputFields, FS_Interval
  <2> HIDE DEF E
  <2>4. IsFiniteSet(E)
    BY <2>2, <2>3, FS_Subset
  <2>5. \E e : E = {e}
    BY <2>1, <2>4, FS_Singleton
  <2> QED
    BY <2>5 DEF E
<1>10. d \in Occurrences(x, i.cutoff, i.horizon) /\ Month(d) = Month(c.at)
  BY <1>9
<1> HIDE DEF p
<1>11. \A s, e : Due(j, s, e) <=> Due(i, s, e) \/ (s = x /\ e = d)
  <2> SUFFICES ASSUME NEW s, NEW e PROVE Due(j, s, e) <=> Due(i, s, e) \/ (s = x /\ e = d)
    OBVIOUS
  <2>1. Due(j, s, e) => Due(i, s, e) \/ (s = x /\ e = d)
    <3> SUFFICES ASSUME Due(j, s, e), ~Due(i, s, e) PROVE s = x /\ e = d
      OBVIOUS
    <3>1. <<s.obligation, Month(e)>> = p
      BY <1>1, <1>7 DEF Due
    <3>2. s.obligation = c.obligation /\ Month(e) = Month(c.at)
      BY <3>1 DEF p
    <3>3. s = x
      BY <1>1, <3>2 DEF Due, IsThePayment
    <3> QED
      BY <1>1, <1>9, <3>2, <3>3 DEF Due
  <2>2. Due(i, s, e) => Due(j, s, e)
    BY <1>1, <1>7 DEF Due
  <2>3. Due(j, x, d)
    <3>1. <<x.obligation, Month(d)>> = p
      BY <1>6, <1>10 DEF p
    <3> QED
      BY <1>1, <1>8, <1>10, <3>1 DEF Due, IsThePayment
  <2> QED
    BY <2>1, <2>2, <2>3
<1>12. ~Due(i, x, d)
  <2>1. <<x.obligation, Month(d)>> = p
    BY <1>6, <1>10 DEF p
  <2> QED
    BY <1>7, <2>1 DEF Due
<1>13. RecurringAmount(j) = RecurringAmount(i) + c.outstanding /\ RecurringAmount(i) \in Int
  <2> DEFINE S == Recurring(i)
             z == <<x, d>>
  <2>1. Recurring(j) = S \cup {z} /\ z \notin S
    <3>1. z \in Recurring(j) /\ z \notin S
      BY <1>11, <1>12, RecurringIsDue
    <3>2. \A sd \in S : sd \in Recurring(j)
      <4> SUFFICES ASSUME NEW sd \in S PROVE sd \in Recurring(j)
        OBVIOUS
      <4>1. PICK s, e : sd = <<s, e>> /\ Due(i, s, e)
        BY RecurringIsDue
      <4> QED
        BY <1>11, <4>1, RecurringIsDue
    <3>3. \A sd \in Recurring(j) : sd \in S \/ sd = z
      <4> SUFFICES ASSUME NEW sd \in Recurring(j) PROVE sd \in S \/ sd = z
        OBVIOUS
      <4>1. PICK s, e : sd = <<s, e>> /\ Due(j, s, e)
        BY RecurringIsDue
      <4> QED
        BY <1>11, <4>1, RecurringIsDue
    <3> QED
      BY <3>1, <3>2, <3>3
  <2>2. z[1].amount = x.amount
    OBVIOUS
  <2> HIDE DEF z
  <2>3. RecurringAmount(j) = RecurringAmount(i) + z[1].amount /\ RecurringAmount(i) \in Int
    BY <2>1, MoreRecurring
  <2> QED
    BY <1>6, <2>2, <2>3
<1>14. \A a \in Relevant(i) : Adjustment(a, j) = Adjustment(a, i)
  <2> SUFFICES ASSUME NEW a \in Relevant(i) PROVE Adjustment(a, j) = Adjustment(a, i)
    OBVIOUS
  <2>1. a \in i.assumptions
    BY DEF Relevant
  <2>2. a.kind \in {"fixed_adjustment", "percentage_change", "timing_shift"}
    BY <2>1, InputFields
  <2>3. a.kind = "timing_shift" => Targets(a, j) = Targets(a, i)
    BY <1>3, <2>1 DEF Targets
  <2>4. CASE a.kind = "fixed_adjustment"
    BY <2>4 DEF Adjustment
  <2>5. CASE a.kind = "percentage_change"
    BY <1>2, <2>5 DEF Adjustment
  <2>6. CASE a.kind = "timing_shift"
    BY <1>1, <2>3, <2>6 DEF Adjustment
  <2> QED
    BY <2>2, <2>4, <2>5, <2>6
<1>15. [a \in Relevant(j) |-> Adjustment(a, j)] = [a \in Relevant(i) |-> Adjustment(a, i)]
  BY <1>2, <1>14
<1>16. Baseline(i) \in Int
  BY BaselineType DEF Calculable
<1>17. /\ Components(j).actual_spend = Components(i).actual_spend
       /\ Components(j).scenario_adjustment = Components(i).scenario_adjustment
       /\ Components(i).outstanding_commitment = OutstandingAmount(i)
       /\ Components(j).outstanding_commitment = OutstandingAmount(j)
       /\ Components(i).uncommitted_baseline = Baseline(i) + RecurringAmount(i)
       /\ Components(j).uncommitted_baseline = Baseline(i) + RecurringAmount(j)
  BY <1>2, <1>15 DEF Components
<1>18. /\ Components(j).outstanding_commitment = Components(i).outstanding_commitment - c.outstanding
       /\ Components(j).uncommitted_baseline = Components(i).uncommitted_baseline + c.outstanding
  BY <1>5, <1>13, <1>16, <1>17
<1> QED
  BY <1>5, <1>17, <1>18, TotalIsSum

\* The changes by kind add up to the change of the total.
LEMMA DeltasExplain ==
  ASSUME NEW i \in ForecastInputs, Calculable(i), NEW j \in ForecastInputs, Calculable(j),
         NEW s, s.forecast = CalculateForecast(i), NEW t, t.forecast = CalculateForecast(j)
  PROVE  SumFunction(ContributionDeltas(s, t)) = s.forecast.total - t.forecast.total
<1> DEFINE f == Components(i)
           g == Components(j)
           h == [kind \in Kinds |-> f[kind] - g[kind]]
<1>1. /\ s.forecast.components = f /\ t.forecast.components = g
      /\ s.forecast.total = ForecastTotal(i) /\ t.forecast.total = ForecastTotal(j)
  BY DEF CalculateForecast
<1>2. f \in [Kinds -> Int] /\ g \in [Kinds -> Int]
  BY ComponentsType
<1> HIDE DEF f, g
<1>3. ContributionDeltas(s, t) = h
  BY <1>1, <1>2 DEF ContributionDeltas
<1>4. SumFunction(h) = SumFunction(f) - SumFunction(g)
  BY <1>2, KindsAreFinite, SumOfDifferences
<1> QED
  BY <1>1, <1>3, <1>4 DEF ForecastTotal, f, g

(***************************************************************************)
(* A snapshot is the forecast of one of the inputs, as is what a refresh   *)
(* that is under way would store.                                          *)
(***************************************************************************)
CalculatedInv ==
  /\ refreshing = [r \in Refreshers |-> refreshing[r]]
  /\ \A r \in Refreshers : refreshing[r].at = "open" =>
       {"at", "input"} \subseteq DOMAIN refreshing[r] /\ refreshing[r].input \in ForecastInputs
  /\ \A s \in snapshots : /\ s.input \in ForecastInputs /\ Calculable(s.input)
                          /\ s.forecast = CalculateForecast(s.input)

LEMMA CalculatedStart == ForecastInit => CalculatedInv
BY DEF ForecastInit, CalculatedInv, IdleRefresh

LEMMA CalculatedMove ==
  ASSUME CalculatedInv, NEW r \in Refreshers, NEW t, refreshing' = [refreshing EXCEPT ![r] = t],
         t.at = "open" => {"at", "input"} \subseteq DOMAIN t /\ t.input \in ForecastInputs,
         snapshots' = snapshots
  PROVE  CalculatedInv'
BY DEF CalculatedInv

LEMMA CalculatedStep == CalculatedInv /\ [ForecastNext]_fvars => CalculatedInv'
<1> SUFFICES ASSUME CalculatedInv, [ForecastNext]_fvars PROVE CalculatedInv'
  OBVIOUS
<1>1. ASSUME NEW r \in Refreshers, StartRefresh(r) PROVE CalculatedInv'
  <2>1. PICK i \in ForecastInputs :
          refreshing' = [refreshing EXCEPT ![r] =
            [at |-> "open", input |-> i, stored |-> snapshots, current |-> pointer]]
    BY <1>1 DEF StartRefresh
  <2> QED
    BY <1>1, <2>1, CalculatedMove DEF StartRefresh
<1>2. ASSUME NEW r \in Refreshers, CommitRefresh(r) PROVE CalculatedInv'
  <2>1. CASE snapshots' = snapshots
    BY <1>2, <2>1, CalculatedMove DEF CommitRefresh, IdleRefresh
  <2>2. CASE snapshots' # snapshots
    <3> DEFINE new == NextSnapshot(refreshing[r])
    <3>1. /\ snapshots' = snapshots \union {new} /\ Calculable(refreshing[r].input)
          /\ refreshing' = [refreshing EXCEPT ![r] = IdleRefresh] /\ refreshing[r].at = "open"
      BY <1>2, <2>2 DEF CommitRefresh
    <3>2. new.input = refreshing[r].input /\ new.forecast = CalculateForecast(refreshing[r].input)
      BY DEF NextSnapshot
    <3>3. refreshing[r].input \in ForecastInputs
      BY <3>1 DEF CalculatedInv
    <3> HIDE DEF new
    <3> QED
      BY <3>1, <3>2, <3>3 DEF CalculatedInv, IdleRefresh
  <2> QED
    BY <2>1, <2>2
<1>3. ASSUME NEW r \in Refreshers, RestartRefresh(r) PROVE CalculatedInv'
  <2> DEFINE t == refreshing[r]
             again == [t EXCEPT !.stored = snapshots, !.current = pointer]
  <2>1. CASE refreshing' = [refreshing EXCEPT ![r] = IdleRefresh]
    BY <1>3, <2>1, CalculatedMove DEF RestartRefresh, IdleRefresh
  <2>2. CASE refreshing' = [refreshing EXCEPT ![r].stored = snapshots, ![r].current = pointer]
    <3>1. refreshing' = [refreshing EXCEPT ![r] = again]
      BY <2>2 DEF CalculatedInv
    <3>2. {"at", "input"} \subseteq DOMAIN t /\ t.input \in ForecastInputs
      BY <1>3 DEF RestartRefresh, CalculatedInv
    <3>3. {"at", "input"} \subseteq DOMAIN again /\ again.input \in ForecastInputs
      BY <3>2
    <3> QED
      BY <1>3, <3>1, <3>3, CalculatedMove DEF RestartRefresh
  <2> QED
    BY <1>3, <2>1, <2>2 DEF RestartRefresh
<1>4. ASSUME NEW r \in Readers, ReadPointer(r) \/ ReadSnapshot(r) PROVE CalculatedInv'
  BY <1>4 DEF ReadPointer, ReadSnapshot, CalculatedInv
<1>5. CASE UNCHANGED fvars
  BY <1>5 DEF fvars, CalculatedInv
<1> QED
  BY <1>1, <1>2, <1>3, <1>4, <1>5 DEF ForecastNext

LEMMA CalculatedIsProjected == CalculatedInv => PaymentsAreProjectedOnce
<1> SUFFICES ASSUME CalculatedInv, NEW s \in snapshots, NEW t \in snapshots
             PROVE  /\ SumFunction(ContributionDeltas(s, t)) = s.forecast.total - t.forecast.total
                    /\ \A c \in Outstanding(s.input), x \in s.input.schedules :
                         /\ t.input = [s.input EXCEPT !.commitments = @ \ {c}]
                         /\ IsThePayment(x, c, s.input)
                         /\ \A a \in s.input.assumptions : a.kind = "timing_shift" => a.target # c.id
                         => s.forecast.total = t.forecast.total
  BY DEF PaymentsAreProjectedOnce
<1>1. /\ s.input \in ForecastInputs /\ Calculable(s.input) /\ s.forecast = CalculateForecast(s.input)
      /\ t.input \in ForecastInputs /\ Calculable(t.input) /\ t.forecast = CalculateForecast(t.input)
  BY DEF CalculatedInv
<1>2. SumFunction(ContributionDeltas(s, t)) = s.forecast.total - t.forecast.total
  BY <1>1, DeltasExplain
<1>3. s.forecast.total = ForecastTotal(s.input) /\ t.forecast.total = ForecastTotal(t.input)
  BY <1>1 DEF CalculateForecast
<1>4. ASSUME NEW c \in Outstanding(s.input), NEW x \in s.input.schedules,
             t.input = [s.input EXCEPT !.commitments = @ \ {c}], IsThePayment(x, c, s.input),
             \A a \in s.input.assumptions : a.kind = "timing_shift" => a.target # c.id
      PROVE  ForecastTotal(s.input) = ForecastTotal(t.input)
  BY <1>1, <1>4, PaymentIsExpected
<1> QED
  BY <1>2, <1>3, <1>4

(***************************************************************************)
(* For any inputs that the schema admits: a commitment to a payment that   *)
(* was expected leaves the total of the forecast as it was, and what two   *)
(* snapshots differ by is explained by the kinds of their components.      *)
(***************************************************************************)
THEOREM PaymentsCountOnce == ForecastSpec => []PaymentsAreProjectedOnce
<1> QED
  BY CalculatedStart, CalculatedStep, CalculatedIsProjected, PTL DEF ForecastSpec
=============================================================================
