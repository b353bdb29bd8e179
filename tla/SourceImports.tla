---------------------------- MODULE SourceImports ----------------------------
(***************************************************************************)
(* The import repository: deliveries of source objects, retried and out of *)
(* order, each ingested in one snapshot transaction.  A caller reads the   *)
(* database as it was when the transaction began (Begin) and then commits, *)
(* or starts again when another transaction wrote one of its documents.    *)
(***************************************************************************)
EXTENDS Integers, FiniteSets

CONSTANTS Callers,        \* concurrent requests that ingest
          Deliveries,     \* the source deliveries a connector may send, and resend
          KnownScopes,    \* scopes that name an imported entity of their kind
          MappedObjects,  \* source objects mapped to an imported entity
          Postings,       \* posting identifiers
          Scopes,         \* the organization and the scopes of the postings
          Instances,      \* source instances
          OrganizationScope, NoPosting

VARIABLES deliveries,     \* source_deliveries: the delivery and its stored result
          normalized,     \* normalized_postings, each current or not
          ledger,         \* canonical postings: the latest revision applied
          refreshes,      \* forecast_refreshes: generation and source watermarks
          requests        \* per caller: idle, or the delivery and its snapshot

ivars == <<deliveries, normalized, ledger, refreshes, requests>>

IdleRequest == [at |-> "idle"]

Database == [deliveries |-> deliveries, normalized |-> normalized,
             ledger |-> ledger, refreshes |-> refreshes]

ImportInit ==
  /\ deliveries = {} /\ normalized = {}
  /\ ledger = [p \in Postings |-> 0]
  /\ refreshes = [s \in Scopes |->
       [generation |-> 0, watermarks |-> [i \in Instances |-> 0]]]
  /\ requests = [c \in Callers |-> IdleRequest]

(***************************************************************************)
(* What the work of one ingest decides from the database it reads.         *)
(***************************************************************************)
SameObject(d, e) == d.instance = e.instance /\ d.object = e.object

SameDelivery(d, db) ==
  {r \in db.deliveries : r.delivery.instance = d.instance /\ r.delivery.id = d.id}

SameRevision(d, db) ==
  {r \in db.deliveries : SameObject(r.delivery, d) /\ r.delivery.revision = d.revision}

\* The source hash leaves out the delivery identifier and the instant of observation.
SourceOf(d) == [d EXCEPT !.id = 0, !.observed = 0]

IsStaleByArrival(d, db) == FALSE

\* Only revisions of digits are ordered; a quarantined delivery counts as well.
IsStale(d, db) ==
  /\ d.numeric
  /\ \E r \in db.deliveries : /\ SameObject(r.delivery, d)
                              /\ r.delivery.numeric /\ r.delivery.revision > d.revision

HasPosting(d) == d.event = "fixture.expense" /\ d.posting # NoPosting

Accepted(d, db) ==
  /\ ~IsStale(d, db)
  /\ IF HasPosting(d) THEN d.posting.scopes \subseteq KnownScopes
                      ELSE d.object \in MappedObjects

NormalizedRefs(d, db) ==
  IF ~Accepted(d, db) THEN {}
  ELSE IF HasPosting(d) THEN {<<"posting", d.posting.id, d.posting.revision>>}
  ELSE {<<"entity", d.object, 1>>}

Result(d, db) ==
  [ref |-> <<d.instance, d.id>>, refs |-> NormalizedRefs(d, db),
   disposition |-> IF Accepted(d, db) THEN "accepted" ELSE "quarantined"]

Outcome(d, db) ==
  LET known == IF SameDelivery(d, db) # {} THEN SameDelivery(d, db) ELSE SameRevision(d, db)
      matches == IF SameDelivery(d, db) # {}
                 THEN \A r \in known : r.delivery = d
                 ELSE \A r \in known : SourceOf(r.delivery) = SourceOf(d)
  IN  IF known = {} THEN "store" ELSE IF matches THEN "duplicate" ELSE "conflict"

Applies(d, db) == HasPosting(d) /\ Accepted(d, db)

\* The posting identity is unique: a second object that carries it aborts the work.
Collides(d, db) ==
  /\ Applies(d, db)
  /\ \E p \in db.normalized : p.posting.id = d.posting.id /\ p.posting.revision = d.posting.revision

\* SourceDeliverySchema and PostingSchema: what a parsed delivery has.
ASSUME DeliveriesAssumption ==
  /\ OrganizationScope \in Scopes
  /\ \A d \in Deliveries :
       /\ d.instance \in Instances
       /\ d.numeric \in BOOLEAN /\ (d.numeric => d.revision \in Nat)
       /\ HasPosting(d) => d.posting.id \in Postings /\ d.posting.revision \in Nat

(***************************************************************************)
(* What it writes: the delivery, the posting that becomes current in place *)
(* of the object's former one, the canonical posting unless the ledger has *)
(* this revision or a newer one, and a refresh request of every scope.     *)
(***************************************************************************)
NormalizedPosting(d) ==
  [instance |-> d.instance, object |-> d.object, revision |-> d.revision,
   numeric |-> d.numeric, posting |-> d.posting, current |-> TRUE]

NormalizeAdding(d, db) == normalized \union {NormalizedPosting(d)}

\* updateMany reaches the documents of the snapshot, not one inserted since.
Normalize(d, db) ==
  {[p EXCEPT !.current = p.current /\ ~(SameObject(p, d) /\ p \in db.normalized)] : p \in normalized}
    \union {NormalizedPosting(d)}

ApplyPosting(posting, applied) ==
  IF applied[posting.id] >= posting.revision THEN applied
  ELSE [applied EXCEPT ![posting.id] = posting.revision]

Touched(d) == {OrganizationScope} \union d.posting.scopes

Schedule(d, requested) ==
  [s \in Scopes |-> IF s \notin Touched(d) THEN requested[s]
     ELSE [requested[s] EXCEPT !.generation = @ + 1, !.watermarks[d.instance] = d.observed]]

\* A document this work writes was written after the snapshot was taken.
IngestConflict(d, db) ==
  \/ SameDelivery(d, Database) # {} \/ SameRevision(d, Database) # {}
  \/ /\ Applies(d, db)
     /\ \/ Collides(d, Database)
        \/ \E p \in db.normalized : p.current /\ SameObject(p, d) /\ p \notin normalized
        \/ ledger[d.posting.id] # db.ledger[d.posting.id]
        \/ \E s \in Touched(d) : refreshes[s] # db.refreshes[s]

(***************************************************************************)
(* Steps of a caller.  Any delivery may be sent again at any time, by the  *)
(* other caller as well: a caller whose answer was lost resends it.        *)
(***************************************************************************)
BeginIngest(c) ==
  /\ requests[c].at = "idle"
  /\ \E d \in Deliveries :
       requests' = [requests EXCEPT ![c] = [at |-> "open", delivery |-> d, db |-> Database]]
  /\ UNCHANGED <<deliveries, normalized, ledger, refreshes>>

\* A duplicate is answered with the stored result, a reused identifier with a
\* conflict, a colliding posting with an error: nothing is written.
Reply(c) ==
  LET d == requests[c].delivery
      db == requests[c].db
  IN  /\ requests[c].at = "open"
      /\ Outcome(d, db) # "store" \/ Collides(d, db)
      /\ requests' = [requests EXCEPT ![c] = IdleRequest]
      /\ UNCHANGED <<deliveries, normalized, ledger, refreshes>>

CommitIngest(c) ==
  LET d == requests[c].delivery
      db == requests[c].db
  IN  /\ requests[c].at = "open"
      /\ Outcome(d, db) = "store" /\ ~Collides(d, db) /\ ~IngestConflict(d, db)
      /\ deliveries' = deliveries \union {[delivery |-> d, result |-> Result(d, db)]}
      /\ IF Applies(d, db)
         THEN /\ normalized' = Normalize(d, db)
              /\ ledger' = ApplyPosting(d.posting, ledger)
              /\ refreshes' = Schedule(d, refreshes)
         ELSE UNCHANGED <<normalized, ledger, refreshes>>
      /\ requests' = [requests EXCEPT ![c] = IdleRequest]

RetryIngest(c) ==
  LET d == requests[c].delivery
      db == requests[c].db
  IN  /\ requests[c].at = "open"
      /\ Outcome(d, db) = "store" /\ ~Collides(d, db) /\ IngestConflict(d, db)
      /\ requests' = [requests EXCEPT ![c].db = Database]
      /\ UNCHANGED <<deliveries, normalized, ledger, refreshes>>

ImportNext ==
  \E c \in Callers :
    BeginIngest(c) \/ Reply(c) \/ CommitIngest(c) \/ RetryIngest(c)

ImportSpec == ImportInit /\ [][ImportNext]_ivars

(***************************************************************************)
(* Properties.                                                             *)
(***************************************************************************)

\* However deliveries of a source object are ordered, repeated and raced, at most one
\* of its postings is current, and where its revisions are ordered it is the newest
\* that was accepted: the source decides, not the arrival.
CurrentIsNewest ==
  \A p \in normalized :
    /\ p.current => \A q \in normalized : q.current /\ SameObject(p, q) => q = p
    /\ p.numeric => \E q \in normalized : /\ q.current /\ SameObject(p, q)
                                          /\ q.numeric => q.revision >= p.revision

\* The financial ledger follows the imports: of a posting whose source numbers its
\* revisions, the revision that took effect is the one that is listed, and each scope
\* was asked to refresh its forecast once for every posting accepted there.
LedgerFollowsImports ==
  /\ \A p \in normalized : p.current /\ p.numeric => ledger[p.posting.id] = p.posting.revision
  /\ \A s \in Scopes : refreshes[s].generation =
       Cardinality({p \in normalized : s \in {OrganizationScope} \union p.posting.scopes})

=============================================================================
