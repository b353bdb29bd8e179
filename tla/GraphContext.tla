---------------------------- MODULE GraphContext ----------------------------
(***************************************************************************)
(* The graph query of apps/api/src/context/graph.ts: a bounded, access-     *)
(* filtered walk over verified relationships, and its cache of summaries.   *)
(* A query reads entities, relationships and the cache one after the other, *)
(* without a transaction, while entities and relationships are seeded. The  *)
(* access of a record is the set of principals that may see it. Evidence    *)
(* references go with the revision of a relationship.                       *)
(***************************************************************************)
EXTENDS Integers, FiniteSets, SequencesExt

CONSTANTS Relationships,           \* [id, revision, from, to, type, start, end, access]: what may be seeded
          FirstEntities,           \* the entities of the first seed, each with its access
          FirstEdges,              \* the relationships of the first seed, in possible orders
          LaterEntities,           \* <<entity, access>> pairs that may be seeded later
          Asks,                    \* [subject, principal, types, hops, max, asOf]
          GraphReaders,
          MaxSeeds                 \* a bound on seeding

ASSUME AskAssumption == \A a \in Asks : a.hops \in 0..2 /\ a.max \in 1..50
ASSUME EdgesAssumption == \A list \in FirstEdges : list \in Seq(ToSet(list))

VARIABLES access,                  \* import_entities: entity -> who may see it
          edges,                   \* relationships, in the order the collection gives them
          summaries,               \* scope_summaries
          query,                   \* per reader
          seeds

gvars == <<access, edges, summaries, query, seeds>>

Resting == [at |-> "idle"]

GraphInit == /\ access = FirstEntities
             /\ edges \in FirstEdges /\ summaries = {} /\ seeds = 0
             /\ query = [r \in GraphReaders |-> Resting]

SeedEntity ==
    /\ seeds < MaxSeeds
    /\ \E pair \in LaterEntities :
          access' = [e \in DOMAIN access \cup {pair[1]} |-> IF e = pair[1] THEN pair[2] ELSE access[e]]
    /\ seeds' = seeds + 1
    /\ UNCHANGED <<edges, summaries, query>>

(* A relationship between two known entities replaces the one of its id in  *)
(* place, or is added.                                                      *)
SeedRelationship ==
    /\ seeds < MaxSeeds
    /\ \E r \in Relationships :
          /\ r.from # r.to /\ {r.from, r.to} \subseteq DOMAIN access
          /\ edges' = IF \E i \in DOMAIN edges : edges[i].id = r.id
                      THEN [i \in DOMAIN edges |-> IF edges[i].id = r.id THEN r ELSE edges[i]]
                      ELSE Append(edges, r)
    /\ seeds' = seeds + 1
    /\ UNCHANGED <<access, summaries, query>>

-----------------------------------------------------------------------------
(* The walk. A relationship may be used when it is of a type asked for, in  *)
(* force, and the principal may see it and both its ends, as they were read.*)
Sees(known, e, principal) == e \in DOMAIN known /\ principal \in known[e]
InForce(r, ask) == /\ r.start <= ask.asOf /\ (r.end = 0 \/ ask.asOf < r.end)
                   /\ ask.types = {} \/ r.type \in ask.types

Usable(known, ask, r) == /\ InForce(r, ask) /\ ask.principal \in r.access
                         /\ Sees(known, r.from, ask.principal) /\ Sees(known, r.to, ask.principal)

(* One relationship of the list, on a hop from the given frontier. *)
Visit(known, ask, frontier, w, r) ==
    LET other == IF r.from \in frontier THEN r.to ELSE r.from
    IN  IF r \in w.selected \/ {r.from, r.to} \cap frontier = {} \/ ~Usable(known, ask, r) THEN w
        ELSE IF other \notin w.visited /\ Cardinality(w.visited) = ask.max THEN [w EXCEPT !.cut = TRUE]
        ELSE [w EXCEPT !.selected = @ \cup {r}, !.visited = @ \cup {other},
                       !.frontier = IF other \in w.visited THEN @ ELSE @ \cup {other}]

Hop(known, ask, list, w) ==
    FoldLeft(LAMBDA acc, r : Visit(known, ask, w.frontier, acc, r), [w EXCEPT !.frontier = {}], list)

Walk(known, ask, list) ==
    LET after[n \in 0..ask.hops] ==
          IF n = 0 THEN [visited |-> {ask.subject}, selected |-> {}, cut |-> FALSE, frontier |-> {ask.subject}]
          ELSE LET w == after[n - 1]
               IN  IF w.frontier # {} /\ Cardinality(w.visited) < ask.max THEN Hop(known, ask, list, w) ELSE w
    IN  after[ask.hops]

(* A plausible slip: only what the cap cut off is reported. *)
TruncatedByCap(w, ask) == w.cut

Truncated(w, ask) == w.cut \/ (w.frontier # {} /\ ask.hops > 0)

(* The summary counts, and its cache key names what was counted. *)
Summary(w) == <<Cardinality(w.selected), Cardinality(w.visited)>>
CacheKey(known, ask, w) ==
    [principal |-> ask.principal, subject |-> ask.subject, types |-> ask.types, hops |-> ask.hops, max |-> ask.max,
     watermark |-> <<{<<e, known[e]>> : e \in w.visited}, w.selected>>]

-----------------------------------------------------------------------------
ReadEntities(r, ask) ==
    /\ query[r].at = "idle"
    /\ query' = [query EXCEPT ![r] = IF Sees(access, ask.subject, ask.principal)
                                     THEN [at |-> "entities", ask |-> ask, known |-> access]
                                     ELSE [at |-> "denied"]]
    /\ UNCHANGED <<access, edges, summaries, seeds>>

ReadRelationships(r) ==
    LET q == query[r]
    IN  /\ q.at = "entities"
        /\ query' = [query EXCEPT ![r] = [at |-> "walked", ask |-> q.ask, known |-> q.known, list |-> edges,
                                          walk |-> Walk(q.known, q.ask, edges)]]
        /\ UNCHANGED <<access, edges, summaries, seeds>>

ReadCache(r) ==
    LET q == query[r]
        cached == {s \in summaries : s.key = CacheKey(q.known, q.ask, q.walk)}
    IN  /\ q.at = "walked"
        /\ query' = [query EXCEPT ![r] =
              [at |-> IF cached = {} THEN "missed" ELSE "answered", ask |-> q.ask, known |-> q.known, list |-> q.list,
               walk |-> q.walk, truncated |-> Truncated(q.walk, q.ask),
               summary |-> IF cached = {} THEN Summary(q.walk) ELSE (CHOOSE s \in cached : TRUE).summary]]
        /\ UNCHANGED <<access, edges, summaries, seeds>>

(* The unique index refuses a summary that another query has cached since,  *)
(* and the query fails with it.                                             *)
CacheSummary(r) ==
    LET q == query[r]
        key == CacheKey(q.known, q.ask, q.walk)
        taken == \E s \in summaries : s.key = key
    IN  /\ q.at = "missed"
        /\ summaries' = IF taken THEN summaries ELSE summaries \cup {[key |-> key, summary |-> q.summary]}
        /\ query' = [query EXCEPT ![r] = IF taken THEN [at |-> "failed"] ELSE [@ EXCEPT !.at = "answered"]]
        /\ UNCHANGED <<access, edges, seeds>>

GraphNext ==
    \/ SeedEntity \/ SeedRelationship
    \/ \E r \in GraphReaders : \/ \E ask \in Asks : ReadEntities(r, ask)
                               \/ ReadRelationships(r) \/ ReadCache(r) \/ CacheSummary(r)

(* Nobody asks any more. *)
NobodyAsks == \A r \in GraphReaders : query[r].at \in {"denied", "answered", "failed"}

GraphSpec == GraphInit /\ [][GraphNext]_gvars

-----------------------------------------------------------------------------
(* What the principal can reach from some entities in one hop, and from the *)
(* subject in as many as were asked for, of which there are two at most.    *)
Touching(q, S) == {e \in ToSet(q.list) : Usable(q.known, q.ask, e) /\ {e.from, e.to} \cap S # {}}
Beside(q, S) == S \cup UNION {{e.from, e.to} : e \in Touching(q, S)}
Within(q) == LET here == {q.ask.subject} IN <<here, Beside(q, here), Beside(q, Beside(q, here))>>[q.ask.hops + 1]

(* An answer that does not call itself truncated leaves out nothing its     *)
(* principal may see of the subject's surroundings, at any distance; what   *)
(* fits under the cap is never left out; an edge is given with both its     *)
(* ends; nothing is out of reach; and a summary from the cache counts this  *)
(* very answer, whatever was seeded or cached between the reads             *)
(* (graph.ts:68-106).                                                       *)
GraphAnswersAreHonest ==
    \A r \in {x \in GraphReaders : query[x].at = "answered"} :
        LET q == query[r]
            w == q.walk
        IN  /\ w.visited \subseteq Within(q)
            /\ Cardinality(w.visited) <= q.ask.max
            /\ w.selected \subseteq Touching(q, w.visited) /\ \A e \in w.selected : {e.from, e.to} \subseteq w.visited
            /\ ~q.truncated /\ q.ask.hops > 0 => w.selected = Touching(q, w.visited) /\ Beside(q, w.visited) = w.visited
            /\ Cardinality(Within(q)) <= q.ask.max => w.visited = Within(q)
            /\ q.summary = <<Cardinality(w.selected), Cardinality(w.visited)>>
=============================================================================
