----------------------------- MODULE MemoryPages -----------------------------
(***************************************************************************)
(* The paged memory query of apps/api/src/context/repository.ts: postings   *)
(* of the asked scopes, latest first, read in batches until a page is full, *)
(* those of inaccessible entities left out. Postings and entities are       *)
(* imported while a reader goes from page to page. A posting is a record    *)
(* [id, at, scopes, found]; found says that its text, or its scopes', has   *)
(* what is asked for.                                                       *)
(***************************************************************************)
EXTENDS Integers, FiniteSets, SequencesExt

CONSTANTS FirstPostings, LaterPostings,   \* what is imported at first, and what may be later
          RestrictedScopes,               \* scopes whose entity may become restricted
          PageLimits, AskedScopes, AnswerTime,   \* {} asks for the whole organization
          MaxImports                      \* a bound on imports

\* One posting of an identifier is current; a page holds one posting or more (contracts/src/common.ts:70).
ASSUME PagesAssumption ==
    /\ \A p \in FirstPostings \cup LaterPostings : p.id \in Nat /\ p.at \in Int
    /\ IsFiniteSet(FirstPostings) /\ \A p, q \in FirstPostings : p.id = q.id => p = q
    /\ PageLimits \subseteq Nat \ {0} /\ AnswerTime \in Int

VARIABLES currentPostings,                \* normalized_postings that are current
          restricted,              \* scopes whose entity the reader may not see
          reader,                  \* where the reader is, its page and the pages before
          steady,                  \* postings unchanged and visible since the first page was asked for
          imported

pvars == <<currentPostings, restricted, reader, steady, imported>>

AtStart == [id |-> 0, at |-> AnswerTime + 1]

PagesInit == /\ currentPostings = FirstPostings /\ restricted \in SUBSET RestrictedScopes
             /\ reader = [at |-> "idle"] /\ steady = {} /\ imported = 0

(* Equal instants are told apart by the identifier, in ascending order. *)
Follows(p, q) == p.at < q.at \/ (p.at = q.at /\ p.id > q.id)

(* A plausible slip: the cursor remembers an instant only. *)
AfterInstant(p, cursor) == p.at < cursor.at

After(p, cursor) == Follows(p, cursor)

InScope(p) == AskedScopes = {} \/ p.scopes \cap AskedScopes # {}
MayBeSeen(p, hidden) == p.scopes \cap hidden = {}
Answers(p, hidden) == p.found /\ p.at <= AnswerTime /\ InScope(p) /\ MayBeSeen(p, hidden)

(* The latest first: each stands behind as many as it follows. *)
Sorted(set) ==
    [i \in 1..Cardinality(set) |-> CHOOSE p \in set : Cardinality({q \in set : Follows(p, q)}) = i - 1]
FirstOf(seq, n) == SubSeq(seq, 1, IF n < Len(seq) THEN n ELSE Len(seq))

(* The first page, or the page of the cursor the previous one ended with. *)
AskPage ==
    /\ \/ /\ reader.at \in {"idle", "end"}
          /\ \E limit \in PageLimits :
                reader' = [at |-> "finding", limit |-> limit, scan |-> AtStart, visible |-> <<>>, given |-> <<>>]
          /\ steady' = {p \in currentPostings : Answers(p, restricted)}
       \/ /\ reader.at = "page"
          /\ reader' = [at |-> "finding", limit |-> reader.limit, scan |-> Last(reader.given), visible |-> <<>>,
                        given |-> reader.given]
          /\ UNCHANGED steady
    /\ UNCHANGED <<currentPostings, restricted, imported>>

(* A batch of postings after the scan cursor, one more than a page holds. *)
FindPostings ==
    /\ reader.at = "finding"
    /\ LET batch == FirstOf(Sorted({p \in currentPostings : p.at <= AnswerTime /\ InScope(p) /\ After(p, reader.scan)}),
                            reader.limit + 1)
       IN  reader' = [at |-> "filtering", limit |-> reader.limit, scan |-> reader.scan, visible |-> reader.visible,
                      given |-> reader.given, batch |-> batch]
    /\ UNCHANGED <<currentPostings, restricted, steady, imported>>

(* What is visible of a batch, by the entities as they are now; the page    *)
(* ends when it is over-full or the batch was the last.                     *)
FilterBatch ==
    LET r == reader
        visible == r.visible \o Sorted({p \in ToSet(r.batch) : p.found /\ MayBeSeen(p, restricted)})
        full == Len(visible) > r.limit
    IN  /\ r.at = "filtering"
        /\ reader' = IF r.batch # <<>> /\ Len(r.batch) > r.limit /\ ~full
                     THEN [at |-> "finding", limit |-> r.limit, scan |-> Last(r.batch), visible |-> visible, given |-> r.given]
                     ELSE [at |-> IF full THEN "page" ELSE "end", limit |-> r.limit,
                           given |-> r.given \o FirstOf(visible, r.limit)]
        /\ UNCHANGED <<currentPostings, restricted, steady, imported>>

(* An import adds a posting, or supersedes the one of its identifier. *)
ImportPosting ==
    /\ imported < MaxImports
    /\ \E p \in LaterPostings :
          /\ p \notin currentPostings
          /\ currentPostings' = {q \in currentPostings : q.id # p.id} \cup {p}
          /\ steady' = {q \in steady : q.id # p.id}
    /\ imported' = imported + 1
    /\ UNCHANGED <<restricted, reader>>

SeedAccess ==
    /\ imported < MaxImports
    /\ \E s \in RestrictedScopes :
          /\ restricted' = (restricted \ {s}) \cup ({s} \ restricted)
          /\ steady' = {p \in steady : Answers(p, restricted')}
    /\ imported' = imported + 1
    /\ UNCHANGED <<currentPostings, reader>>

PagesNext == AskPage \/ FindPostings \/ FilterBatch \/ ImportPosting \/ SeedAccess
PagesSpec == PagesInit /\ [][PagesNext]_pvars

-----------------------------------------------------------------------------
(* A reader that follows the cursors is given every posting that was there  *)
(* and visible all along, and no revision of a posting twice, latest first, *)
(* however pages, batches and imports fall together (repository.ts:22-48).  *)
PagesMissNothing ==
    reader.at \in {"page", "end"} =>
        /\ \A i, j \in DOMAIN reader.given : i < j => Follows(reader.given[j], reader.given[i])
        /\ \A p \in steady : \/ p \in ToSet(reader.given)
                             \/ reader.at = "page" /\ Follows(p, Last(reader.given))
=============================================================================
