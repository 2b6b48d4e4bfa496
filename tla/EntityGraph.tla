---------------------------- MODULE EntityGraph ----------------------------
(***************************************************************************)
(* Entities, the mentions resolved to them and the edges between them:     *)
(* graph/pipeline.py, graph/entity_resolution/ and the mirror in Neo4j.    *)
(*                                                                         *)
(* Three kinds of transactions write the same tables: the graph step of a  *)
(* document, a reviewer's decision and the batch pass of the scheduler or  *)
(* of an admin.  Each statement reads what is committed and what its own   *)
(* session holds; a session never reloads an entity it has loaded.  Row    *)
(* locks only decide who waits, so writes take effect at the commit, where *)
(* foreign keys and updates of rows that are gone make it raise.           *)
(*                                                                         *)
(* All entities have one type (types share nothing), a document is one     *)
(* chunk with at most one relation, from its first mention to its last.    *)
(* The chunks a retry makes over again (IngestPipeline) say the same thing *)
(* and resolve to the same entities, so they are left out.                 *)
(***************************************************************************)
EXTENDS Naturals, Sequences, FiniteSets

CONSTANTS Docs,        \* documents whose chunks are committed
          Names,       \* what mentions and entities are called
          Text,        \* Text[t]: the names document t mentions
          Related,     \* documents with a relation of sufficient confidence
          Block,       \* Block[n]: block_key of n
          Score,       \* Score[n][m]: what score_pair makes of two names
          BatchScore,  \* BatchScore[n][m]: what Splink makes of them
          Reviewers,   \* sessions of POST /entity-review/{id}/decision
          Passes,      \* sessions of run_batch_resolution
          MinRecords,  \* MIN_RECORDS_FOR_BATCH
          Retries,     \* _RETRYABLE["retries"] of the task around the graph step
          MaxReviews,  \* bound on how often a pass queues the same pair
          Faults       \* bound on transactions that raise for no reason of their own

\* Scores by the thresholds they reach.
Low == 0
Review == 1  \* REVIEW_THRESHOLD
High == 2    \* HIGH_CONFIDENCE_THRESHOLD

Mergers == Reviewers \cup Passes
Writers == Docs \cup Mergers

ASSUME WriterAssumption == Docs \cap Mergers = {} /\ Reviewers \cap Passes = {}
ASSUME TextAssumption == Text \in [Docs -> Seq(Names) \ {<<>>}]
ASSUME ScoreAssumption ==
  /\ Score \in [Names -> [Names -> {Low, Review, High}]]
  /\ BatchScore \in [Names -> [Names -> {Low, Review, High}]]
ASSUME BoundAssumption ==
  MinRecords \in Nat /\ Retries \in Nat /\ MaxReviews \in Nat /\ Faults \in Nat

VARIABLES
  entities,  \* the committed entity rows: a function from their ids to their aliases
  target,    \* the committed mentions: a function to the entity each is resolved to; an
             \* entity that is gone stands for NULL
  edges,     \* the committed edge rows
  reviews,   \* the committed review rows: a function from their ids to their status
  nodes,     \* entities in Neo4j
  rels,      \* relations in Neo4j, with the endpoints they were made between
  phase,     \* phase[x]: where writer x is
  try,       \* try[t]: the attempt of document t's task
  txn,       \* txn[x]: what x's session holds
  left,      \* faults left
  approved,  \* history: the pairs of names somebody decided to merge
  overlaps   \* history: the pairs of writers whose transactions overlapped

rowVars == <<entities, target, edges, reviews>>
mirrorVars == <<nodes, rels>>
vars == <<rowVars, mirrorVars, phase, try, txn, left, approved, overlaps>>

\* New ids are drawn at every attempt; an entity is named after the mention it was made for.
Entity == [doc: Docs, pos: Nat \ {0}, try: 1..(Retries + 1)]
NameOf(e) == Text[e.doc][e.pos]
Mention == [doc: Docs, pos: Nat \ {0}]
EdgeId == [doc: Docs, try: 1..(Retries + 1)]
Edge == [id: EdgeId, from: Entity, to: Entity, evidence: SUBSET Docs]
ReviewId == [a: Entity, b: Entity, by: Docs \cup Passes, n: Nat \ {0}]
Decision == {"merged", "rejected"}
Rel == [id: EdgeId, from: Entity, to: Entity]

\* What a session holds: the entities it has loaded or made, those it has changed, what each
\* mention resolved to, the edge to write, reviews to insert, which entities are folded into
\* which, the references to those it has repointed, the pairs of a pass still to be looked
\* at, the decision to record.
Blank == [session |-> <<>>, dirty |-> {}, chosen |-> <<>>, draft |-> {}, queued |-> {},
          into |-> <<>>, seen |-> {}, pairs |-> {}, decided |-> {}]

\* A function from some of the elements of S to T.
PartialFunction(f, S, T) == DOMAIN f \subseteq S /\ \A s \in DOMAIN f : f[s] \in T

SessionOK(x) ==
  /\ PartialFunction(txn[x].session, Entity, SUBSET Names)
  /\ txn[x].dirty \subseteq Entity
  /\ txn[x].chosen \in Seq(Entity)
  /\ txn[x].draft \subseteq Edge
  /\ txn[x].queued \subseteq ReviewId
  /\ PartialFunction(txn[x].into, Entity, Entity)
  /\ txn[x].seen \subseteq [ref: Mention \cup EdgeId, of: Entity]
  /\ txn[x].pairs \subseteq SUBSET Entity
  /\ txn[x].decided \subseteq [review: ReviewId, as: Decision]

TypeOK ==
  /\ PartialFunction(entities, Entity, SUBSET Names)
  /\ PartialFunction(target, Mention, Entity)
  /\ edges \subseteq Edge
  /\ PartialFunction(reviews, ReviewId, Decision \cup {"pending"})
  /\ nodes \subseteq Entity
  /\ rels \subseteq Rel
  /\ phase \in [Writers -> {"idle", "resolving", "promoting", "committing", "merging",
                            "done", "failed"}]
  /\ try \in [Docs -> 1..(Retries + 1)]
  /\ DOMAIN txn = Writers
  /\ \A x \in Writers : SessionOK(x)
  /\ left \in Nat
  /\ approved \subseteq SUBSET Names
  /\ overlaps \subseteq SUBSET Writers

\* The tables as the migration creates them, and an empty graph database.
Init ==
  /\ entities = <<>>
  /\ target = <<>>
  /\ edges = {}
  /\ reviews = <<>>
  /\ nodes = {}
  /\ rels = {}
  /\ phase = [x \in Writers |-> "idle"]
  /\ try = [t \in Docs |-> 1]
  /\ txn = [x \in Writers |-> Blank]
  /\ left = Faults
  /\ approved = {}
  /\ overlaps = {}

-----------------------------------------------------------------------------
(* Sessions. *)

Open(x) == phase[x] \in {"resolving", "promoting", "committing", "merging"}

Begin(x, p) ==
  /\ phase[x] = "idle"
  /\ phase' = [phase EXCEPT ![x] = p]
  /\ overlaps' = overlaps \cup {{x, y} : y \in {z \in Writers : Open(z)}}

\* x's transaction is over and its session closed.
End(x, p) == phase' = [phase EXCEPT ![x] = p] /\ txn' = [txn EXCEPT ![x] = Blank]

\* The entities x has made itself in this attempt.
Created(x) == {e \in DOMAIN txn[x].session : e.doc = x /\ e.try = try[x]}

\* x's session after it has selected all entities: rows it had loaded before stay as they are.
Loaded(x) == [e \in DOMAIN txn[x].session \cup DOMAIN entities |->
                IF e \in DOMAIN txn[x].session THEN txn[x].session[e] ELSE entities[e]]

\* A transaction raises: because its commit cannot succeed, or for another reason.
Raise(possible) == IF possible THEN left > 0 /\ left' = left - 1 ELSE UNCHANGED left

-----------------------------------------------------------------------------
(* process_document_for_graph. *)

StartDocument(t) ==
  /\ Begin(t, "resolving")
  /\ UNCHANGED <<rowVars, mirrorVars, try, txn, left, approved>>

\* The mention to resolve next.
Mentioned(t) == Text[t][Len(txn[t].chosen) + 1]

\* Entities in the mention's block, or with the mention among their aliases.
Candidates(t) == {e \in DOMAIN entities \cup Created(t) :
                    Block[NameOf(e)] = Block[Mentioned(t)] \/ Mentioned(t) \in Loaded(t)[e]}

\* Variant: the threshold for a review is enough.
MatchesReview(t, level) ==
  {e \in Candidates(t) : level = High /\ Score[Mentioned(t)][NameOf(e)] \in {Review, High}}

\* The candidates one of which scores best, if the best one reaches level and no other one.
Matches(t, level) ==
  {e \in Candidates(t) : /\ Score[Mentioned(t)][NameOf(e)] = level
                         /\ \A f \in Candidates(t) : Score[Mentioned(t)][NameOf(f)] <= level}

NextMention(t) ==
  phase' = [phase EXCEPT ![t] = IF Len(txn[t].chosen) + 1 = Len(Text[t]) THEN "promoting"
                                ELSE "resolving"]

\* _resolve_mention finds an entity that is certain enough, and may add an alias to it.
ResolveMention(t) ==
  /\ phase[t] = "resolving"
  /\ \E e \in Matches(t, High) :
       LET known == Mentioned(t) = NameOf(e) \/ Mentioned(t) \in Loaded(t)[e]
       IN txn' = [txn EXCEPT ![t].chosen = Append(@, e),
                             ![t].session = [Loaded(t) EXCEPT ![e] = IF known THEN @
                                                                     ELSE @ \cup {Mentioned(t)}],
                             ![t].dirty = IF known THEN @ ELSE @ \cup {e}]
  /\ NextMention(t)
  /\ UNCHANGED <<rowVars, mirrorVars, try, left, approved, overlaps>>

NewEntity(t) == [doc |-> t, pos |-> Len(txn[t].chosen) + 1, try |-> try[t]]

\* Variant: an entity that is queued for review is not mirrored.
SyncedIfCertain(t) == IF Matches(t, Review) = {} THEN {NewEntity(t)} ELSE {}

\* What sync_entity upserts: a node that is there already is not made again.
Synced(t) == {NewEntity(t)}

\* _resolve_mention makes a new entity, mirrors it before anything is committed, and queues a
\* review if the best candidate is good enough for that.
CreateEntity(t) ==
  /\ phase[t] = "resolving"
  /\ Matches(t, High) = {}
  /\ nodes' = nodes \cup Synced(t)
  /\ \E q \in IF Matches(t, Review) = {} THEN {{}}
              ELSE {{[a |-> NewEntity(t), b |-> e, by |-> t, n |-> 1]} : e \in Matches(t, Review)} :
       txn' = [txn EXCEPT ![t].chosen = Append(@, NewEntity(t)),
                          ![t].session = [e \in DOMAIN Loaded(t) \cup {NewEntity(t)} |->
                                            IF e = NewEntity(t) THEN {} ELSE Loaded(t)[e]],
                          ![t].queued = @ \cup q]
  /\ NextMention(t)
  /\ UNCHANGED <<rowVars, rels, try, left, approved, overlaps>>

From(t) == txn[t].chosen[1]
To(t) == txn[t].chosen[Len(Text[t])]

\* The edges that already say what t says.
Existing(t) == {x \in edges : x.from = From(t) /\ x.to = To(t)}

NewEdge(t) == [id |-> [doc |-> t, try |-> try[t]], from |-> From(t), to |-> To(t),
               evidence |-> {t}]

\* _promote_edge_candidates: one more piece of evidence for an edge, or a new edge; mirrored
\* before anything is committed.  The MATCH of upsert_edge finds nothing if an endpoint is not
\* in Neo4j.
Promote(t) ==
  /\ phase[t] = "promoting"
  /\ IF t \notin Related \/ From(t) = To(t)
     THEN UNCHANGED <<txn, rels>>
     ELSE \E x \in IF Existing(t) = {} THEN {NewEdge(t)} ELSE Existing(t) :
            /\ txn' = [txn EXCEPT ![t].draft = {[x EXCEPT !.evidence = @ \cup {t}]}]
            /\ rels' = IF {x.from, x.to} \subseteq nodes
                       THEN rels \cup {[id |-> x.id, from |-> x.from, to |-> x.to]}
                       ELSE rels
  /\ phase' = [phase EXCEPT ![t] = "committing"]
  /\ UNCHANGED <<rowVars, nodes, try, left, approved, overlaps>>

IsNewEdge(t, x) == x.id = [doc |-> t, try |-> try[t]]

\* Everything t refers to, or has changed, is there.
CanCommit(t) ==
  LET present == DOMAIN entities \cup Created(t) IN
  /\ {txn[t].chosen[i] : i \in DOMAIN txn[t].chosen} \cup txn[t].dirty \subseteq present
  /\ \A r \in txn[t].queued : r.b \in present
  /\ \A x \in txn[t].draft : IsNewEdge(t, x) \/ \E y \in edges : y.id = x.id

\* Only the column that was changed is written.
Updated(t, x) == IF \E y \in txn[t].draft : y.id = x.id
                 THEN [x EXCEPT !.evidence = UNION {y.evidence : y \in txn[t].draft}]
                 ELSE x

CommitDocument(t) ==
  /\ phase[t] = "committing"
  /\ CanCommit(t)
  /\ entities' = [e \in DOMAIN entities \cup Created(t) |->
                    IF e \in txn[t].dirty \cup Created(t) THEN txn[t].session[e] ELSE entities[e]]
  /\ target' = [m \in DOMAIN target \cup {[doc |-> t, pos |-> i] : i \in DOMAIN Text[t]} |->
                  IF m.doc = t THEN txn[t].chosen[m.pos] ELSE target[m]]
  /\ edges' = {Updated(t, x) : x \in edges} \cup {x \in txn[t].draft : IsNewEdge(t, x)}
  /\ reviews' = [r \in DOMAIN reviews \cup txn[t].queued |->
                   IF r \in txn[t].queued THEN "pending" ELSE reviews[r]]
  /\ End(t, "done")
  /\ UNCHANGED <<mirrorVars, try, left, approved, overlaps>>

\* Variant: one attempt more than there are.
RetriesOnceMore(t) == try[t] <= Retries + 1

MayRetry(t) == try[t] <= Retries

\* A model, Neo4j or the database raised; the task starts over until its retries are used up.
\* Neo4j keeps what it was sent.
DocumentRaises(t) ==
  /\ Open(t)
  /\ Raise(CanCommit(t))
  /\ IF MayRetry(t)
     THEN try' = [try EXCEPT ![t] = @ + 1] /\ End(t, "idle")
     ELSE UNCHANGED try /\ End(t, "failed")
  /\ UNCHANGED <<rowVars, mirrorVars, approved, overlaps>>

-----------------------------------------------------------------------------
(* merge_entities and its two callers. *)

\* Variant: only outgoing edges are repointed.
OutgoingRefs(d) == {x.id : x \in {y \in edges : y.from = d}}
                   \cup {m \in DOMAIN target : target[m] = d}

\* The edges and mentions the UPDATEs of merge_entities find.
RefsTo(d) == {x.id : x \in {y \in edges : d \in {y.from, y.to}}}
             \cup {m \in DOMAIN target : target[m] = d}

\* A session T after merge_entities(keep, drop): aliases united, what refers to drop repointed.
\* Who was folded into drop before goes along.
Folded(T, keep, drop) ==
  [T EXCEPT !.session = [T.session EXCEPT ![keep] = @ \cup {NameOf(drop)} \cup T.session[drop]],
            !.dirty = @ \cup {keep},
            !.into = [d \in DOMAIN T.into \cup {drop} |->
                        IF d = drop \/ T.into[d] = drop THEN keep ELSE T.into[d]],
            !.seen = @ \cup {[ref |-> r, of |-> drop] : r \in RefsTo(drop)}]

\* decide: any review can be decided, a decided one too.  An entity that is gone is not merged.
Decide(v) ==
  /\ Begin(v, "merging")
  /\ \E r \in DOMAIN reviews, d \in Decision :
       LET T == [Blank EXCEPT !.session = entities, !.decided = {[review |-> r, as |-> d]}] IN
       txn' = [txn EXCEPT ![v] = IF d = "merged" /\ {r.a, r.b} \subseteq DOMAIN entities
                                 THEN Folded(T, r.a, r.b) ELSE T]
  /\ UNCHANGED <<rowVars, mirrorVars, try, left, approved>>

Level(pair) == CHOOSE l \in {Low, Review, High} :
                 \E a, b \in pair : a # b /\ BatchScore[NameOf(a)][NameOf(b)] = l

\* Variant: one record more.
EnoughMore == Cardinality(DOMAIN entities) > MinRecords

EnoughRecords == Cardinality(DOMAIN entities) >= MinRecords

\* What _predict_pairs returns for the entities.
Predicted == {pair \in {{a, b} : a, b \in DOMAIN entities} :
                Cardinality(pair) = 2 /\ Level(pair) >= Review}

\* run_batch_resolution loads the entities and predicts; with nothing predicted, or Splink
\* failing, nothing happens.
StartPass(p) ==
  /\ EnoughRecords
  /\ Predicted # {}
  /\ Begin(p, "merging")
  /\ txn' = [txn EXCEPT ![p].session = entities, ![p].pairs = Predicted]
  /\ UNCHANGED <<rowVars, mirrorVars, try, left, approved>>

\* The pairs that are merged without asking anybody.
MergesAlone(pair) == Level(pair) = High

\* The review a pass queues for a pair.
QueuedBy(p, a, b) ==
  LET n == 1 + Cardinality({r \in DOMAIN reviews : r.a = a /\ r.b = b /\ r.by = p})
  IN IF n <= MaxReviews THEN {[a |-> a, b |-> b, by |-> p, n |-> n]} ELSE {}

\* The best pair left; one of which a half is gone already is skipped.
MergeNext(p) ==
  /\ phase[p] = "merging"
  /\ \E a, b \in DOMAIN txn[p].session :
       LET T == [txn[p] EXCEPT !.pairs = @ \ {{a, b}}] IN
       /\ {a, b} \in txn[p].pairs
       /\ \A pair \in txn[p].pairs : Level(pair) <= Level({a, b})
       /\ txn' = [txn EXCEPT ![p] =
                    IF {a, b} \cap DOMAIN T.into # {} THEN T
                    ELSE IF MergesAlone({a, b}) THEN Folded(T, a, b)
                    ELSE [T EXCEPT !.queued = @ \cup QueuedBy(p, a, b)]]
  /\ UNCHANGED <<rowVars, mirrorVars, phase, try, left, approved, overlaps>>

\* The rows x has changed, and those the reviews it inserts refer to, are there.  (A review
\* survives the deletion of its entities: ON DELETE SET NULL.)
CanMerge(x) ==
  /\ txn[x].dirty \ DOMAIN txn[x].into \subseteq DOMAIN entities
  /\ \A r \in txn[x].queued : {r.a, r.b} \subseteq DOMAIN entities

\* Where a reference ref to entity d points once x has committed.
Repointed(x, ref, d) == IF [ref |-> ref, of |-> d] \in txn[x].seen THEN txn[x].into[d] ELSE d

\* Edges to an entity x deletes that were not repointed go with it (ON DELETE CASCADE).
Kept(x) == {y \in edges : \A d \in {y.from, y.to} \cap DOMAIN txn[x].into :
                            [ref |-> y.id, of |-> d] \in txn[x].seen}

CommitMerge(x) ==
  /\ phase[x] = "merging"
  /\ txn[x].pairs = {}
  /\ CanMerge(x)
  /\ entities' = [e \in DOMAIN entities \ DOMAIN txn[x].into |->
                    IF e \in txn[x].dirty THEN txn[x].session[e] ELSE entities[e]]
  /\ target' = [m \in DOMAIN target |-> Repointed(x, m, target[m])]
  /\ edges' = {[y EXCEPT !.from = Repointed(x, y.id, @), !.to = Repointed(x, y.id, @)] : y \in Kept(x)}
  /\ reviews' = [r \in DOMAIN reviews \cup txn[x].queued |->
                   IF \E c \in txn[x].decided : c.review = r
                   THEN (CHOOSE c \in txn[x].decided : c.review = r).as
                   ELSE IF r \in txn[x].queued THEN "pending" ELSE reviews[r]]
  /\ approved' = approved \cup {{NameOf(c.review.a), NameOf(c.review.b)} :
                                  c \in {d \in txn[x].decided : d.as = "merged"}}
  /\ End(x, "idle")
  /\ UNCHANGED <<mirrorVars, try, left, overlaps>>

\* The decision answers 500, the pass waits for its next turn.
MergeRaises(x) ==
  /\ Open(x)
  /\ Raise(CanMerge(x))
  /\ End(x, "idle")
  /\ UNCHANGED <<rowVars, mirrorVars, try, approved, overlaps>>

-----------------------------------------------------------------------------
DocumentStep(t) == \/ StartDocument(t) \/ ResolveMention(t) \/ CreateEntity(t) \/ Promote(t)
                   \/ CommitDocument(t) \/ DocumentRaises(t)

MergeStep(x) == CommitMerge(x) \/ MergeRaises(x)

PassStep(p) == StartPass(p) \/ MergeNext(p) \/ MergeStep(p)

Next == \/ \E t \in Docs : DocumentStep(t)
        \/ \E v \in Reviewers : Decide(v) \/ MergeStep(v)
        \/ \E p \in Passes : PassStep(p)

Spec == Init /\ [][Next]_vars

\* Documents are worked on, requests come to an end and the scheduler keeps starting passes.
FairSpec == /\ Spec
            /\ \A t \in Docs : WF_vars(DocumentStep(t))
            /\ \A v \in Reviewers : WF_vars(MergeStep(v))
            /\ \A p \in Passes : WF_vars(PassStep(p))

-----------------------------------------------------------------------------
(* Safety. *)

\* Two names count as the same thing if a score is certain of it or somebody said so.
SameThing(n, m) == \/ n = m
                   \/ Score[n][m] = High \/ BatchScore[n][m] = High \/ BatchScore[m][n] = High
                   \/ {n, m} \in approved

\* n and m belong together by such pairs: every set closed under them that has n has m.
BelongTogether(n, m) ==
  n = m \/ \A S \in SUBSET Names :
    n \in S /\ (\A u \in S, v \in Names : SameThing(u, v) \/ SameThing(v, u) => v \in S) => m \in S

\* Nothing is merged on a guess (review.py: "Wrong merges are worse than misses"): a mention
\* is only ever resolved to an entity whose name belongs together with it.
MergesAreDeliberate ==
  \A m \in DOMAIN target : BelongTogether(Text[m.doc][m.pos], NameOf(target[m]))

\* Every committed entity and edge is in Neo4j, where graph lookups read, whatever is retried.
MirrorCovers == /\ DOMAIN entities \subseteq nodes
                /\ \A x \in edges : \E r \in rels : r.id = x.id

\* t's transaction overlapped with no other, and no two merges overlapped with each other.
Settled(t) == /\ phase[t] = "done"
              /\ \A x \in Writers : {t, x} \notin overlaps
              /\ \A x, y \in Mergers : {x, y} \notin overlaps

\* The relation of t is an edge that names t as evidence.
HasEvidence(t) ==
  LET f == target[[doc |-> t, pos |-> 1]]
      g == target[[doc |-> t, pos |-> Len(Text[t])]]
  IN t \in Related /\ f # g => \E x \in edges : x.from = f /\ x.to = g /\ t \in x.evidence

\* What a document has contributed survives whatever happens later, merges included: its
\* mentions stay resolved and its relation stays an edge with this document as evidence.
SettledFactsSurvive ==
  \A t \in Docs : Settled(t) =>
    /\ \A i \in DOMAIN Text[t] : target[[doc |-> t, pos |-> i]] \in DOMAIN entities
    /\ HasEvidence(t)

\* models/edges.py: typed relations, "each provenance-linked to the chunks that support it".
EvidenceKept == \A t \in Docs : phase[t] = "done" => HasEvidence(t)

-----------------------------------------------------------------------------
(* Liveness. *)

\* Once documents stop coming, no two entities the batch pass is certain about are left,
\* unless there are too few records for it to look at.
DuplicatesAreMerged ==
  <>[](Cardinality(DOMAIN entities) >= MinRecords =>
         \A a, b \in DOMAIN entities :
           a # b => BatchScore[NameOf(a)][NameOf(b)] # High)
=============================================================================
