--------------------------- MODULE IngestPipeline ---------------------------
(***************************************************************************)
(* From a discovered item to a searchable document: ingestion/pipeline.py. *)
(*                                                                         *)
(* A connector run (worker) ingests the items its connector discovers one  *)
(* after the other and then updates the catalog; an upload (API) ingests   *)
(* one item.  Runs of one connector may overlap.  Fetching, persisting and *)
(* "index and graph" are Prefect tasks that are retried as a whole; each   *)
(* database session of theirs commits on its own.  With the OpenSearch     *)
(* backend the search index is written before the chunk rows commit.       *)
(*                                                                         *)
(* Anything may raise at any time.  A commit that raises was rolled back   *)
(* or, at most LostAcks times, took effect.  All runs here are of the same *)
(* connector: duplicates are looked up per connector.                      *)
(***************************************************************************)
EXTENDS Naturals, Sequences, FiniteSets

CONSTANTS Runs,      \* connector runs and uploads
          Contents,  \* content hashes
          Plans,     \* what the runs may be given to do
          Retries,   \* _RETRYABLE["retries"]
          Lexical,   \* settings.lexical_backend
          LostAcks,  \* bound on commits that raise although they took effect
          Crashes,   \* bound on processes that die
          None

\* What becomes of an item once it is fetched: parse raises, the quality gate rejects it
\* (too short, unknown license) or lets it pass.
Verdict == {"malformed", "poor", "good"}
Item == [content: Contents, verdict: Verdict]

ASSUME PlanAssumption == Plans \subseteq [Runs -> [upload: BOOLEAN, items: Seq(Item)]]
\* An upload is one item; connector "upload" discovers nothing.
ASSUME UploadAssumption ==
  \A p \in Plans, u \in Runs : p[u].upload =>
    Len(p[u].items) = 1 /\ \A r \in Runs : p[r].upload \/ p[r].items = <<>>
ASSUME BoundAssumption == Retries \in Nat /\ LostAcks \in Nat /\ Crashes \in Nat
ASSUME LexicalAssumption == Lexical \in {"postgres", "opensearch"}

VARIABLES
  plan,      \* plan[r]: whether r is an upload, and the items it is about
  phase,     \* phase[r]: where run r is
  try,       \* try[r]: the attempt of the task r is in
  doc,       \* doc[r]: the document r is indexing
  results,   \* results[r]: what ingest_item returned for the items so far
  blobs,     \* contents whose bytes and provenance sidecar are in the blob store
  docs,      \* committed rows of documents
  chunks,    \* committed chunk rows, one element per index_document that committed
  hits,      \* the same chunks in the OpenSearch index
  graph,     \* chunks whose mentions and edges are committed
  rowCount,  \* sources.row_count
  seen,      \* seen[r]: the row_count r has loaded
  lost,      \* acknowledgements that may still get lost
  crashes    \* crashes left

runVars == <<plan, phase, try, doc, results>>
sourceVars == <<rowCount, seen>>
vars == <<runVars, blobs, docs, chunks, hits, graph, sourceVars, lost, crashes>>

Phase == {"new", "next", "fetching", "checking", "storing", "inserting", "indexing",
          "committing", "graphing", "recording", "done", "failed", "crashed"}
Ended == {"done", "failed", "crashed"}

\* A document row; a new id is drawn at every attempt to insert it.
Document == [run: Runs, item: Nat \ {0}, try: 1..(Retries + 1),
             status: {"active", "quarantined"}]
\* The chunk rows one attempt at index_document makes of a document; it makes at least one.
ChunkSet == [doc: Document, try: 1..(Retries + 1)]
Result == [status: {"ingested", "quarantined", "duplicate", "error"}, doc: Document \cup {None}]

ASSUME NoneAssumption == None \notin Document

TypeOK ==
  /\ plan \in Plans
  /\ phase \in [Runs -> Phase]
  /\ try \in [Runs -> 1..(Retries + 1)]
  /\ doc \in [Runs -> Document \cup {None}]
  /\ results \in [Runs -> Seq(Result)]
  /\ blobs \subseteq Contents
  /\ docs \subseteq Document
  /\ chunks \subseteq ChunkSet
  /\ hits \subseteq ChunkSet
  /\ graph \subseteq ChunkSet
  /\ rowCount \in Nat
  /\ seen \in [Runs -> Nat]
  /\ lost \in Nat
  /\ crashes \in Nat

\* The tables as the migration creates them, empty stores, and nothing begun.
Init ==
  /\ plan \in Plans
  /\ phase = [r \in Runs |-> "new"]
  /\ try = [r \in Runs |-> 1]
  /\ doc = [r \in Runs |-> None]
  /\ results = [r \in Runs |-> <<>>]
  /\ blobs = {}
  /\ docs = {}
  /\ chunks = {}
  /\ hits = {}
  /\ graph = {}
  /\ rowCount = 0
  /\ seen = [r \in Runs |-> 0]
  /\ lost = LostAcks
  /\ crashes = Crashes

\* The item r is at, and its content.
Current(r) == Len(results[r]) + 1
ItemOf(r) == plan[r].items[Current(r)]

\* The content hash of a document row.
ContentOf(d) == plan[d.run].items[d.item].content

\* r goes to phase p; what it enters there is at its first attempt.
Goto(r, p) == phase' = [phase EXCEPT ![r] = p] /\ try' = [try EXCEPT ![r] = 1]

\* ingest_item returns to the loop over the items.
Return(r, status, d) ==
  /\ results' = [results EXCEPT ![r] = Append(@, [status |-> status, doc |-> d])]
  /\ doc' = [doc EXCEPT ![r] = None]
  /\ Goto(r, "next")

\* An exception leaves the flow: run_job marks the job failed, an upload answers 500.
Abort(r) == Goto(r, "failed") /\ UNCHANGED <<doc, results>>

\* Variant: the attempts are not counted.
RetryForever(r, p, otherwise) == Goto(r, p) /\ UNCHANGED <<doc, results>>

\* Variant: one attempt too many.
RetryOnceMore(r, p, otherwise) ==
  IF try[r] <= Retries + 1
  THEN /\ phase' = [phase EXCEPT ![r] = p]
       /\ try' = [try EXCEPT ![r] = @ + 1]
       /\ UNCHANGED <<doc, results>>
  ELSE otherwise

\* A task of r raised: Prefect starts it again from its first phase p until the retries are
\* used up; then what is raised happens.
Retry(r, p, otherwise) ==
  IF try[r] <= Retries
  THEN /\ phase' = [phase EXCEPT ![r] = p]
       /\ try' = [try EXCEPT ![r] = @ + 1]
       /\ UNCHANGED <<doc, results>>
  ELSE otherwise

\* A commit that raises: S is as before, or new has landed in it although the
\* acknowledgement got lost.
MayLand(S, new) == IF lost > 0 THEN {S, S \cup new} ELSE {S}
LoseAck(landed) == lost' = IF landed THEN lost - 1 ELSE lost

-----------------------------------------------------------------------------
(* The run and its items. *)

\* register_source; the row exists already, the route that asked for the run created it.
Start(r) ==
  /\ phase[r] = "new"
  /\ Goto(r, "next")
  /\ UNCHANGED <<plan, doc, results, blobs, docs, chunks, hits, graph, sourceVars, lost, crashes>>

\* discover yields the next item and ingest_item starts.
NextItem(r) ==
  /\ phase[r] = "next"
  /\ Current(r) <= Len(plan[r].items)
  /\ Goto(r, "fetching")
  /\ UNCHANGED <<plan, doc, results, blobs, docs, chunks, hits, graph, sourceVars, lost, crashes>>

\* _fetch_task.
Fetch(r) ==
  /\ phase[r] = "fetching"
  /\ Goto(r, "checking")
  /\ UNCHANGED <<plan, doc, results, blobs, docs, chunks, hits, graph, sourceVars, lost, crashes>>

FetchRaises(r) ==
  /\ phase[r] = "fetching"
  /\ Retry(r, "fetching", Return(r, "error", None))
  /\ UNCHANGED <<plan, blobs, docs, chunks, hits, graph, sourceVars, lost, crashes>>

\* Variant: only active documents count.
ActiveTwins(r) == {d \in docs : ContentOf(d) = ItemOf(r).content /\ d.status = "active"}

\* The rows _find_duplicate_task can find, whatever their status.
Twins(r) == {d \in docs : ContentOf(d) = ItemOf(r).content}

FindDuplicate(r) ==
  /\ phase[r] = "checking"
  /\ \E d \in Twins(r) : Return(r, "duplicate", d)
  /\ UNCHANGED <<plan, blobs, docs, chunks, hits, graph, sourceVars, lost, crashes>>

\* _parse_task, after the lookup found nothing.
ParseRaises(r) ==
  /\ phase[r] = "checking"
  /\ Twins(r) = {}
  /\ ItemOf(r).verdict = "malformed"
  /\ Return(r, "error", None)
  /\ UNCHANGED <<plan, blobs, docs, chunks, hits, graph, sourceVars, lost, crashes>>

Parse(r) ==
  /\ phase[r] = "checking"
  /\ Twins(r) = {}
  /\ ItemOf(r).verdict # "malformed"
  /\ Goto(r, "storing")
  /\ UNCHANGED <<plan, doc, results, blobs, docs, chunks, hits, graph, sourceVars, lost, crashes>>

-----------------------------------------------------------------------------
(* _persist_task. *)

\* The bytes, then the sidecar, under a key made of the content hash.
PutBlob(r) ==
  /\ phase[r] = "storing"
  /\ blobs' = blobs \cup {ItemOf(r).content}
  /\ phase' = [phase EXCEPT ![r] = "inserting"]
  /\ UNCHANGED <<plan, try, doc, results, docs, chunks, hits, graph, sourceVars, lost, crashes>>

\* The row this attempt inserts; check_document sets its status.
NewDocument(r) == [run |-> r, item |-> Current(r), try |-> try[r],
                   status |-> IF ItemOf(r).verdict = "good" THEN "active" ELSE "quarantined"]

\* Variant: a quarantined document is indexed all the same.
IndexAnyway(r) ==
  /\ phase[r] = "inserting"
  /\ docs' = docs \cup {NewDocument(r)}
  /\ Goto(r, "indexing") /\ doc' = [doc EXCEPT ![r] = NewDocument(r)] /\ UNCHANGED results
  /\ UNCHANGED <<plan, blobs, chunks, hits, graph, sourceVars, lost, crashes>>

\* The insert commits; a quarantined document is done with.
InsertDocument(r) ==
  /\ phase[r] = "inserting"
  /\ docs' = docs \cup {NewDocument(r)}
  /\ IF NewDocument(r).status = "active"
     THEN Goto(r, "indexing") /\ doc' = [doc EXCEPT ![r] = NewDocument(r)] /\ UNCHANGED results
     ELSE Return(r, "quarantined", NewDocument(r))
  /\ UNCHANGED <<plan, blobs, chunks, hits, graph, sourceVars, lost, crashes>>

\* The blob store or the database raised; the next attempt starts over and would insert a
\* row with a new id.
PersistRaises(r) ==
  /\ phase[r] \in {"storing", "inserting"}
  /\ docs' \in IF phase[r] = "inserting" THEN MayLand(docs, {NewDocument(r)}) ELSE {docs}
  /\ LoseAck(docs' # docs)
  /\ Retry(r, "storing", Abort(r))
  /\ UNCHANGED <<plan, blobs, chunks, hits, graph, sourceVars, crashes>>

-----------------------------------------------------------------------------
(* _index_and_graph_task. *)

\* The chunks this attempt makes of the document.
NewChunks(r) == [doc |-> doc[r], try |-> try[r]]

\* What index_chunk sends to OpenSearch while the chunk rows are only flushed.
Sent(r) == IF Lexical = "opensearch" THEN {NewChunks(r)} ELSE {}

\* index_document.
FlushChunks(r) ==
  /\ phase[r] = "indexing"
  /\ hits' = hits \cup Sent(r)
  /\ phase' = [phase EXCEPT ![r] = "committing"]
  /\ UNCHANGED <<plan, try, doc, results, blobs, docs, chunks, graph, sourceVars, lost, crashes>>

\* The first session commits.
CommitChunks(r) ==
  /\ phase[r] = "committing"
  /\ chunks' = chunks \cup {NewChunks(r)}
  /\ phase' = [phase EXCEPT ![r] = "graphing"]
  /\ UNCHANGED <<plan, try, doc, results, blobs, docs, hits, graph, sourceVars, lost, crashes>>

\* Variant: the graph is only built from the chunks of this attempt.
OwnChunks(r) == {NewChunks(r)}

\* process_document_for_graph reads every chunk of the document, of earlier attempts too.
ChunksOf(r) == {c \in chunks : c.doc = doc[r]}

\* The second session commits and ingest_item is done.
ProcessGraph(r) ==
  /\ phase[r] = "graphing"
  /\ graph' = graph \cup ChunksOf(r)
  /\ Return(r, "ingested", doc[r])
  /\ UNCHANGED <<plan, blobs, docs, chunks, hits, sourceVars, lost, crashes>>

\* Variant: the last failure is logged and the item counts as ingested.
IndexFailureSwallowed(r) ==
  /\ phase[r] \in {"indexing", "committing", "graphing"}
  /\ Retry(r, "indexing", Return(r, "ingested", doc[r]))
  /\ UNCHANGED <<plan, blobs, docs, chunks, hits, graph, sourceVars, lost, crashes>>

\* The model, OpenSearch or the database raised in one of the two sessions; both run again.
IndexRaises(r) ==
  /\ phase[r] \in {"indexing", "committing", "graphing"}
  /\ hits' \in IF phase[r] = "indexing" THEN {hits, hits \cup Sent(r)} ELSE {hits}
  /\ chunks' \in IF phase[r] = "committing" THEN MayLand(chunks, {NewChunks(r)}) ELSE {chunks}
  /\ graph' \in IF phase[r] = "graphing" THEN MayLand(graph, ChunksOf(r)) ELSE {graph}
  /\ LoseAck(chunks' # chunks \/ graph' # graph)
  /\ Retry(r, "indexing", Abort(r))
  /\ UNCHANGED <<plan, blobs, docs, sourceVars, crashes>>

-----------------------------------------------------------------------------
(* The end of a run. *)

\* Variant: everything that was not an error counts.
AllResults(r) == Cardinality({i \in DOMAIN results[r] : results[r][i].status # "error"})

\* stats["ingested"].
Ingested(r) == Cardinality({i \in DOMAIN results[r] : results[r][i].status = "ingested"})

\* record_run loads the catalog row.
LoadSource(r) ==
  /\ phase[r] = "next"
  /\ ~plan[r].upload
  /\ Current(r) > Len(plan[r].items)
  /\ seen' = [seen EXCEPT ![r] = rowCount]
  /\ Goto(r, "recording")
  /\ UNCHANGED <<plan, doc, results, blobs, docs, chunks, hits, graph, rowCount, lost, crashes>>

\* What the UPDATE leaves in row_count; adding nothing does not write the column.
NewRowCount(r) == IF Ingested(r) = 0 THEN rowCount ELSE seen[r] + Ingested(r)

RecordRun(r) ==
  /\ phase[r] = "recording"
  /\ rowCount' = NewRowCount(r)
  /\ Goto(r, "done")
  /\ UNCHANGED <<plan, doc, results, blobs, docs, chunks, hits, graph, seen, lost, crashes>>

RecordRaises(r) ==
  /\ phase[r] = "recording"
  /\ \/ UNCHANGED <<rowCount, lost>>
     \/ lost > 0 /\ lost' = lost - 1 /\ rowCount' = NewRowCount(r)
  /\ Abort(r)
  /\ UNCHANGED <<plan, blobs, docs, chunks, hits, graph, seen, crashes>>

\* upload_document returns the result of its item.
AnswerUpload(r) ==
  /\ phase[r] = "next"
  /\ plan[r].upload
  /\ Current(r) > Len(plan[r].items)
  /\ Goto(r, "done")
  /\ UNCHANGED <<plan, doc, results, blobs, docs, chunks, hits, graph, sourceVars, lost, crashes>>

\* register_source, discover or the duplicate lookup raised; nothing retries those.
FlowRaises(r) ==
  /\ phase[r] \in {"new", "next", "checking"}
  /\ Abort(r)
  /\ UNCHANGED <<plan, blobs, docs, chunks, hits, graph, sourceVars, lost, crashes>>

\* The process dies; what it had sent to OpenSearch stays.
Crash(r) ==
  /\ phase[r] \notin Ended
  /\ crashes > 0
  /\ crashes' = crashes - 1
  /\ Goto(r, "crashed")
  /\ UNCHANGED <<plan, doc, results, blobs, docs, chunks, hits, graph, sourceVars, lost>>

-----------------------------------------------------------------------------
Step(r) == \/ Start(r) \/ NextItem(r) \/ Fetch(r) \/ FindDuplicate(r) \/ Parse(r)
           \/ PutBlob(r) \/ InsertDocument(r) \/ FlushChunks(r) \/ CommitChunks(r)
           \/ ProcessGraph(r) \/ LoadSource(r) \/ RecordRun(r) \/ AnswerUpload(r)

Raises(r) == \/ FetchRaises(r) \/ ParseRaises(r) \/ PersistRaises(r) \/ IndexRaises(r)
             \/ RecordRaises(r) \/ FlowRaises(r)

Next == \E r \in Runs : Step(r) \/ Raises(r) \/ Crash(r)

Spec == Init /\ [][Next]_vars

\* A run goes on, one way or the other: every call it makes has a timeout.
FairSpec == Spec /\ \A r \in Runs : WF_vars(Step(r) \/ Raises(r))

-----------------------------------------------------------------------------
(* Safety. *)

\* Only what passed the quality gate becomes retrievable (quality_gates.py: "quarantined, not
\* silently indexed"), and no chunk, search hit or graph fact precedes its document's row.
OnlyGoodIsRetrievable ==
  \A c \in chunks \cup hits \cup graph :
    c.doc \in docs /\ plan[c.doc.run].items[c.doc.item].verdict = "good"

\* The raw bytes and their provenance are there before any row points at them.
BlobPrecedesDocument == \A d \in docs : ContentOf(d) \in blobs

IndexedAs(d) == {c \in chunks : c.doc = d}

\* A document is complete: chunked, in the index that is searched, and all of it, what
\* earlier attempts left too, in the graph.
Complete(d) == /\ d \in docs
               /\ IndexedAs(d) # {}
               /\ IndexedAs(d) \subseteq graph
               /\ Lexical = "opensearch" => IndexedAs(d) \subseteq hits

\* "ingested" is only ever said of a complete document, whatever was retried on the way.
IngestedIsComplete ==
  \A r \in Runs : \A i \in DOMAIN results[r] :
    results[r][i].status = "ingested" => Complete(results[r][i].doc)

\* As long as no acknowledgement got lost, an active document that cannot be found by search
\* is still being indexed or was left behind by a run that is known to have ended badly.
UnindexedIsAccountedFor ==
  lost = LostAcks =>
    \A d \in docs : d.status = "active" /\ IndexedAs(d) = {} =>
      doc[d.run] = d /\ phase[d.run] \in {"indexing", "committing", "failed", "crashed"}

\* No run stores the same content twice, not even when its persist task is retried, unless
\* an insert took effect that looked as if it had not.
NoRunStoresTwice ==
  lost = LostAcks =>
    \A d, e \in docs : d.run = e.run /\ ContentOf(d) = ContentOf(e) => d = e

\* The catalog never claims more rows than there are complete documents, although
\* overlapping runs write row_count from what they loaded earlier.
RowCountNotAhead == rowCount <= Cardinality({d \in docs : Complete(d)})

\* Document rows go through their life cycle: the pipeline implements DocumentLifecycle.
Id(d) == [run |-> d.run, item |-> d.item, try |-> d.try]
Ids == UNION {[run: {r}, item: DOMAIN p[r].items, try: 1..(Retries + 1)] :
                r \in Runs, p \in Plans}
Life == INSTANCE DocumentLifecycle WITH
  active <- {Id(d) : d \in {e \in docs : e.status = "active"}},
  quarantined <- {Id(d) : d \in {e \in docs : e.status = "quarantined"}},
  searchable <- {Id(c.doc) : c \in chunks},
  linked <- {Id(c.doc) : c \in {e \in chunks : IndexedAs(e.doc) \subseteq graph}}
LifecycleSpec == Life!Spec

\* Every run ends even if everything it calls keeps failing.
RunEnds == \A r \in Runs : <>(phase[r] \in Ended)

\* tests/integration/test_ingestion_pipeline_prefect.py: "Same content again -> the
\* duplicate-detection subflow, not a re-ingest".
OneDocumentPerContent == \A d, e \in docs : ContentOf(d) = ContentOf(e) => d = e
=============================================================================
