------------------------ MODULE IngestPipelineProofs ------------------------
(***************************************************************************)
(* Safety of the ingestion pipeline for any runs, contents, retries and    *)
(* faults, and its refinement of DocumentLifecycle.                        *)
(***************************************************************************)
EXTENDS IngestPipeline, FiniteSetTheorems, TLAPS

Looking == {"new", "next", "fetching", "checking"}
Persisting == {"storing", "inserting"}
Indexing == {"indexing", "committing", "graphing"}

\* The stores agree with each other.
StoreInv ==
  /\ \A d \in docs : /\ d.item \in DOMAIN plan[d.run].items
                     /\ d.status = "active" <=> plan[d.run].items[d.item].verdict = "good"
                     /\ ContentOf(d) \in blobs
  /\ \A c \in chunks \cup hits : c.doc \in docs /\ c.doc.status = "active"
  /\ graph \subseteq chunks
  /\ Lexical = "opensearch" => chunks \subseteq hits
  /\ lost <= LostAcks

\* What a run has in hand belongs to its current item.
HandInv(r) ==
  /\ phase[r] \in Persisting \cup Indexing \cup {"fetching", "checking"}
       => Current(r) \in DOMAIN plan[r].items
  /\ phase[r] = "inserting" => ItemOf(r).content \in blobs
  /\ phase[r] \in Indexing => /\ doc[r] \in docs
                              /\ doc[r].status = "active"
                              /\ doc[r].run = r
                              /\ doc[r].item = Current(r)
                              /\ \A c \in chunks : c.doc = doc[r] => c.try <= try[r]
  /\ phase[r] \in {"indexing", "committing"} => NewChunks(r) \notin chunks
  /\ phase[r] = "committing" => Sent(r) \subseteq hits
  /\ phase[r] = "graphing" => NewChunks(r) \in chunks

\* The rows a run has inserted belong to items it has come to.
RowInv(r) ==
  \A d \in docs : d.run = r =>
    /\ d.item <= Current(r)
    /\ phase[r] \in Looking => d.item < Current(r)
    /\ phase[r] \in Persisting => d.item < Current(r) \/ d.try < try[r]

\* What it reported as ingested is complete, and it is past that item.
ReportInv(r) ==
  \A i \in DOMAIN results[r] : results[r][i].status = "ingested" =>
    /\ results[r][i].doc.run = r
    /\ results[r][i].doc.item = i
    /\ Complete(results[r][i].doc)

\* As long as no acknowledgement got lost.
CleanInv(r) ==
  lost = LostAcks =>
    /\ phase[r] \in Persisting => \A d \in docs : d.run = r => ContentOf(d) # ItemOf(r).content
    /\ \A d \in docs : d.run = r /\ d.status = "active" /\ IndexedAs(d) = {} =>
         doc[r] = d /\ phase[r] \in {"indexing", "committing", "failed", "crashed"}
    /\ \A d, e \in docs : d.run = r /\ e.run = r /\ ContentOf(d) = ContentOf(e) => d = e

RunInv(r) == HandInv(r) /\ RowInv(r) /\ ReportInv(r) /\ CleanInv(r)

IInv == TypeOK /\ StoreInv /\ \A r \in Runs : RunInv(r)

-----------------------------------------------------------------------------
(* Facts about the operators the actions are built from. *)

\* The document r is about to insert.
LEMMA NewDocumentType ==
  ASSUME TypeOK, NEW r \in Runs
  PROVE  NewDocument(r) \in Document
  BY DEF TypeOK, NewDocument, Document, Current

\* What a run is about.
LEMMA ItemsType ==
  ASSUME TypeOK, NEW r \in Runs
  PROVE  /\ plan[r].items \in Seq(Item)
         /\ \A i \in DOMAIN plan[r].items : plan[r].items[i] \in Item
<1>1. plan[r] \in [upload: BOOLEAN, items: Seq(Item)]
  BY PlanAssumption DEF TypeOK
<1>2. plan[r].items \in Seq(Item)
  BY <1>1
<1>3. QED
  BY <1>2

\* The chunks r is about to insert.
LEMMA NewChunksType ==
  ASSUME TypeOK, NEW r \in Runs, doc[r] \in Document
  PROVE  NewChunks(r) \in ChunkSet
  BY DEF TypeOK, NewChunks, ChunkSet

\* The number of items reported as ingested is a natural.
LEMMA IngestedType ==
  ASSUME TypeOK, NEW r \in Runs
  PROVE  Ingested(r) \in Nat
<1>1. IsFiniteSet(1..Len(results[r]))
  BY FS_Interval DEF TypeOK
<1>2. {i \in DOMAIN results[r] : results[r][i].status = "ingested"} \subseteq 1..Len(results[r])
  BY DEF TypeOK
<1>3. QED
  BY <1>1, <1>2, FS_Subset, FS_CardinalityType DEF Ingested

\* What Goto, Return, Abort and Retry do keeps the run's variables well typed.
RunTypes == /\ phase \in [Runs -> Phase]
            /\ try \in [Runs -> 1..(Retries + 1)]
            /\ doc \in [Runs -> Document \cup {None}]
            /\ results \in [Runs -> Seq(Result)]

\* Goto is type correct.
LEMMA GotoType ==
  ASSUME TypeOK, NEW r \in Runs, NEW p \in Phase, Goto(r, p)
  PROVE  phase' \in [Runs -> Phase] /\ try' \in [Runs -> 1..(Retries + 1)]
  BY BoundAssumption DEF TypeOK, Goto

\* Abort is type correct.
LEMMA AbortType ==
  ASSUME TypeOK, NEW r \in Runs, Abort(r)
  PROVE  RunTypes'
  BY GotoType DEF Abort, TypeOK, Phase, RunTypes

\* Return is type correct.
LEMMA ReturnType ==
  ASSUME TypeOK, NEW r \in Runs, NEW d \in Document \cup {None},
         NEW status \in {"ingested", "quarantined", "duplicate", "error"}, Return(r, status, d)
  PROVE  RunTypes'
<1>1. [status |-> status, doc |-> d] \in Result
  BY DEF Result
<1>2. results' \in [Runs -> Seq(Result)]
  BY <1>1 DEF Return, TypeOK
<1>3. QED
  BY <1>2, GotoType DEF Return, TypeOK, Phase, RunTypes

\* Retry is type correct.
LEMMA RetryType ==
  ASSUME TypeOK, NEW r \in Runs, NEW p \in Phase, try[r] <= Retries,
         phase' = [phase EXCEPT ![r] = p], try' = [try EXCEPT ![r] = @ + 1],
         UNCHANGED <<doc, results>>
  PROVE  RunTypes'
<1>1. try[r] + 1 \in 1..(Retries + 1)
  BY BoundAssumption DEF TypeOK
<1>2. QED
  BY <1>1 DEF TypeOK, RunTypes

-----------------------------------------------------------------------------
(* Type correctness. *)

\* TypeOK holds at first.
LEMMA TypeInit == Init => TypeOK
  BY BoundAssumption DEF Init, TypeOK, Phase

\* Runs that are told to retry or else do something that keeps the types.
LEMMA RetryOrAbortType ==
  ASSUME TypeOK, NEW r \in Runs, NEW p \in Phase, Retry(r, p, Abort(r))
  PROVE  RunTypes'
<1>1. CASE try[r] <= Retries
  BY <1>1, RetryType DEF Retry
<1>2. CASE ~(try[r] <= Retries)
  BY <1>2, AbortType DEF Retry
<1>3. QED
  BY <1>1, <1>2

\* Every step is type correct.
LEMMA TypeStep ==
  ASSUME IInv, [Next]_vars
  PROVE  TypeOK'
<1> USE DEF Phase
<1>0. TypeOK /\ \A r \in Runs : HandInv(r)
  BY DEF IInv, RunInv
<1>1. ASSUME NEW r \in Runs, Start(r) \/ NextItem(r) \/ Fetch(r) \/ Parse(r)
                             \/ AnswerUpload(r) \/ FlowRaises(r) \/ Crash(r)
      PROVE  TypeOK'
  <2>1. RunTypes'
    BY <1>0, <1>1, GotoType DEF Start, NextItem, Fetch, Parse, AnswerUpload, FlowRaises, Crash, Abort,
                          RunTypes, TypeOK
  <2>2. QED
    BY <1>0, <1>1, <2>1 DEF Start, NextItem, Fetch, Parse, AnswerUpload, FlowRaises, Crash, RunTypes,
                      TypeOK, sourceVars
<1>2. ASSUME NEW r \in Runs, FetchRaises(r) PROVE TypeOK'
  <2>1. RunTypes'
    BY <1>0, <1>2, RetryType, ReturnType DEF FetchRaises, Retry
  <2>2. QED
    BY <1>0, <1>2, <2>1 DEF FetchRaises, RunTypes, TypeOK, sourceVars
<1>3. ASSUME NEW r \in Runs, FindDuplicate(r) PROVE TypeOK'
  <2>1. RunTypes'
    BY <1>0, <1>3, ReturnType DEF FindDuplicate, Twins, TypeOK
  <2>2. QED
    BY <1>0, <1>3, <2>1 DEF FindDuplicate, RunTypes, TypeOK, sourceVars
<1>4. ASSUME NEW r \in Runs, ParseRaises(r) PROVE TypeOK'
  <2>1. RunTypes'
    BY <1>0, <1>4, ReturnType DEF ParseRaises
  <2>2. QED
    BY <1>0, <1>4, <2>1 DEF ParseRaises, RunTypes, TypeOK, sourceVars
<1>5. ASSUME NEW r \in Runs, PutBlob(r) PROVE TypeOK'
  <2>1. ItemOf(r).content \in Contents
    BY <1>0, <1>5, ItemsType DEF HandInv, PutBlob, Persisting, ItemOf, Item
  <2>2. QED
    BY <1>0, <1>5, <2>1 DEF PutBlob, TypeOK, sourceVars
<1>6. ASSUME NEW r \in Runs, InsertDocument(r) PROVE TypeOK'
  <2>1. NewDocument(r) \in Document
    BY <1>0, NewDocumentType
  <2>2. RunTypes'
    <3>1. CASE NewDocument(r).status = "active"
      BY <1>0, <1>6, <2>1, <3>1, GotoType DEF InsertDocument, RunTypes, TypeOK
    <3>2. CASE NewDocument(r).status # "active"
      BY <1>0, <1>6, <2>1, <3>2, ReturnType DEF InsertDocument
    <3>3. QED
      BY <3>1, <3>2
  <2>3. QED
    BY <1>0, <1>6, <2>1, <2>2 DEF InsertDocument, RunTypes, TypeOK, sourceVars
<1>7. ASSUME NEW r \in Runs, PersistRaises(r) PROVE TypeOK'
  <2>1. docs' \subseteq Document
    BY <1>0, <1>7, NewDocumentType DEF PersistRaises, MayLand, TypeOK
  <2>2. lost' \in Nat
    BY <1>0, <1>7 DEF PersistRaises, MayLand, LoseAck, TypeOK
  <2>3. RunTypes'
    BY <1>0, <1>7, RetryOrAbortType DEF PersistRaises
  <2>4. QED
    BY <1>0, <1>7, <2>1, <2>2, <2>3 DEF PersistRaises, RunTypes, TypeOK, sourceVars
<1>8. ASSUME NEW r \in Runs, phase[r] \in Indexing PROVE NewChunks(r) \in ChunkSet
  BY <1>0, <1>8, NewChunksType DEF HandInv, TypeOK
<1>9. ASSUME NEW r \in Runs, FlushChunks(r) PROVE TypeOK'
  BY <1>0, <1>8, <1>9 DEF FlushChunks, Sent, Indexing, TypeOK, sourceVars
<1>10. ASSUME NEW r \in Runs, CommitChunks(r) PROVE TypeOK'
  BY <1>0, <1>8, <1>10 DEF CommitChunks, Indexing, TypeOK, sourceVars
<1>11. ASSUME NEW r \in Runs, ProcessGraph(r) PROVE TypeOK'
  <2>1. RunTypes'
    BY <1>0, <1>11, ReturnType DEF ProcessGraph, TypeOK
  <2>2. QED
    BY <1>0, <1>11, <2>1 DEF ProcessGraph, ChunksOf, RunTypes, TypeOK, sourceVars
<1>12. ASSUME NEW r \in Runs, IndexRaises(r) PROVE TypeOK'
  <2>1. hits' \subseteq ChunkSet /\ chunks' \subseteq ChunkSet
    BY <1>0, <1>8, <1>12 DEF IndexRaises, MayLand, Sent, Indexing, TypeOK
  <2>2. graph' \subseteq ChunkSet
    BY <1>0, <1>12 DEF IndexRaises, MayLand, ChunksOf, TypeOK
  <2>3. lost' \in Nat
    BY <1>0, <1>12 DEF IndexRaises, MayLand, LoseAck, TypeOK
  <2>4. RunTypes'
    BY <1>0, <1>12, RetryOrAbortType DEF IndexRaises
  <2>5. QED
    BY <1>0, <1>12, <2>1, <2>2, <2>3, <2>4 DEF IndexRaises, RunTypes, TypeOK, sourceVars
<1>13. ASSUME NEW r \in Runs, LoadSource(r) PROVE TypeOK'
  BY <1>0, <1>13, GotoType DEF LoadSource, TypeOK
<1>14. ASSUME NEW r \in Runs PROVE NewRowCount(r) \in Nat
  BY <1>0, <1>14, IngestedType DEF NewRowCount, TypeOK
<1>15. ASSUME NEW r \in Runs, RecordRun(r) PROVE TypeOK'
  BY <1>0, <1>14, <1>15, GotoType DEF RecordRun, TypeOK
<1>16. ASSUME NEW r \in Runs, RecordRaises(r) PROVE TypeOK'
  <2>1. RunTypes'
    BY <1>0, <1>16, AbortType DEF RecordRaises
  <2>2. rowCount' \in Nat /\ lost' \in Nat
    BY <1>0, <1>14, <1>16 DEF RecordRaises, TypeOK
  <2>3. QED
    BY <1>0, <1>16, <2>1, <2>2 DEF RecordRaises, RunTypes, TypeOK
<1>17. ASSUME UNCHANGED vars PROVE TypeOK'
  BY <1>0, <1>17 DEF TypeOK, vars, runVars, sourceVars
<1>18. QED
  BY <1>1, <1>2, <1>3, <1>4, <1>5, <1>6, <1>7, <1>9, <1>10, <1>11, <1>12, <1>13, <1>15, <1>16,
     <1>17 DEF Next, Step, Raises

-----------------------------------------------------------------------------
(* What a step of one run means to the others. *)

\* The current item of a run is one that has come to it.
LEMMA CurrentType ==
  ASSUME TypeOK, NEW r \in Runs
  PROVE  /\ Current(r) \in Nat \ {0}
         /\ Len(results[r]) \in Nat
         /\ DOMAIN results[r] = 1..Len(results[r])
         /\ DOMAIN plan[r].items = 1..Len(plan[r].items)
<1>1. plan[r].items \in Seq(Item)
  BY ItemsType
<1>2. QED
  BY <1>1 DEF TypeOK, Current

\* A step of r adds to the stores, and only what belongs to r's current item.
Extends(r) ==
  /\ plan' = plan
  /\ \A s \in Runs \ {r} : /\ phase'[s] = phase[s]
                            /\ try'[s] = try[s]
                            /\ doc'[s] = doc[s]
                            /\ results'[s] = results[s]
  /\ docs \subseteq docs' /\ blobs \subseteq blobs' /\ chunks \subseteq chunks'
  /\ hits \subseteq hits' /\ graph \subseteq graph'
  /\ docs' \subseteq docs \cup {NewDocument(r)}
  /\ docs' # docs => phase[r] = "inserting"
  /\ chunks' \subseteq chunks \cup {NewChunks(r)}
  /\ chunks' # chunks => phase[r] = "committing"
  /\ lost' \in Nat /\ lost' <= lost

\* A step of a run extends the stores by its own document or chunks at most.
LEMMA StepExtends ==
  ASSUME IInv, NEW r \in Runs, Step(r) \/ Raises(r) \/ Crash(r)
  PROVE  Extends(r)
<1> USE DEF IInv, TypeOK, Extends, Goto
<1>1. CASE \/ Start(r) \/ NextItem(r) \/ Fetch(r) \/ Parse(r) \/ PutBlob(r) \/ FlushChunks(r)
           \/ CommitChunks(r) \/ LoadSource(r) \/ RecordRun(r) \/ AnswerUpload(r)
           \/ FlowRaises(r) \/ Crash(r) \/ RecordRaises(r)
  BY <1>1 DEF Start, NextItem, Fetch, Parse, PutBlob, FlushChunks, CommitChunks, LoadSource,
              RecordRun, AnswerUpload, FlowRaises, Crash, RecordRaises, Abort
<1>2. CASE FetchRaises(r)
  BY <1>2 DEF FetchRaises, Retry, Return
<1>7. CASE FindDuplicate(r)
  BY <1>7 DEF FindDuplicate, Return
<1>8. CASE ParseRaises(r) \/ ProcessGraph(r)
  BY <1>8 DEF ParseRaises, ProcessGraph, Return
<1>3. CASE InsertDocument(r)
  BY <1>3 DEF InsertDocument, Return
<1>4. CASE PersistRaises(r)
  BY <1>4 DEF PersistRaises, Retry, Abort, MayLand, LoseAck
<1>5. CASE IndexRaises(r)
  BY <1>5 DEF IndexRaises, Retry, Abort, MayLand, LoseAck
<1>6. QED
  BY <1>1, <1>2, <1>3, <1>4, <1>5, <1>7, <1>8 DEF Step, Raises

\* If no acknowledgement is lost now, none was before.
LEMMA NoAckLost ==
  ASSUME IInv, NEW r \in Runs, Extends(r), lost' = LostAcks
  PROVE  lost = LostAcks
  BY BoundAssumption DEF Extends, IInv, StoreInv, TypeOK

\* A step of one leaves the invariants of the others.
LEMMA OthersKeep ==
  ASSUME IInv, NEW r \in Runs, Extends(r), NEW s \in Runs, s # r
  PROVE  RunInv(s)'
<1>1. /\ phase'[s] = phase[s] /\ try'[s] = try[s] /\ doc'[s] = doc[s]
      /\ results'[s] = results[s] /\ plan' = plan /\ Current(s)' = Current(s)
      /\ ItemOf(s)' = ItemOf(s) /\ NewChunks(s)' = NewChunks(s) /\ Sent(s)' = Sent(s)
  BY DEF Extends, Current, ItemOf, NewChunks, Sent
<1>2. \A d \in docs' : d.run = s => d \in docs
  BY DEF Extends, NewDocument
<1>3. \A c \in chunks' : c.doc.run = s => c \in chunks
  BY DEF Extends, NewChunks, IInv, RunInv, HandInv, Indexing
<1>4. \A d : d.run = s => IndexedAs(d)' = IndexedAs(d)
  BY <1>3 DEF IndexedAs, Extends
<1>5. HandInv(s) /\ RowInv(s) /\ ReportInv(s) /\ CleanInv(s)
  BY DEF IInv, RunInv
<1>6. HandInv(s)'
  BY <1>1, <1>3, <1>5 DEF HandInv, Extends, Indexing, Persisting, NewChunks
<1>7. RowInv(s)'
  BY <1>1, <1>2, <1>5 DEF RowInv, Looking, Persisting
<1>8. ReportInv(s)'
  BY <1>1, <1>4, <1>5 DEF ReportInv, Complete, Extends
<1>9. CleanInv(s)'
  <2>1. \A d : ContentOf(d)' = ContentOf(d)
    BY <1>1 DEF ContentOf
  <2>2. QED
    BY <1>1, <1>2, <1>4, <1>5, <2>1, NoAckLost DEF CleanInv, Persisting
<1>10. QED
  BY <1>6, <1>7, <1>8, <1>9 DEF RunInv

-----------------------------------------------------------------------------
(* What a step of a run means to that run: nothing is stored. *)

\* But for more blobs, the stores are as they were, and so is what r has in hand.
Same(r) == /\ docs' = docs /\ chunks' = chunks /\ hits' = hits /\ graph' = graph
           /\ doc' = doc /\ results' = results

\* A step of r that adds no document, chunks or hit keeps the stores in order.
LEMMA SameKeeps ==
  ASSUME IInv, NEW r \in Runs, Extends(r), docs' = docs, chunks' = chunks, hits' = hits,
         graph' \subseteq graph \cup chunks
  PROVE  StoreInv'
<1>1. \A d \in docs : ContentOf(d)' = ContentOf(d)
  BY DEF Extends, ContentOf
<1>2. lost' <= LostAcks
  BY BoundAssumption DEF IInv, StoreInv, Extends, TypeOK
<1>3. QED
  BY <1>1, <1>2 DEF IInv, StoreInv, Extends

\* What was reported stays complete.
LEMMA ReportKeeps ==
  ASSUME IInv, NEW r \in Runs, Extends(r), results'[r] = results[r]
  PROVE  ReportInv(r)'
<1>1. ASSUME NEW i \in DOMAIN results[r], results[r][i].status = "ingested"
      PROVE  /\ results[r][i].doc.run = r
             /\ results[r][i].doc.item = i
             /\ Complete(results[r][i].doc)'
  <2>1. /\ results[r][i].doc.run = r
        /\ results[r][i].doc.item = i
        /\ Complete(results[r][i].doc)
    BY <1>1 DEF IInv, RunInv, ReportInv
  <2>2. i # Current(r)
    BY <1>1, CurrentType DEF IInv, Current
  <2>3. IndexedAs(results[r][i].doc)' = IndexedAs(results[r][i].doc)
    BY <2>1, <2>2 DEF IndexedAs, Extends, NewChunks, IInv, RunInv, HandInv, Indexing
  <2>4. QED
    BY <2>1, <2>3 DEF Complete, Extends
<1>2. QED
  BY <1>1 DEF ReportInv

\* r looks for its next item or at it.
LEMMA LookKeeps ==
  ASSUME IInv, NEW r \in Runs, Extends(r), Same(r), phase[r] \in Looking,
         phase'[r] \in Looking,
         phase'[r] \in {"fetching", "checking"} => Current(r) \in DOMAIN plan[r].items
  PROVE  StoreInv' /\ RunInv(r)'
<1>1. StoreInv' /\ ReportInv(r)'
  BY SameKeeps, ReportKeeps DEF Same
<1>2. Current(r)' = Current(r) /\ plan' = plan /\ \A d : IndexedAs(d)' = IndexedAs(d)
  BY DEF Same, Current, Extends, IndexedAs
<1>3. HandInv(r)'
  BY <1>2 DEF HandInv, Looking, Persisting, Indexing
<1>4. RowInv(r)'
  BY <1>2 DEF RowInv, IInv, RunInv, Same, Looking, Persisting
<1>5. CleanInv(r)'
  <2>1. \A d : ContentOf(d)' = ContentOf(d)
    BY <1>2 DEF ContentOf
  <2>2. QED
    BY <1>2, <2>1, NoAckLost DEF CleanInv, IInv, RunInv, Same, Looking, Persisting
<1>6. QED
  BY <1>1, <1>3, <1>4, <1>5 DEF RunInv

\* r is through with its items, or gives up.
LEMMA EndKeeps ==
  ASSUME IInv, NEW r \in Runs, Extends(r), Same(r),
         \/ phase'[r] \in {"failed", "crashed"}
         \/ phase[r] \in Looking \cup {"recording"} /\ phase'[r] \in {"recording", "done"}
  PROVE  StoreInv' /\ RunInv(r)'
<1>1. StoreInv' /\ ReportInv(r)'
  BY SameKeeps, ReportKeeps DEF Same
<1>2. Current(r)' = Current(r) /\ plan' = plan /\ \A d : IndexedAs(d)' = IndexedAs(d)
  BY DEF Same, Current, Extends, IndexedAs
<1>3. HandInv(r)'
  BY <1>2 DEF HandInv, Persisting, Indexing
<1>4. RowInv(r)'
  BY <1>2 DEF RowInv, IInv, RunInv, Same, Looking, Persisting
<1>5. CleanInv(r)'
  <2>1. \A d : ContentOf(d)' = ContentOf(d)
    BY <1>2 DEF ContentOf
  <2>2. QED
    BY <1>2, <2>1, NoAckLost DEF CleanInv, IInv, RunInv, Same, Looking, Persisting
<1>6. QED
  BY <1>1, <1>3, <1>4, <1>5 DEF RunInv

\* r has parsed its item, stored its blob, or persists it all over again.
LEMMA PersistKeeps ==
  ASSUME IInv, NEW r \in Runs, Extends(r), Same(r),
         Current(r) \in DOMAIN plan[r].items,
         \/ phase[r] = "checking" /\ Twins(r) = {}
         \/ phase[r] \in Persisting /\ try'[r] \in {try[r], try[r] + 1},
         phase'[r] \in Persisting,
         phase'[r] = "inserting" => ItemOf(r).content \in blobs'
  PROVE  StoreInv' /\ RunInv(r)'
<1>1. StoreInv' /\ ReportInv(r)'
  BY SameKeeps, ReportKeeps DEF Same
<1>2. /\ Current(r)' = Current(r) /\ ItemOf(r)' = ItemOf(r) /\ plan' = plan
      /\ \A d : IndexedAs(d)' = IndexedAs(d) /\ ContentOf(d)' = ContentOf(d)
  BY DEF Same, Current, ItemOf, Extends, IndexedAs, ContentOf
<1>3. HandInv(r)'
  BY <1>2 DEF HandInv, Persisting, Indexing
<1>4. RowInv(r)'
  <2>1. \A d \in docs : d.try \in Nat
    BY DEF IInv, TypeOK, Document
  <2>2. try[r] \in Nat
    BY DEF IInv, TypeOK
  <2>3. QED
    BY <1>2, <2>1, <2>2 DEF RowInv, IInv, RunInv, Same, Looking, Persisting
<1>5. CleanInv(r)'
  BY <1>2, NoAckLost DEF CleanInv, IInv, RunInv, Same, Looking, Persisting, Twins
<1>6. QED
  BY <1>1, <1>3, <1>4, <1>5 DEF RunInv

-----------------------------------------------------------------------------
(* ingest_item returns. *)

\* Reporting one more result keeps the reports right.
LEMMA ReportGrows ==
  ASSUME IInv, NEW r \in Runs, Extends(r), NEW status, NEW d, Return(r, status, d),
         chunks' = chunks,
         status = "ingested" => d.run = r /\ d.item = Current(r) /\ Complete(d)'
  PROVE  ReportInv(r)'
<1>1. results'[r] = Append(results[r], [status |-> status, doc |-> d])
  BY DEF Return, IInv, TypeOK
<1>2. DOMAIN results'[r] = DOMAIN results[r] \cup {Current(r)}
  BY <1>1, CurrentType DEF IInv, TypeOK, Current
<1>3. results'[r][Current(r)] = [status |-> status, doc |-> d]
  BY <1>1 DEF IInv, TypeOK, Current
<1>4. \A i \in DOMAIN results[r] : results'[r][i] = results[r][i]
  BY <1>1 DEF IInv, TypeOK
<1>5. \A e : Complete(e) => Complete(e)'
  BY DEF Complete, IndexedAs, Extends
<1>6. QED
  BY <1>2, <1>3, <1>4, <1>5 DEF ReportInv, IInv, RunInv

\* The rows of r's current item are rows of a past one from now on.
LEMMA ReturnKeeps ==
  ASSUME IInv, NEW r \in Runs, Extends(r), NEW status, NEW d, Return(r, status, d),
         chunks' = chunks,
         \A e \in docs' \ docs : e.status = "quarantined",
         docs' # docs => phase[r] \in Persisting,
         phase[r] \notin {"indexing", "committing", "failed", "crashed"}
  PROVE  HandInv(r)' /\ RowInv(r)' /\ CleanInv(r)'
<1>1. phase'[r] = "next" /\ plan' = plan
  BY DEF Return, Goto, IInv, TypeOK, Extends
<1>2. Current(r)' = Current(r) + 1
  BY DEF Return, IInv, TypeOK, Current
<1>3. HandInv(r)'
  BY <1>1 DEF HandInv, Persisting, Indexing
<1>4. RowInv(r)'
  <2>1. \A e \in docs' : e.run = r => e.item <= Current(r) /\ e.item \in Nat
    <3> SUFFICES ASSUME NEW e \in docs', e.run = r
                 PROVE  e.item <= Current(r) /\ e.item \in Nat
      OBVIOUS
    <3>1. TypeOK /\ RowInv(r) /\ e \in docs \cup {NewDocument(r)}
      BY DEF IInv, RunInv, Extends
    <3>2. CASE e \in docs
      BY <3>1, <3>2 DEF RowInv, TypeOK, Document
    <3>3. CASE e = NewDocument(r)
      <4>1. e.item = Current(r)
        BY <3>3 DEF NewDocument
      <4>2. QED
        BY <3>1, <4>1, CurrentType
    <3>4. QED
      BY <3>1, <3>2, <3>3
  <2>2. QED
    BY <1>1, <1>2, <2>1, CurrentType DEF RowInv, Persisting, IInv
<1>5. CleanInv(r)'
  <2>1. \A e : IndexedAs(e)' = IndexedAs(e) /\ ContentOf(e)' = ContentOf(e)
    BY <1>1 DEF IndexedAs, ContentOf
  <2>2. ContentOf(NewDocument(r)) = ItemOf(r).content
    BY DEF ContentOf, NewDocument, ItemOf
  <2>3. QED
    BY <1>1, <2>1, <2>2, NoAckLost DEF CleanInv, IInv, RunInv, Extends, Persisting
<1>6. QED
  BY <1>3, <1>4, <1>5

-----------------------------------------------------------------------------
(* Document rows and chunks. *)

\* A row with this id was not there before.
LEMMA NewDocumentIsNew ==
  ASSUME IInv, NEW r \in Runs, phase[r] \in Persisting
  PROVE  /\ NewDocument(r) \notin docs
         /\ \A d \in docs : d.run = r /\ d.item = Current(r) => d.try # try[r]
         /\ \A c \in chunks \cup hits \cup graph : c.doc # NewDocument(r)
<1>1. \A d \in docs : d.run = r /\ d.item = Current(r) => d.try # try[r]
  <2>1. Current(r) \in Nat /\ try[r] \in Nat
    BY CurrentType DEF IInv, TypeOK
  <2>2. QED
    BY <2>1 DEF IInv, RunInv, RowInv
<1>2. NewDocument(r) \notin docs
  BY <1>1 DEF NewDocument
<1>3. QED
  BY <1>1, <1>2 DEF IInv, StoreInv

\* An insert keeps the stores in order.
LEMMA InsertStores ==
  ASSUME IInv, NEW r \in Runs, Extends(r), phase[r] = "inserting",
         docs' = docs \cup {NewDocument(r)}, chunks' = chunks, hits' = hits, graph' = graph
  PROVE  StoreInv'
<1>1. /\ Current(r) \in DOMAIN plan[r].items
      /\ ItemOf(r).content \in blobs
  BY DEF IInv, RunInv, HandInv, Persisting
<1>2. \A d : ContentOf(d)' = ContentOf(d)
  BY DEF Extends, ContentOf
<1>3. /\ NewDocument(r).item \in DOMAIN plan[r].items
      /\ NewDocument(r).run = r
      /\ NewDocument(r).status = "active" <=> plan[r].items[NewDocument(r).item].verdict = "good"
      /\ ContentOf(NewDocument(r)) \in blobs
  BY <1>1 DEF NewDocument, ItemOf, ContentOf
<1>4. lost' <= LostAcks
  BY BoundAssumption DEF IInv, StoreInv, Extends, TypeOK
<1>5. QED
  BY <1>2, <1>3, <1>4 DEF IInv, StoreInv, Extends

\* The insert took effect although it raised; r tries again or gives up.
LEMMA LandedInsertKeeps ==
  ASSUME IInv, NEW r \in Runs, Extends(r), phase[r] = "inserting",
         docs' = docs \cup {NewDocument(r)}, chunks' = chunks, hits' = hits, graph' = graph,
         doc' = doc, results' = results, lost' < lost,
         \/ phase'[r] = "storing" /\ try'[r] = try[r] + 1
         \/ phase'[r] = "failed"
  PROVE  StoreInv' /\ RunInv(r)'
<1>1. StoreInv' /\ ReportInv(r)'
  BY InsertStores, ReportKeeps
<1>2. Current(r)' = Current(r) /\ plan' = plan
  BY DEF Current, Extends
<1>3. HandInv(r)'
  BY <1>2 DEF HandInv, Persisting, Indexing, IInv, RunInv
<1>4. RowInv(r)'
  <2>1. \A d \in docs : d.try \in Nat
    BY DEF IInv, TypeOK, Document
  <2>2. try[r] \in Nat /\ Current(r) \in Nat
    BY CurrentType DEF IInv, TypeOK
  <2>3. NewDocument(r).item = Current(r) /\ NewDocument(r).try = try[r]
    BY DEF NewDocument
  <2>4. QED
    BY <1>2, <2>1, <2>2, <2>3 DEF RowInv, IInv, RunInv, Looking, Persisting
<1>5. lost' # LostAcks
  BY BoundAssumption DEF IInv, StoreInv, TypeOK, Extends
<1>6. QED
  BY <1>1, <1>3, <1>4, <1>5 DEF RunInv, CleanInv

\* The row is there and r goes on to index it.
LEMMA InsertKeeps ==
  ASSUME IInv, NEW r \in Runs, Extends(r), InsertDocument(r), NewDocument(r).status = "active"
  PROVE  StoreInv' /\ RunInv(r)'
<1>1. /\ phase[r] = "inserting" /\ docs' = docs \cup {NewDocument(r)} /\ plan' = plan
      /\ chunks' = chunks /\ hits' = hits /\ graph' = graph /\ results' = results
      /\ phase'[r] = "indexing" /\ try'[r] = 1 /\ doc'[r] = NewDocument(r)
  BY DEF InsertDocument, Goto, IInv, TypeOK
<1>2. StoreInv' /\ ReportInv(r)'
  BY <1>1, InsertStores, ReportKeeps
<1>3. Current(r)' = Current(r) /\ NewDocument(r).run = r /\ NewDocument(r).item = Current(r)
  BY <1>1 DEF Current, NewDocument
<1>4. \A c \in chunks : c.doc # NewDocument(r)
  BY <1>1, NewDocumentIsNew DEF Persisting
<1>5. HandInv(r)'
  BY <1>1, <1>3, <1>4 DEF HandInv, Persisting, Indexing, NewChunks, IInv, RunInv
<1>6. RowInv(r)'
  <2>1. Current(r) <= Current(r)
    BY CurrentType DEF IInv
  <2>2. QED
    BY <1>1, <1>3, <2>1 DEF RowInv, Looking, Persisting, IInv, RunInv
<1>7. CleanInv(r)'
  <2>1. \A e : IndexedAs(e)' = IndexedAs(e) /\ ContentOf(e)' = ContentOf(e)
    BY <1>1 DEF IndexedAs, ContentOf
  <2>2. ContentOf(NewDocument(r)) = ItemOf(r).content
    BY DEF ContentOf, NewDocument, ItemOf
  <2>3. QED
    BY <1>1, <2>1, <2>2, NoAckLost DEF CleanInv, IInv, RunInv, Persisting
<1>8. QED
  BY <1>2, <1>5, <1>6, <1>7 DEF RunInv

\* r sends, commits or loses chunks of the document it is at, and stays with it or gives up.
LEMMA IndexKeeps ==
  ASSUME IInv, NEW r \in Runs, Extends(r), phase[r] \in Indexing,
         docs' = docs, doc' = doc, results' = results,
         hits' \subseteq hits \cup Sent(r),
         graph' \subseteq graph \cup chunks,
         \/ phase'[r] = "committing" /\ phase[r] = "indexing" /\ try'[r] = try[r] 
              /\ chunks' = chunks /\ Sent(r) \subseteq hits'
         \/ phase'[r] = "graphing" /\ phase[r] = "committing" /\ try'[r] = try[r]
              /\ NewChunks(r) \in chunks'
         \/ phase'[r] = "indexing" /\ try'[r] = try[r] + 1
         \/ phase'[r] = "failed",
         chunks' # chunks => phase'[r] = "graphing" \/ lost' < lost
  PROVE  StoreInv' /\ RunInv(r)'
<1>1. HandInv(r) /\ RowInv(r) /\ CleanInv(r)
  BY DEF IInv, RunInv
<1>2. /\ Current(r)' = Current(r) /\ plan' = plan /\ ItemOf(r)' = ItemOf(r)
      /\ \A d : ContentOf(d)' = ContentOf(d)
  BY DEF Current, Extends, ItemOf, ContentOf
<1>3. StoreInv'
  <2>1. lost' <= LostAcks
    BY BoundAssumption DEF IInv, StoreInv, Extends, TypeOK
  <2>2. NewChunks(r).doc \in docs /\ NewChunks(r).doc.status = "active"
    BY <1>1 DEF HandInv, NewChunks
  <2>3. Lexical = "opensearch" => chunks' \subseteq hits'
    BY <1>1 DEF HandInv, IInv, StoreInv, Extends, Sent
  <2>4. QED
    BY <1>2, <2>1, <2>2, <2>3 DEF IInv, StoreInv, Extends, Sent
<1>4. ReportInv(r)'
  BY ReportKeeps
<1>5. HandInv(r)'
  <2>1. \A c \in chunks' : c.doc = doc[r] => c.try <= try[r]
    BY <1>1 DEF HandInv, Extends, NewChunks, IInv, TypeOK
  <2>2. /\ try[r] \in Nat
        /\ \A c \in chunks' : c.doc = doc[r] => c.try \in Nat
    BY DEF IInv, TypeOK, Extends, NewChunks, ChunkSet
  <2>3. phase'[r] = "indexing" => NewChunks(r)' \notin chunks'
    BY <2>1, <2>2 DEF NewChunks
  <2>4. \A c \in chunks' : c.doc = doc[r] /\ phase'[r] \in Indexing => c.try <= try'[r]
    BY <2>1, <2>2 DEF Indexing
  <2>5. QED
    BY <1>1, <1>2, <2>3, <2>4 DEF HandInv, Persisting, Indexing, NewChunks, Sent
<1>6. RowInv(r)'
  BY <1>1, <1>2 DEF RowInv, Looking, Persisting
<1>7. CleanInv(r)'
  <2>1. \A d : IndexedAs(d) \subseteq IndexedAs(d)'
    BY DEF IndexedAs, Extends
  <2>2. phase'[r] = "graphing" => IndexedAs(doc[r])' # {}
    BY DEF IndexedAs, NewChunks
  <2>3. QED
    BY <1>1, <1>2, <2>1, <2>2, NoAckLost DEF CleanInv, Persisting, Indexing
<1>8. QED
  BY <1>3, <1>4, <1>5, <1>6, <1>7 DEF RunInv

-----------------------------------------------------------------------------
(* The invariant is inductive. *)

\* IInv holds at first.
LEMMA InvInit == Init => IInv
<1>1. SUFFICES ASSUME Init PROVE IInv
  OBVIOUS
<1>2. TypeOK
  BY <1>1, TypeInit
<1>3. StoreInv
  BY <1>1, BoundAssumption DEF Init, StoreInv
<1>4. ASSUME NEW r \in Runs PROVE RunInv(r)
  BY <1>1, <1>4 DEF Init, RunInv, HandInv, RowInv, ReportInv, CleanInv, Looking, Persisting,
                    Indexing
<1>5. QED
  BY <1>2, <1>3, <1>4 DEF IInv

\* Every step of a run preserves IInv.
LEMMA InvStep ==
  ASSUME IInv, NEW r \in Runs, Step(r) \/ Raises(r) \/ Crash(r)
  PROVE  StoreInv' /\ RunInv(r)'
<1>0. /\ TypeOK /\ HandInv(r) /\ Extends(r)
      /\ phase[r] \in Persisting \cup Indexing \cup {"fetching", "checking"} =>
           Current(r) \in DOMAIN plan[r].items
  BY StepExtends DEF IInv, RunInv, HandInv
<1>1. CASE Start(r) \/ NextItem(r) \/ Fetch(r)
  <2>1. /\ Same(r) /\ phase[r] \in Looking /\ phase'[r] \in Looking
        /\ phase'[r] \in {"fetching", "checking"} => Current(r) \in DOMAIN plan[r].items
    BY <1>0, <1>1, CurrentType DEF Start, NextItem, Fetch, Goto, Same, Looking, TypeOK
  <2>2. QED
    BY <1>0, <2>1, LookKeeps
<1>2. CASE \/ LoadSource(r) \/ RecordRun(r) \/ RecordRaises(r) \/ AnswerUpload(r)
           \/ FlowRaises(r) \/ Crash(r)
  <2>1. /\ Same(r)
        /\ \/ phase'[r] \in {"failed", "crashed"}
           \/ phase[r] \in Looking \cup {"recording"} /\ phase'[r] \in {"recording", "done"}
    BY <1>0, <1>2 DEF LoadSource, RecordRun, RecordRaises, AnswerUpload, FlowRaises, Crash, Abort,
                      Goto, Same, Looking, TypeOK
  <2>2. QED
    BY <1>0, <2>1, EndKeeps
<1>3. CASE Parse(r) \/ PutBlob(r)
  <2>1. /\ Same(r) /\ Current(r) \in DOMAIN plan[r].items
        /\ \/ phase[r] = "checking" /\ Twins(r) = {}
           \/ phase[r] \in Persisting /\ try'[r] \in {try[r], try[r] + 1}
        /\ phase'[r] \in Persisting
        /\ phase'[r] = "inserting" => ItemOf(r).content \in blobs'
    BY <1>0, <1>3 DEF Parse, PutBlob, Goto, Same, Persisting, TypeOK
  <2>2. QED
    BY <1>0, <2>1, PersistKeeps
\* An item comes back without a row of its own.
<1>4. ASSUME NEW status \in {"duplicate", "error"}, NEW d, Return(r, status, d),
             phase[r] \in Looking, UNCHANGED <<docs, chunks, hits, graph>>
      PROVE  StoreInv' /\ RunInv(r)'
  BY <1>0, <1>4, SameKeeps, ReportGrows, ReturnKeeps DEF RunInv, Looking
<1>5. CASE FetchRaises(r)
  <2>1. CASE try[r] <= Retries
    <3>1. Same(r) /\ phase[r] \in Looking /\ phase'[r] = "fetching"
      BY <1>0, <1>5, <2>1 DEF FetchRaises, Retry, Same, Looking, TypeOK
    <3>2. Current(r) \in DOMAIN plan[r].items
      BY <1>0, <1>5 DEF FetchRaises
    <3>3. QED
      BY <1>0, <3>1, <3>2, LookKeeps DEF Looking
  <2>2. CASE ~(try[r] <= Retries)
    BY <1>4, <1>5, <2>2 DEF FetchRaises, Retry, Looking
  <2>3. QED
    BY <2>1, <2>2
<1>6. CASE FindDuplicate(r)
  BY <1>4, <1>6 DEF FindDuplicate, Looking
<1>7. CASE ParseRaises(r)
  BY <1>4, <1>7 DEF ParseRaises, Looking
<1>8. CASE InsertDocument(r)
  <2>1. CASE NewDocument(r).status = "active"
    BY <1>0, <1>8, <2>1, InsertKeeps
  <2>2. CASE NewDocument(r).status # "active"
    <3>1. /\ Return(r, "quarantined", NewDocument(r)) /\ NewDocument(r).status = "quarantined"
          /\ phase[r] = "inserting" /\ docs' = docs \cup {NewDocument(r)}
          /\ UNCHANGED <<chunks, hits, graph>>
      BY <1>8, <2>2 DEF InsertDocument, NewDocument
    <3>2. StoreInv'
      BY <1>0, <3>1, InsertStores
    <3>3. ReportInv(r)'
      BY <1>0, <3>1, ReportGrows
    <3>4. HandInv(r)' /\ RowInv(r)' /\ CleanInv(r)'
      BY <1>0, <3>1, ReturnKeeps DEF Persisting
    <3>5. QED
      BY <3>2, <3>3, <3>4 DEF RunInv
  <2>3. QED
    BY <2>1, <2>2
<1>9. CASE PersistRaises(r)
  <2>1. /\ phase[r] \in Persisting /\ UNCHANGED <<chunks, hits, graph, blobs>>
        /\ UNCHANGED <<doc, results>>
        /\ \/ phase'[r] = "storing" /\ try'[r] = try[r] + 1
           \/ phase'[r] = "failed"
    BY <1>0, <1>9 DEF PersistRaises, Retry, Abort, Goto, Persisting, TypeOK
  <2>2. CASE docs' = docs
    BY <1>0, <2>1, <2>2, PersistKeeps, EndKeeps DEF Same, Persisting
  <2>3. CASE docs' # docs
    <3>1. phase[r] = "inserting" /\ docs' = docs \cup {NewDocument(r)} /\ lost' < lost
      BY <1>0, <1>9, <2>3 DEF PersistRaises, MayLand, LoseAck, TypeOK
    <3>2. QED
      BY <1>0, <2>1, <3>1, LandedInsertKeeps
  <2>4. QED
    BY <2>2, <2>3
<1>10. CASE FlushChunks(r)
  <2>1. /\ phase[r] = "indexing" /\ phase'[r] = "committing" /\ try'[r] = try[r]
        /\ UNCHANGED <<docs, doc, results, chunks, graph>> /\ hits' = hits \cup Sent(r)
    BY <1>0, <1>10 DEF FlushChunks, TypeOK
  <2>2. QED
    BY <1>0, <2>1, IndexKeeps DEF Indexing
<1>11. CASE CommitChunks(r)
  <2>1. /\ phase[r] = "committing" /\ phase'[r] = "graphing" /\ try'[r] = try[r]
        /\ UNCHANGED <<docs, doc, results, hits, graph>> /\ NewChunks(r) \in chunks'
    BY <1>0, <1>11 DEF CommitChunks, TypeOK
  <2>2. QED
    BY <1>0, <2>1, IndexKeeps DEF Indexing
<1>12. CASE IndexRaises(r)
  <2>1. /\ phase[r] \in Indexing /\ UNCHANGED <<docs, doc, results>>
        /\ hits' \subseteq hits \cup Sent(r)
        /\ graph' \subseteq graph \cup chunks
        /\ chunks' # chunks => lost' < lost
    BY <1>0, <1>12 DEF IndexRaises, Retry, Abort, MayLand, LoseAck, ChunksOf, Indexing, TypeOK
  <2>2. \/ phase'[r] = "indexing" /\ try'[r] = try[r] + 1
        \/ phase'[r] = "failed"
    BY <1>0, <1>12 DEF IndexRaises, Retry, Abort, Goto, TypeOK
  <2>3. QED
    BY <1>0, <2>1, <2>2, IndexKeeps
<1>13. CASE ProcessGraph(r)
  <2> PICK d : d = doc[r]
    OBVIOUS
  <2>1. /\ phase[r] = "graphing" /\ Return(r, "ingested", d)
        /\ UNCHANGED <<docs, chunks, hits>> /\ graph' = graph \cup IndexedAs(d)
    BY <1>13 DEF ProcessGraph, ChunksOf, IndexedAs
  <2>2. StoreInv'
    BY <1>0, <2>1, SameKeeps DEF IndexedAs
  <2>3. /\ d.run = r /\ d.item = Current(r) /\ d \in docs
        /\ NewChunks(r) \in IndexedAs(d)
    BY <1>0, <2>1 DEF HandInv, Indexing, IndexedAs, NewChunks
  <2>4. IndexedAs(d)' = IndexedAs(d) /\ IndexedAs(d) \subseteq chunks
    BY <2>1 DEF IndexedAs
  <2>5. Complete(d)'
    BY <2>1, <2>3, <2>4 DEF Complete, IInv, StoreInv
  <2>6. ReportInv(r)'
    BY <1>0, <2>1, <2>3, <2>5, ReportGrows
  <2>7. HandInv(r)' /\ RowInv(r)' /\ CleanInv(r)'
    BY <1>0, <2>1, ReturnKeeps
  <2>8. QED
    BY <2>2, <2>6, <2>7 DEF RunInv
<1>14. QED
  BY <1>1, <1>2, <1>3, <1>5, <1>6, <1>7, <1>8, <1>9, <1>10, <1>11, <1>12, <1>13 DEF Step, Raises

\* Every step preserves IInv.
LEMMA InvNext == IInv /\ [Next]_vars => IInv'
<1>1. SUFFICES ASSUME IInv, [Next]_vars PROVE IInv'
  OBVIOUS
<1>2. TypeOK'
  BY <1>1, TypeStep
<1>3. ASSUME NEW r \in Runs, Step(r) \/ Raises(r) \/ Crash(r)
      PROVE  StoreInv' /\ \A s \in Runs : RunInv(s)'
  BY <1>1, <1>3, StepExtends, OthersKeep, InvStep
<1>4. ASSUME UNCHANGED vars
      PROVE  StoreInv' /\ \A s \in Runs : RunInv(s)'
  <2>1. StoreInv'
    BY <1>1, <1>4 DEF IInv, StoreInv, ContentOf, vars, runVars
  <2>2. ASSUME NEW s \in Runs PROVE RunInv(s)'
    <3>1. RunInv(s)
      BY <1>1 DEF IInv
    <3>2. HandInv(s)' /\ RowInv(s)'
      BY <1>4, <3>1 DEF RunInv, HandInv, RowInv, ItemOf, Current, NewChunks, Sent, vars, runVars
    <3>3. ReportInv(s)'
      BY <1>4, <3>1 DEF RunInv, ReportInv, Complete, IndexedAs, vars, runVars
    <3>4. CleanInv(s)'
      BY <1>4, <3>1 DEF RunInv, CleanInv, IndexedAs, ContentOf, ItemOf, Current, vars, runVars
    <3>5. QED
      BY <3>2, <3>3, <3>4 DEF RunInv
  <2>3. QED
    BY <2>1, <2>2
<1>5. QED
  BY <1>1, <1>2, <1>3, <1>4 DEF Next, IInv

\* IInv is an invariant.
LEMMA Invariance == Spec => []IInv
  BY InvInit, InvNext, PTL DEF Spec

-----------------------------------------------------------------------------
(* What follows from it. *)

\* The variables keep their types (ingestion/pipeline.py: every row, chunk and result the
\* runs make is one of theirs).
THEOREM TypeCorrect == Spec => []TypeOK
  BY Invariance, PTL DEF IInv

\* Chunks, search hits and graph facts are only ever those of stored documents that passed
\* the quality gate, for any number of runs, retries, crashes and lost acknowledgements.
THEOREM RetrievableCorrect == Spec => []OnlyGoodIsRetrievable
<1>1. IInv => OnlyGoodIsRetrievable
  BY DEF IInv, StoreInv, OnlyGoodIsRetrievable
<1>2. QED
  BY <1>1, Invariance, PTL

\* Every document row points at bytes and provenance that are in the blob store.
THEOREM BlobsCorrect == Spec => []BlobPrecedesDocument
<1>1. IInv => BlobPrecedesDocument
  BY DEF IInv, StoreInv, BlobPrecedesDocument
<1>2. QED
  BY <1>1, Invariance, PTL

\* What ingest_item reports as ingested is chunked, searchable and entirely in the graph, and
\* stays so whatever other runs do.
THEOREM ReportsCorrect == Spec => []IngestedIsComplete
<1>1. IInv => IngestedIsComplete
  BY DEF IInv, RunInv, ReportInv, IngestedIsComplete
<1>2. QED
  BY <1>1, Invariance, PTL

\* Without lost acknowledgements, an active document that search cannot find belongs to a run
\* that is indexing it or has ended badly.
THEOREM UnindexedCorrect == Spec => []UnindexedIsAccountedFor
<1>1. IInv => UnindexedIsAccountedFor
  BY DEF IInv, RunInv, CleanInv, UnindexedIsAccountedFor, TypeOK, Document
<1>2. QED
  BY <1>1, Invariance, PTL

\* Without lost acknowledgements, retries never make a run store a content twice.
THEOREM StoresOnce == Spec => []NoRunStoresTwice
<1>1. IInv => NoRunStoresTwice
  BY DEF IInv, RunInv, CleanInv, NoRunStoresTwice, TypeOK, Document
<1>2. QED
  BY <1>1, Invariance, PTL

-----------------------------------------------------------------------------
(* The catalog's count. *)

\* The complete documents of the runs that are over; nothing is done to them any more.
Past == {d \in docs : Complete(d) /\ phase[d.run] \in Ended}

\* What is in the catalog, and what a run has loaded from it to add to, was counted from them.
CountInv ==
  /\ IsFiniteSet(docs)
  /\ rowCount <= Cardinality(Past)
  /\ \A r \in Runs : phase[r] = "recording" => seen[r] <= Cardinality(Past)

\* What a run has reported as ingested are as many documents of its own.
LEMMA IngestedAreDocuments ==
  ASSUME IInv, IsFiniteSet(docs), NEW r \in Runs
  PROVE  Ingested(r) <= Cardinality({d \in docs : Complete(d) /\ d.run = r})
<1> DEFINE I == {i \in DOMAIN results[r] : results[r][i].status = "ingested"}
           T == {d \in docs : Complete(d) /\ d.run = r}
           f == [i \in I |-> results[r][i].doc]
<1>1. \A i \in I : /\ results[r][i].doc.item = i /\ results[r][i].doc.run = r
                   /\ Complete(results[r][i].doc)
  BY DEF IInv, RunInv, ReportInv
<1>2. \A i \in I : results[r][i].doc \in T
  BY <1>1 DEF Complete
<1>3. IsFiniteSet(T)
  BY FS_Subset
<1>4. f \in Injection(I, T)
  <2>1. f \in [I -> T]
    BY <1>2
  <2>2. \A i, j \in I : f[i] = f[j] => i = j
    BY <1>1
  <2> HIDE DEF f, I, T
  <2>3. QED
    BY <2>1, <2>2 DEF Injection, IsInjective
<1> HIDE DEF f, T
<1>5. Cardinality(I) <= Cardinality(T)
  BY <1>3, <1>4, FS_Injection
<1>6. QED
  BY <1>5 DEF Ingested, T

\* A step takes nothing from the documents of runs that are over.
LEMMA PastGrows ==
  ASSUME IInv, [Next]_vars
  PROVE  Past \subseteq Past'
<1>1. CASE UNCHANGED vars
  BY <1>1 DEF vars, runVars, Past, Complete, IndexedAs
<1>2. ASSUME NEW r \in Runs, Step(r) \/ Raises(r) \/ Crash(r)
      PROVE  Past \subseteq Past'
  <2>1. Extends(r)
    BY <1>2, StepExtends
  <2>2. phase[r] \notin Ended
    BY <1>2 DEF Step, Raises, Crash, Start, NextItem, Fetch, FindDuplicate, Parse, PutBlob,
                InsertDocument, FlushChunks, CommitChunks, ProcessGraph, LoadSource, RecordRun,
                AnswerUpload, FetchRaises, ParseRaises, PersistRaises, IndexRaises, RecordRaises,
                FlowRaises, Ended
  <2>3. SUFFICES ASSUME NEW d \in Past
                 PROVE  d \in Past'
    OBVIOUS
  <2>4. d \in docs /\ Complete(d) /\ phase[d.run] \in Ended /\ d.run # r /\ d.run \in Runs
    BY <2>2 DEF Past, IInv, TypeOK, Document
  <2>5. IndexedAs(d)' = IndexedAs(d)
    <3>1. phase[r] = "committing" => doc[r].run = r
      BY DEF IInv, RunInv, HandInv, Indexing
    <3>2. \A c \in chunks' : c.doc = d => c \in chunks
      BY <2>1, <2>4, <3>1 DEF Extends, NewChunks
    <3>3. QED
      BY <2>1, <3>2 DEF Extends, IndexedAs
  <2>6. Complete(d)'
    BY <2>1, <2>4, <2>5 DEF Extends, Complete
  <2>7. d \in docs' /\ phase'[d.run] \in Ended
    BY <2>1, <2>4 DEF Extends
  <2>8. QED
    BY <2>6, <2>7 DEF Past
<1>3. QED
  BY <1>1, <1>2 DEF Next

\* There are finitely many documents.
LEMMA DocsFinite ==
  ASSUME IInv, [Next]_vars, IsFiniteSet(docs)
  PROVE  IsFiniteSet(docs')
<1>1. CASE UNCHANGED vars
  BY <1>1 DEF vars
<1>2. ASSUME NEW r \in Runs, Step(r) \/ Raises(r) \/ Crash(r)
      PROVE  IsFiniteSet(docs')
  <2>1. docs' \subseteq docs \cup {NewDocument(r)}
    BY <1>2, StepExtends DEF Extends
  <2>2. IsFiniteSet(docs \cup {NewDocument(r)})
    BY FS_AddElement
  <2>3. QED
    BY <2>1, <2>2, FS_Subset
<1>3. QED
  BY <1>1, <1>2 DEF Next

\* A run that is over has put its own documents to those that were counted before it.
LEMMA RecordCounts ==
  ASSUME IInv, CountInv, IsFiniteSet(Past'), Past \subseteq Past', NEW r \in Runs,
         phase[r] = "recording", phase'[r] \in Ended,
         UNCHANGED <<docs, chunks, hits, graph>>
  PROVE  NewRowCount(r) <= Cardinality(Past')
<1> DEFINE T == {d \in docs : Complete(d) /\ d.run = r}
<1>1. IsFiniteSet(T) /\ IsFiniteSet(Past)
  BY FS_Subset DEF CountInv, Past
<1>2. /\ Cardinality(T) \in Nat /\ Cardinality(Past) \in Nat /\ Cardinality(Past') \in Nat
      /\ rowCount \in Nat /\ seen[r] \in Nat /\ Ingested(r) \in Nat
  BY <1>1, FS_CardinalityType, IngestedType DEF IInv, TypeOK
<1>3. Past \cap T = {}
  BY DEF Past, Ended
<1>4. T \subseteq Past'
  BY DEF Past, Complete, IndexedAs
<1>5. Ingested(r) <= Cardinality(T)
  BY IngestedAreDocuments DEF CountInv
<1>6. rowCount <= Cardinality(Past) /\ seen[r] <= Cardinality(Past)
  BY DEF CountInv
<1> HIDE DEF T
<1>7. Cardinality(Past \cup T) = Cardinality(Past) + Cardinality(T)
  <2>1. Cardinality(Past \cup T) = Cardinality(Past) + Cardinality(T) - Cardinality(Past \cap T)
    BY <1>1, FS_Union
  <2>2. Cardinality(Past \cap T) = 0
    BY <1>3, FS_EmptySet
  <2>3. QED
    BY <1>2, <2>1, <2>2
<1>8. Cardinality(Past \cup T) <= Cardinality(Past') /\ Cardinality(Past) <= Cardinality(Past')
  BY <1>4, FS_Subset
<1>9. QED
  BY <1>2, <1>5, <1>6, <1>7, <1>8 DEF NewRowCount

\* Every step keeps the count.
LEMMA CountNext == IInv /\ CountInv /\ [Next]_vars => CountInv'
<1> SUFFICES ASSUME IInv, CountInv, [Next]_vars
             PROVE  CountInv'
  OBVIOUS
<1>1. IsFiniteSet(docs') /\ Past \subseteq Past'
  BY DocsFinite, PastGrows DEF CountInv
<1>2. IsFiniteSet(Past) /\ IsFiniteSet(Past')
  <2>1. IsFiniteSet(docs) /\ Past \subseteq docs /\ Past' \subseteq docs'
    BY DEF CountInv, Past
  <2>2. QED
    BY <1>1, <2>1, FS_Subset
<1>3. /\ Cardinality(Past) \in Nat /\ Cardinality(Past') \in Nat
      /\ Cardinality(Past) <= Cardinality(Past')
  BY <1>1, <1>2, FS_CardinalityType, FS_Subset
<1>4. /\ rowCount \in Nat /\ rowCount <= Cardinality(Past) /\ seen \in [Runs -> Nat]
      /\ \A s \in Runs : phase[s] = "recording" => seen[s] <= Cardinality(Past)
  BY DEF CountInv, IInv, TypeOK
<1>5. ASSUME rowCount' <= Cardinality(Past'), NEW r \in Runs,
             \A s \in Runs : phase'[s] = "recording" =>
               \/ phase[s] = "recording" /\ seen'[s] = seen[s]
               \/ seen'[s] = rowCount
      PROVE  CountInv'
  <2>1. \A s \in Runs : seen[s] \in Nat
    BY <1>4
  <2>2. \A s \in Runs : phase'[s] = "recording" => seen'[s] <= Cardinality(Past')
    BY <1>3, <1>4, <1>5, <2>1
  <2>3. QED
    BY <1>1, <1>5, <2>2 DEF CountInv
<1>6. CASE UNCHANGED vars
  BY <1>1, <1>6 DEF CountInv, Past, Complete, IndexedAs, vars, runVars, sourceVars
<1>7. ASSUME NEW r \in Runs, Step(r) \/ Raises(r) \/ Crash(r)
      PROVE  CountInv'
  <2>1. \A s \in Runs \ {r} : phase'[s] = phase[s]
    BY <1>7, StepExtends DEF Extends
  <2>2. CASE LoadSource(r)
    <3>1. rowCount' = rowCount /\ seen' = [seen EXCEPT ![r] = rowCount]
      BY <2>2 DEF LoadSource
    <3>2. QED
      BY <1>3, <1>4, <1>5, <2>1, <3>1
  <2>3. CASE RecordRun(r) \/ RecordRaises(r)
    <3>1. /\ phase[r] = "recording" /\ phase'[r] \in Ended /\ seen' = seen
          /\ rowCount' = rowCount \/ rowCount' = NewRowCount(r)
          /\ UNCHANGED <<docs, chunks, hits, graph>>
      BY <2>3 DEF RecordRun, RecordRaises, Abort, Goto, Ended, IInv, TypeOK
    <3>2. NewRowCount(r) <= Cardinality(Past')
      BY <1>1, <1>2, <3>1, RecordCounts
    <3>3. \A s \in Runs : phase'[s] = "recording" => phase[s] = "recording"
      BY <2>1, <3>1 DEF Ended
    <3>4. QED
      BY <1>3, <1>4, <1>5, <3>1, <3>2, <3>3
  <2>4. CASE ~(LoadSource(r) \/ RecordRun(r) \/ RecordRaises(r))
    <3>1. rowCount' = rowCount /\ seen' = seen
      BY <1>7, <2>4 DEF Step, Raises, Crash, Start, NextItem, Fetch, FindDuplicate, Parse, PutBlob,
                InsertDocument, FlushChunks, CommitChunks, ProcessGraph, AnswerUpload, FetchRaises,
                ParseRaises, PersistRaises, IndexRaises, FlowRaises, sourceVars
    <3>2. phase'[r] # "recording"
      BY <1>7, <2>4 DEF Step, Raises, Crash, Start, NextItem, Fetch, FindDuplicate, Parse, PutBlob,
                InsertDocument, FlushChunks, CommitChunks, ProcessGraph, AnswerUpload, FetchRaises,
                ParseRaises, PersistRaises, IndexRaises, FlowRaises, Goto, Return, Abort, Retry,
                IInv, TypeOK
    <3>3. QED
      BY <1>3, <1>4, <1>5, <2>1, <3>1, <3>2
  <2>5. QED
    BY <2>2, <2>3, <2>4
<1>8. QED
  BY <1>6, <1>7 DEF Next

\* No documents, and a catalog that counts none.
LEMMA CountInit == Init => CountInv
<1> SUFFICES ASSUME Init PROVE CountInv
  OBVIOUS
<1>1. docs = {} /\ Past = {} /\ rowCount = 0 /\ \A r \in Runs : phase[r] = "new"
  BY DEF Init, Past
<1>2. QED
  BY <1>1, FS_EmptySet DEF CountInv

\* The catalog never claims more than there are complete documents, however runs overlap:
\* record_run writes what it loaded plus its own, and both were complete by then.
THEOREM CatalogIsNotAhead == Spec => []RowCountNotAhead
<1>1. ASSUME IInv, CountInv
      PROVE  RowCountNotAhead
  <2>1. IsFiniteSet({d \in docs : Complete(d)}) /\ Past \subseteq {d \in docs : Complete(d)}
    BY <1>1, FS_Subset DEF CountInv, Past
  <2>2. IsFiniteSet(Past) /\ Cardinality(Past) <= Cardinality({d \in docs : Complete(d)})
    BY <2>1, FS_Subset
  <2>3. Cardinality(Past) \in Nat /\ Cardinality({d \in docs : Complete(d)}) \in Nat
    BY <2>1, <2>2, FS_CardinalityType
  <2>4. rowCount <= Cardinality(Past) /\ rowCount \in Nat
    BY <1>1 DEF CountInv, IInv, TypeOK
  <2>5. QED
    BY <2>2, <2>3, <2>4 DEF RowCountNotAhead
<1>2. QED
  BY <1>1, CountInit, CountNext, Invariance, PTL DEF Spec

-----------------------------------------------------------------------------
(* The race between lookup and insert is the only way to store a content twice. *)

\* From the duplicate lookup to the commit of the insert there is one run at a time, as a
\* lock around the two would have it.
OneRunPersists ==
  \A r, s \in Runs : phase[r] \in Persisting /\ phase[s] \in Persisting => r = s

\* What a run is about to store, nobody has stored.
FreshInv ==
  lost = LostAcks =>
    /\ OneDocumentPerContent
    /\ \A r \in Runs : phase[r] \in Persisting => Twins(r) = {}

\* Nobody comes to persist a content that the lookup has found.
LEMMA PersistEntry ==
  ASSUME IInv, NEW r \in Runs, Step(r) \/ Raises(r) \/ Crash(r), phase'[r] \in Persisting
  PROVE  results'[r] = results[r] /\ (phase[r] \in Persisting \/ Twins(r) = {})
<1> USE DEF IInv, TypeOK, Goto, Persisting, Phase
<1>1. CASE Parse(r)
  BY <1>1 DEF Parse
<1>2. CASE \/ Start(r) \/ NextItem(r) \/ Fetch(r) \/ LoadSource(r) \/ RecordRun(r)
           \/ AnswerUpload(r) \/ FlowRaises(r) \/ Crash(r) \/ RecordRaises(r)
  BY <1>2 DEF Start, NextItem, Fetch, LoadSource, RecordRun, AnswerUpload, FlowRaises, Crash,
              RecordRaises, Abort
<1>3. CASE PutBlob(r) \/ FlushChunks(r) \/ CommitChunks(r)
  BY <1>3 DEF PutBlob, FlushChunks, CommitChunks
<1>4. CASE FetchRaises(r)
  BY <1>4 DEF FetchRaises, Retry, Return
<1>5. CASE FindDuplicate(r) \/ ParseRaises(r) \/ ProcessGraph(r)
  BY <1>5 DEF FindDuplicate, ParseRaises, ProcessGraph, Return
<1>6. CASE InsertDocument(r)
  BY <1>6 DEF InsertDocument, Return
<1>7. CASE PersistRaises(r)
  BY <1>7 DEF PersistRaises, Retry, Abort
<1>8. CASE IndexRaises(r)
  BY <1>8 DEF IndexRaises, Retry, Abort
<1>9. QED
  BY <1>1, <1>2, <1>3, <1>4, <1>5, <1>6, <1>7, <1>8 DEF Step, Raises

\* A document that is stored while no acknowledgement is lost is stored by its run's insert.
LEMMA OnlyInserts ==
  ASSUME IInv, NEW r \in Runs, Step(r) \/ Raises(r) \/ Crash(r), lost' = lost, docs' # docs
  PROVE  InsertDocument(r)
<1>1. CASE Step(r)
  BY <1>1 DEF Step, Start, NextItem, Fetch, FindDuplicate, Parse, PutBlob, FlushChunks,
              CommitChunks, ProcessGraph, LoadSource, RecordRun, AnswerUpload
<1>2. CASE Raises(r)
  <2>1. CASE PersistRaises(r)
    BY <2>1 DEF PersistRaises, MayLand, LoseAck, IInv, TypeOK
  <2>2. QED
    BY <1>2, <2>1 DEF Raises, FetchRaises, ParseRaises, IndexRaises, RecordRaises, FlowRaises
<1>3. CASE Crash(r)
  BY <1>3 DEF Crash
<1>4. QED
  BY <1>1, <1>2, <1>3

\* FreshInv is inductive as long as one run persists at a time.
LEMMA FreshNext == IInv /\ FreshInv /\ OneRunPersists /\ [Next]_vars => FreshInv'
<1> SUFFICES ASSUME IInv, FreshInv, OneRunPersists, [Next]_vars
             PROVE  FreshInv'
  OBVIOUS
<1>1. CASE UNCHANGED vars
  BY <1>1 DEF FreshInv, OneDocumentPerContent, ContentOf, Twins, ItemOf, Current, vars, runVars
<1>2. ASSUME NEW r \in Runs, Step(r) \/ Raises(r) \/ Crash(r)
      PROVE  FreshInv'
  <2>1. SUFFICES ASSUME lost' = LostAcks
                 PROVE  /\ OneDocumentPerContent'
                        /\ \A s \in Runs : phase'[s] \in Persisting => Twins(s)' = {}
    BY DEF FreshInv
  <2>2. Extends(r)
    BY <1>2, StepExtends
  <2>3. lost = LostAcks
    BY <2>1, <2>2, NoAckLost
  <2>4. OneDocumentPerContent /\ \A s \in Runs : phase[s] \in Persisting => Twins(s) = {}
    BY <2>3 DEF FreshInv
  <2>5. /\ plan' = plan /\ \A d : ContentOf(d)' = ContentOf(d)
        /\ \A s \in Runs \ {r} : phase'[s] = phase[s] /\ results'[s] = results[s]
    BY <2>2 DEF Extends, ContentOf
  <2>6. CASE docs' = docs
    <3>1. OneDocumentPerContent'
      BY <2>4, <2>5, <2>6 DEF OneDocumentPerContent
    <3>2. ASSUME NEW s \in Runs, phase'[s] \in Persisting
          PROVE  Twins(s)' = {}
      <4>1. results'[s] = results[s] /\ Twins(s) = {}
        <5>1. CASE s = r
          BY <1>2, <2>4, <3>2, <5>1, PersistEntry
        <5>2. CASE s # r
          BY <2>4, <2>5, <3>2, <5>2
        <5>3. QED
          BY <5>1, <5>2
      <4>2. QED
        BY <2>5, <2>6, <4>1 DEF Twins, ContentOf, ItemOf, Current
    <3>3. QED
      BY <3>1, <3>2
  <2>7. CASE docs' # docs
    <3>1. InsertDocument(r)
      BY <1>2, <2>1, <2>3, <2>7, OnlyInserts
    <3>2. /\ phase[r] = "inserting" /\ docs' = docs \cup {NewDocument(r)}
          /\ phase'[r] \notin Persisting
      BY <3>1 DEF InsertDocument, Return, Goto, Persisting, IInv, TypeOK
    <3>3. \A d \in docs : ContentOf(d) # ContentOf(NewDocument(r))
      BY <2>4, <3>2 DEF Twins, Persisting, ContentOf, ItemOf, NewDocument
    <3>4. OneDocumentPerContent'
      BY <2>4, <2>5, <3>2, <3>3 DEF OneDocumentPerContent
    <3>5. \A s \in Runs : phase'[s] \notin Persisting
      BY <2>5, <3>2 DEF OneRunPersists, Persisting
    <3>6. QED
      BY <3>4, <3>5
  <2>8. QED
    BY <2>6, <2>7
<1>3. QED
  BY <1>1, <1>2 DEF Next

\* If runs persist one at a time and no acknowledgement is lost, the same content is a
\* duplicate, whoever fetches it and whatever else overlaps and fails.
THEOREM RaceIsTheCause ==
  Spec /\ []OneRunPersists => [](lost = LostAcks => OneDocumentPerContent)
<1>1. Init => FreshInv
  BY DEF Init, FreshInv, OneDocumentPerContent, Persisting
<1>2. FreshInv => (lost = LostAcks => OneDocumentPerContent)
  BY DEF FreshInv
<1>3. QED
  BY <1>1, <1>2, FreshNext, Invariance, PTL DEF Spec

-----------------------------------------------------------------------------
(* Refinement. *)

\* What the variables of DocumentLifecycle stand for.
Active == {Id(d) : d \in {e \in docs : e.status = "active"}}
Quarantined == {Id(d) : d \in {e \in docs : e.status = "quarantined"}}
Searchable == {Id(c.doc) : c \in chunks}
Linked == {Id(c.doc) : c \in {e \in chunks : IndexedAs(e.doc) \subseteq graph}}

LifeVars == <<Active, Quarantined, Searchable, Linked>>

\* An id names one document row.
LEMMA IdInjective ==
  ASSUME IInv, NEW d \in docs, NEW e \in docs, Id(d) = Id(e)
  PROVE  d = e
<1>1. d.run = e.run /\ d.item = e.item /\ d.try = e.try
  BY DEF Id
<1>2. d.status = e.status
  <2>1. d.status \in {"active", "quarantined"} /\ e.status \in {"active", "quarantined"}
    BY DEF IInv, TypeOK, Document
  <2>2. d.status = "active" <=> e.status = "active"
    BY <1>1 DEF IInv, StoreInv
  <2>3. QED
    BY <2>1, <2>2
<1>3. d \in Document /\ e \in Document
  BY DEF IInv, TypeOK
<1>4. /\ d = [run |-> d.run, item |-> d.item, try |-> d.try, status |-> d.status]
      /\ e = [run |-> e.run, item |-> e.item, try |-> e.try, status |-> e.status]
  BY <1>3 DEF Document
<1>5. QED
  BY <1>1, <1>2, <1>4

\* The identity of a document is one DocumentLifecycle knows.
LEMMA IdType ==
  ASSUME IInv, NEW d \in Document, d.item \in DOMAIN plan[d.run].items
  PROVE  Id(d) \in Ids
<1> DEFINE IdsOf(r, p) == [run: {r}, item: DOMAIN p[r].items, try: 1..(Retries + 1)]
<1>1. plan \in Plans /\ d.run \in Runs /\ d.try \in 1..(Retries + 1)
  BY DEF IInv, TypeOK, Document
<1>2. Id(d) \in IdsOf(d.run, plan)
  BY <1>1 DEF Id
<1>3. IdsOf(d.run, plan) \in {IdsOf(r, p) : r \in Runs, p \in Plans}
  <2> HIDE DEF IdsOf
  <2> QED
    BY <1>1
<1>4. Ids = UNION {IdsOf(r, p) : r \in Runs, p \in Plans}
  BY DEF Ids
<1> HIDE DEF IdsOf
<1>5. Id(d) \in UNION {IdsOf(r, p) : r \in Runs, p \in Plans}
  BY <1>2, <1>3
<1>6. QED
  BY <1>4, <1>5

\* A new row has a new id.
LEMMA NewIdIsNew ==
  ASSUME IInv, NEW r \in Runs, phase[r] \in Persisting
  PROVE  \A d \in docs : Id(d) # Id(NewDocument(r))
  BY NewDocumentIsNew DEF Id, NewDocument

\* Inserting a document is a step of DocumentLifecycle or a stutter.
LEMMA StoreStep ==
  ASSUME IInv, NEW r \in Runs, phase[r] = "inserting",
         docs' = docs \cup {NewDocument(r)}, UNCHANGED <<chunks, graph>>
  PROVE  Life!Next
<1>1. PICK d : d = NewDocument(r)
  OBVIOUS
<1>2. Id(d) \in Ids
  <2>1. d \in Document
    BY <1>1, NewDocumentType DEF IInv
  <2>2. d.item \in DOMAIN plan[d.run].items
    BY <1>1 DEF NewDocument, IInv, RunInv, HandInv, Persisting
  <2>3. QED
    BY <2>1, <2>2, IdType
<1>3. \A e \in docs : Id(e) # Id(d)
  BY <1>1, NewIdIsNew DEF Persisting
<1>4. UNCHANGED <<Searchable, Linked>>
  BY DEF Searchable, Linked, IndexedAs, Id
<1>5. CASE d.status = "active"
  <2>1. Active' = Active \cup {Id(d)} /\ Quarantined' = Quarantined
    BY <1>1, <1>5 DEF Active, Quarantined, Id
  <2>2. Life!Store(Id(d))
    BY <1>3, <1>4, <2>1 DEF Life!Store, Active, Quarantined, Searchable, Linked
  <2>3. QED
    BY <1>2, <2>2 DEF Life!Next
<1>6. CASE d.status = "quarantined"
  <2>1. Quarantined' = Quarantined \cup {Id(d)} /\ Active' = Active
    BY <1>1, <1>6 DEF Active, Quarantined, Id
  <2>2. Life!Quarantine(Id(d))
    BY <1>3, <1>4, <2>1 DEF Life!Quarantine, Active, Quarantined, Searchable, Linked
  <2>3. QED
    BY <1>2, <2>2 DEF Life!Next
<1>7. QED
  BY <1>1, <1>5, <1>6 DEF NewDocument

\* Committing chunks is a step of DocumentLifecycle or a stutter.
LEMMA IndexStep ==
  ASSUME IInv, NEW r \in Runs, phase[r] = "committing",
         chunks' = chunks \cup {NewChunks(r)}, UNCHANGED <<docs, graph>>
  PROVE  Life!Next
<1>1. PICK d : d = doc[r]
  OBVIOUS
<1>2. PICK n : n = NewChunks(r)
  OBVIOUS
<1>3. d \in docs /\ d.status = "active" /\ n.doc = d /\ n \notin chunks /\ n \notin graph
      /\ chunks' = chunks \cup {n}
  BY <1>1, <1>2 DEF IInv, RunInv, HandInv, StoreInv, Indexing, NewChunks
<1>4. UNCHANGED <<Active, Quarantined>>
  BY DEF Active, Quarantined, Id
<1>5. Searchable' = Searchable \cup {Id(d)}
  BY <1>3 DEF Searchable, Id
<1>6. Linked' = Linked \ {Id(d)}
  <2>1. \A e : e # d => IndexedAs(e)' = IndexedAs(e)
    BY <1>3 DEF IndexedAs
  <2>2. ~(IndexedAs(d)' \subseteq graph')
    BY <1>3 DEF IndexedAs
  <2>3. \A c \in chunks : c.doc # d => Id(c.doc) # Id(d)
    BY <1>3, IdInjective DEF IInv, StoreInv
  <2>4. \A c \in chunks' : IndexedAs(c.doc)' \subseteq graph' <=>
          c \in chunks /\ c.doc # d /\ IndexedAs(c.doc) \subseteq graph
    BY <1>3, <2>1, <2>2
  <2>5. QED
    BY <1>3, <2>3, <2>4 DEF Linked, Id
<1>7. Life!Index(Id(d))
  BY <1>3, <1>4, <1>5, <1>6 DEF Life!Index, Active, Quarantined, Searchable, Linked
<1>8. d \in Document /\ d.item \in DOMAIN plan[d.run].items
  BY <1>3 DEF IInv, TypeOK, StoreInv
<1>9. QED
  BY <1>7, <1>8, IdType DEF Life!Next

\* Extending the graph is a step of DocumentLifecycle or a stutter.
LEMMA LinkStep ==
  ASSUME IInv, NEW r \in Runs, phase[r] = "graphing", graph' = graph \cup ChunksOf(r),
         UNCHANGED <<docs, chunks>>
  PROVE  Life!Next
<1>1. PICK d : d = doc[r]
  OBVIOUS
<1>2. d \in docs /\ IndexedAs(d) # {} /\ graph' = graph \cup IndexedAs(d)
  <2>1. d \in docs /\ NewChunks(r) \in chunks
    BY <1>1 DEF IInv, RunInv, HandInv, Indexing
  <2>2. NewChunks(r) \in IndexedAs(d)
    BY <1>1, <2>1 DEF IndexedAs, NewChunks
  <2>3. QED
    BY <1>1, <2>1, <2>2 DEF IndexedAs, ChunksOf
<1>3. UNCHANGED <<Active, Quarantined, Searchable>>
  BY DEF Active, Quarantined, Searchable, Id
<1>4. Id(d) \in Searchable
  BY <1>2 DEF IndexedAs, Searchable
<1>5. Linked' = Linked \cup {Id(d)}
  <2>1. \A e : IndexedAs(e)' = IndexedAs(e)
    BY DEF IndexedAs
  <2>2. \A e : IndexedAs(e) \subseteq graph' <=> e = d \/ IndexedAs(e) \subseteq graph
    BY <1>2 DEF IndexedAs
  <2>3. PICK c \in chunks : c.doc = d
    BY <1>2 DEF IndexedAs
  <2>4. QED
    BY <2>1, <2>2, <2>3 DEF Linked, Id
<1>6. Life!Link(Id(d))
  BY <1>3, <1>4, <1>5 DEF Life!Link, Active, Quarantined, Searchable, Linked
<1>7. d \in Document /\ d.item \in DOMAIN plan[d.run].items
  BY <1>2 DEF IInv, TypeOK, StoreInv
<1>8. QED
  BY <1>6, <1>7, IdType DEF Life!Next

\* The initial states are initial states of DocumentLifecycle.
LEMMA LifeInit == Init => Life!Init
  BY DEF Init, Life!Init

\* Every step is a step of DocumentLifecycle or a stutter.
LEMMA LifeStep == IInv /\ [Next]_vars => [Life!Next]_LifeVars
<1> SUFFICES ASSUME IInv, [Next]_vars
             PROVE  [Life!Next]_LifeVars
  OBVIOUS
<1>1. ASSUME UNCHANGED <<docs, chunks, graph>>
      PROVE  UNCHANGED LifeVars
  BY <1>1 DEF LifeVars, Active, Quarantined, Searchable, Linked, Id, IndexedAs
<1>2. ASSUME NEW r \in Runs, Step(r) \/ Raises(r) \/ Crash(r)
      PROVE  \/ UNCHANGED <<docs, chunks, graph>>
             \/ /\ phase[r] = "inserting" /\ docs' = docs \cup {NewDocument(r)}
                /\ UNCHANGED <<chunks, graph>>
             \/ /\ phase[r] = "committing" /\ chunks' = chunks \cup {NewChunks(r)}
                /\ UNCHANGED <<docs, graph>>
             \/ /\ phase[r] = "graphing" /\ graph' = graph \cup ChunksOf(r)
                /\ UNCHANGED <<docs, chunks>>
  <2>1. CASE InsertDocument(r) \/ PersistRaises(r)
    BY <2>1 DEF InsertDocument, PersistRaises, MayLand
  <2>2. CASE CommitChunks(r) \/ ProcessGraph(r) \/ IndexRaises(r)
    BY <2>2 DEF CommitChunks, ProcessGraph, IndexRaises, MayLand
  <2>3. CASE \/ Start(r) \/ NextItem(r) \/ Fetch(r) \/ FindDuplicate(r) \/ Parse(r) \/ PutBlob(r)
             \/ FlushChunks(r) \/ LoadSource(r) \/ RecordRun(r) \/ AnswerUpload(r)
             \/ FetchRaises(r) \/ ParseRaises(r) \/ RecordRaises(r) \/ FlowRaises(r) \/ Crash(r)
    BY <2>3 DEF Start, NextItem, Fetch, FindDuplicate, Parse, PutBlob, FlushChunks, LoadSource,
                RecordRun, AnswerUpload, FetchRaises, ParseRaises, RecordRaises, FlowRaises, Crash
  <2>4. QED
    BY <1>2, <2>1, <2>2, <2>3 DEF Step, Raises
<1>3. ASSUME NEW r \in Runs, Step(r) \/ Raises(r) \/ Crash(r)
      PROVE  Life!Next \/ UNCHANGED LifeVars
  BY <1>1, <1>2, <1>3, StoreStep, IndexStep, LinkStep
<1>4. UNCHANGED vars => UNCHANGED LifeVars
  BY <1>1 DEF vars, runVars
<1>5. QED
  BY <1>3, <1>4 DEF Next

\* Whatever fails, a document row lives the life DocumentLifecycle describes: it is stored
\* before it is searchable, quarantined ones never are, and no commit takes chunks back.
THEOREM Refines == Spec => LifecycleSpec
  BY LifeInit, LifeStep, Invariance, PTL
  DEF Spec, LifecycleSpec, Life!Spec, Life!vars, LifeVars, Active, Quarantined, Searchable, Linked
=============================================================================
