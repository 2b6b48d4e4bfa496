-------------------------- MODULE AuditTrailProofs --------------------------
(***************************************************************************)
(* Safety of the Iceberg export for any queries, keys and exporters.       *)
(***************************************************************************)
EXTENDS AuditTrail, TLAPS

\* since[x] bounds the batches x loaded, and x only holds rows that are newer.
ExporterInv(x) ==
  /\ base[x] <= Len(table)
  /\ xphase[x] # "idle" => \A i \in 1..base[x] : \A e \in table[i] : e.stamp <= since[x]
  /\ xphase[x] = "read" => \A e \in rows[x] : e.stamp > since[x]

IInv == TypeOK /\ BatchesInOrder /\ \A x \in Exporters : ExporterInv(x)

-----------------------------------------------------------------------------
\* IInv holds at first.
LEMMA InitIInv == Init => IInv
  BY KeyAssumption, BoundAssumption
  DEF Init, IInv, TypeOK, BatchesInOrder, Batches, ExporterInv, QueryPhase

\* A request step leaves the exporters and the table alone.
LEMMA RequestIInv ==
  ASSUME IInv, NEW q \in Queries, Request(q) \/ FailRequest(q) \/ RejectRequest(q)
  PROVE  IInv'
<1> USE DEF exportVars
<1>1. UNCHANGED exportVars
  BY DEF Request, Authenticate, OpenSession, LogAgentEvent, CloseSession, CommitRequest,
         FailRequest, RejectRequest, EndRequest
<1>2. TypeOK'
  <2> USE KeyAssumption DEF IInv, TypeOK, QueryPhase, Event, EventType
  <2>1. CASE Authenticate(q)
    BY <2>1 DEF Authenticate
  <2>2. CASE OpenSession(q) \/ LogAgentEvent(q) \/ CloseSession(q)
    <3>1. PICK type \in EventType : LogEvent(q, type)
      BY <2>2 DEF OpenSession, LogAgentEvent, CloseSession
    <3>2. [session |-> q, type |-> type, stamp |-> clock] \in Event
      OBVIOUS
    <3>3. flushed' \in [Queries -> SUBSET Event] /\ clock' \in Nat \ {0}
      BY <3>1, <3>2 DEF LogEvent
    <3>4. QED
      BY <2>2, <3>3 DEF OpenSession, LogAgentEvent, CloseSession
  <2>3. CASE CommitRequest(q) \/ FailRequest(q) \/ RejectRequest(q)
    BY <2>3 DEF CommitRequest, FailRequest, RejectRequest, EndRequest
  <2>4. QED
    BY <2>1, <2>2, <2>3 DEF Request
<1>3. QED
  BY <1>1, <1>2 DEF IInv, BatchesInOrder, Batches, ExporterInv

\* A step of an exporter preserves IInv.
LEMMA ExportIInv ==
  ASSUME IInv, NEW x \in Exporters, Export(x) \/ CrashExport(x)
  PROVE  IInv'
<1> USE DEF IInv, queryVars
<1>1. CASE LoadTable(x)
  <2>1. PICK m \in 0..clock : /\ IsNewest(m, Len(table))
                              /\ since' = [since EXCEPT ![x] = m]
    BY <1>1 DEF LoadTable
  <2>2. Len(table) \in Nat /\ m \in Nat
    BY <2>1 DEF TypeOK
  <2>3. TypeOK'
    BY <1>1, <2>1, <2>2 DEF LoadTable, TypeOK
  <2>4. \A y \in Exporters : ExporterInv(y)'
    BY <1>1, <2>1, <2>2 DEF LoadTable, IsNewest, TypeOK, ExporterInv
  <2>5. BatchesInOrder'
    BY <1>1 DEF LoadTable, BatchesInOrder, Batches
  <2>6. QED
    BY <2>3, <2>4, <2>5
<1>2. CASE ReadRows(x)
  BY <1>2 DEF ReadRows, Newer, TypeOK, BatchesInOrder, Batches, ExporterInv
<1>3. CASE AppendBatch(x)
  <2>1. CASE base[x] # Len(table)
    BY <1>3, <2>1 DEF AppendBatch, SnapshotIsCurrent, TypeOK, BatchesInOrder, Batches, ExporterInv
  <2>2. CASE base[x] = Len(table)
    <3>1. /\ table' = Append(table, rows[x])
          /\ rows[x] \in SUBSET Event
          /\ UNCHANGED <<base, since, rows>>
      BY <1>3, <2>2 DEF AppendBatch, SnapshotIsCurrent, TypeOK
    <3>2. /\ table' \in Seq(SUBSET Event)
          /\ Len(table') = Len(table) + 1
          /\ table'[Len(table) + 1] = rows[x]
          /\ \A i \in 1..Len(table) : table'[i] = table[i]
      BY <3>1 DEF TypeOK
    <3>3. \A d \in rows[x] : \A i \in 1..Len(table) : \A e \in table[i] : e.stamp < d.stamp
      <4> SUFFICES ASSUME NEW d \in rows[x], NEW i \in 1..Len(table), NEW e \in table[i]
                   PROVE  e.stamp < d.stamp
        OBVIOUS
      <4>1. e.stamp <= since[x] /\ d.stamp > since[x]
        BY <1>3, <2>2 DEF AppendBatch, SnapshotIsCurrent, ExporterInv
      <4>2. e \in Event /\ d \in Event /\ since[x] \in Nat
        BY <3>1 DEF TypeOK
      <4>3. e.stamp \in Nat /\ d.stamp \in Nat
        BY <4>2 DEF Event
      <4>4. QED
        BY <4>1, <4>2, <4>3
    <3>4. BatchesInOrder'
      <4> SUFFICES ASSUME NEW i \in 1..(Len(table) + 1), NEW j \in 1..(Len(table) + 1), i < j,
                          NEW d \in table'[i], NEW e \in table'[j]
                   PROVE  d.stamp < e.stamp
        BY <3>2 DEF BatchesInOrder, Batches
      <4>1. Len(table) \in Nat
        BY DEF TypeOK
      <4>2. i \in 1..Len(table) /\ table'[i] = table[i]
        BY <3>2, <4>1
      <4>3. CASE j = Len(table) + 1
        <5>1. d \in table[i] /\ e \in rows[x]
          BY <3>2, <4>2, <4>3
        <5>2. QED
          BY <3>3, <4>2, <5>1
      <4>4. CASE j # Len(table) + 1
        <5>1. j \in 1..Len(table) /\ table'[j] = table[j]
          BY <3>2, <4>1, <4>4
        <5>2. QED
          BY <4>2, <5>1 DEF BatchesInOrder, Batches
      <4>5. QED
        BY <4>3, <4>4
    <3>5. TypeOK'
      BY <1>3, <3>2 DEF AppendBatch, SnapshotIsCurrent, TypeOK
    <3>6. \A y \in Exporters : ExporterInv(y)'
      BY <1>3, <3>1, <3>2 DEF AppendBatch, SnapshotIsCurrent, ExporterInv, TypeOK
    <3>7. QED
      BY <3>4, <3>5, <3>6
  <2>3. QED
    BY <2>1, <2>2
<1>4. CASE CrashExport(x)
  BY <1>4 DEF CrashExport, TypeOK, BatchesInOrder, Batches, ExporterInv
<1>5. QED
  BY <1>1, <1>2, <1>3, <1>4 DEF Export

\* Every step preserves IInv.
LEMMA NextIInv == IInv /\ [Next]_vars => IInv'
<1>1. ASSUME IInv, UNCHANGED vars
      PROVE  IInv'
  BY <1>1 DEF IInv, TypeOK, BatchesInOrder, Batches, ExporterInv, vars, queryVars, exportVars
<1>2. QED
  BY <1>1, RequestIInv, ExportIInv DEF Next

\* IInv is an invariant.
THEOREM Inductive == Spec => []IInv
  BY InitIInv, NextIInv, PTL DEF Spec

\* Every variable keeps its type.
THEOREM TypeCorrect == Spec => []TypeOK
<1>1. IInv => TypeOK
  BY DEF IInv
<1>2. QED
  BY <1>1, Inductive, PTL

\* The Iceberg table stays in the order of created_at, batch after batch.
THEOREM OrderCorrect == Spec => []BatchesInOrder
<1>1. IInv => BatchesInOrder
  BY DEF IInv
<1>2. QED
  BY <1>1, Inductive, PTL

\* However many replicas export, crash and run again, no event is exported twice.
THEOREM ExportsOnce == Spec => []NoDuplicateExport
<1>1. IInv => NoDuplicateExport
  <2> SUFFICES ASSUME IInv, NEW i \in Batches, NEW j \in Batches, i # j,
                      NEW e \in table[i], e \in table[j]
               PROVE  FALSE
    BY DEF NoDuplicateExport
  <2>1. e \in Event /\ e.stamp \in Nat
    BY DEF IInv, TypeOK, Batches, Event
  <2>2. CASE i < j
    BY <2>1, <2>2 DEF IInv, BatchesInOrder
  <2>3. CASE j < i
    BY <2>1, <2>3 DEF IInv, BatchesInOrder
  <2>4. QED
    BY <2>2, <2>3 DEF Batches, IInv, TypeOK
<1>2. QED
  BY <1>1, Inductive, PTL

-----------------------------------------------------------------------------
(* With one API key the requests queue on its row, and the export is complete. *)

Known == log \cup UNION {flushed[q] : q \in Queries}

InTransaction(q) == phase[q] \in {"authenticated", "running", "answered"}

\* Open transactions hold the key, and flush only while they do.
KeyInv == \A q \in Queries : /\ InTransaction(q) => keyLock[KeyOf[q]] = q
                             /\ flushed[q] # {} => InTransaction(q)

\* What is flushed is younger than what is committed, and nothing is from the future.
StampInv == /\ \A e \in Known : 0 < e.stamp /\ e.stamp < clock
            /\ \A q \in Queries : \A e \in flushed[q], d \in log : d.stamp < e.stamp

\* since[x] is the stamp of an event of the snapshot, and the rows read leave out nothing
\* between it and their newest.
ReadInv(x) ==
  /\ xphase[x] # "idle" =>
       since[x] = 0 \/ \E i \in 1..base[x] : \E d \in table[i] : d.stamp = since[x]
  /\ xphase[x] = "read" =>
       /\ rows[x] \subseteq log
       /\ \A e \in Known : e.stamp > since[x] =>
            e \in rows[x] \/ \A d \in rows[x] : d.stamp < e.stamp

SkipInv == /\ KeyInv
           /\ StampInv
           /\ \A i \in Batches : table[i] \subseteq log
           /\ \A x \in Exporters : ReadInv(x)
           /\ NothingSkipped

OneKey == \A p, q \in Queries : KeyOf[p] = KeyOf[q]

\* SkipInv holds at first.
LEMMA InitSkipInv == Init => SkipInv
  BY DEF Init, SkipInv, KeyInv, InTransaction, StampInv, ReadInv, NothingSkipped, Known, Batches,
         Exported

\* A flush inside the one open transaction.
LEMMA FlushSkipInv ==
  ASSUME IInv, SkipInv, NEW q \in Queries, NEW type \in EventType, LogEvent(q, type),
         phase[q] \in {"authenticated", "running"},
         \E next \in {"running", "answered"} : phase' = [phase EXCEPT ![q] = next],
         UNCHANGED <<keyLock, log, exportVars>>
  PROVE  SkipInv'
<1> DEFINE new == [session |-> q, type |-> type, stamp |-> clock]
<1> USE DEF exportVars
<1>1. /\ flushed' = [flushed EXCEPT ![q] = flushed[q] \cup {new}]
      /\ flushed' \in [Queries -> SUBSET Event]
      /\ clock \in Nat \ {0}
      /\ clock' = clock + 1
      /\ new.stamp = clock
  BY DEF LogEvent, IInv, TypeOK, Event
<1>2. Known' = Known \cup {new}
  BY <1>1 DEF Known, IInv, TypeOK
<1>3. KeyInv'
  BY <1>1 DEF SkipInv, KeyInv, InTransaction, IInv, TypeOK
<1>4. Known \subseteq Event /\ log \subseteq Known /\ \A e \in Event : e.stamp \in Nat
  BY DEF Known, IInv, TypeOK, Event
<1>5. StampInv'
  BY <1>1, <1>2, <1>4 DEF SkipInv, StampInv, IInv, TypeOK
<1>6. \A d \in log : d.stamp < new.stamp
  BY <1>1, <1>4 DEF SkipInv, StampInv
<1>7. \A x \in Exporters : ReadInv(x)'
  BY <1>2, <1>6 DEF SkipInv, ReadInv
<1>8. Exported \subseteq log
  BY DEF SkipInv, Exported
<1>9. NothingSkipped'
  BY <1>2, <1>6, <1>8 DEF SkipInv, NothingSkipped, Known, Exported, Batches
<1>10. QED
  BY <1>3, <1>5, <1>7, <1>9 DEF SkipInv, Batches

\* The end of the one open transaction.
LEMMA EndSkipInv ==
  ASSUME OneKey, IInv, SkipInv, NEW q \in Queries, InTransaction(q),
         NEW outcome \in {"done", "failed", "rejected"}, NEW landed \in {{}, flushed[q]},
         EndRequest(q, outcome, landed)
  PROVE  SkipInv'
<1> USE DEF exportVars
<1>1. ASSUME NEW p \in Queries, p # q
      PROVE  ~InTransaction(p) /\ flushed[p] = {} /\ phase'[p] = phase[p] /\ flushed'[p] = {}
  <2>1. phase'[p] = phase[p] /\ flushed'[p] = flushed[p]
    BY <1>1 DEF EndRequest, IInv, TypeOK
  <2>2. keyLock[KeyOf[q]] = q /\ KeyOf[p] = KeyOf[q]
    BY DEF OneKey, SkipInv, KeyInv
  <2>3. ~InTransaction(p) /\ flushed[p] = {}
    BY <1>1, <2>2 DEF SkipInv, KeyInv
  <2>4. QED
    BY <2>1, <2>3
<1>2. flushed'[q] = {} /\ phase'[q] = outcome
  BY DEF EndRequest, IInv, TypeOK
<1>3. KeyInv'
  BY <1>1, <1>2 DEF KeyInv, InTransaction
<1>4. Known' \subseteq Known /\ log' = log \cup landed /\ log \subseteq log' /\ log' \subseteq Known'
  BY <1>1, <1>2 DEF Known, EndRequest
<1>5. StampInv'
  BY <1>1, <1>2, <1>4 DEF SkipInv, StampInv, EndRequest
<1>6. \A x \in Exporters : ReadInv(x)'
  BY <1>4 DEF SkipInv, ReadInv, EndRequest
<1>7. NothingSkipped'
  BY <1>4 DEF SkipInv, NothingSkipped, Known, Exported, Batches, EndRequest
<1>8. QED
  BY <1>3, <1>4, <1>5, <1>6, <1>7 DEF SkipInv, Batches, EndRequest

\* A step of a request preserves SkipInv.
LEMMA RequestSkipInv ==
  ASSUME OneKey, IInv, SkipInv, NEW q \in Queries, Request(q) \/ FailRequest(q) \/ RejectRequest(q)
  PROVE  SkipInv'
<1>1. CASE Authenticate(q)
  <2>1. KeyInv'
    <3>1. keyLock[KeyOf[q]] = None /\ keyLock'[KeyOf[q]] = q /\ flushed' = flushed
      BY <1>1, KeyAssumption DEF Authenticate, IInv, TypeOK
    <3>2. \A p \in Queries : ~InTransaction(p) /\ flushed[p] = {}
      BY <3>1, NoneAssumption DEF OneKey, SkipInv, KeyInv
    <3>3. QED
      BY <1>1, <3>1, <3>2 DEF Authenticate, KeyInv, InTransaction, IInv, TypeOK
  <2>2. QED
    BY <1>1, <2>1 DEF Authenticate, exportVars, SkipInv, StampInv, ReadInv, NothingSkipped, Known,
                      Batches, Exported
<1>2. CASE OpenSession(q) \/ LogAgentEvent(q) \/ CloseSession(q)
  <2>1. LogAgentEvent(q) => phase' = [phase EXCEPT ![q] = "running"]
    BY DEF LogAgentEvent, IInv, TypeOK
  <2>2. QED
    BY <1>2, <2>1, FlushSkipInv DEF OpenSession, LogAgentEvent, CloseSession, EventType
<1>3. CASE CommitRequest(q) \/ FailRequest(q) \/ RejectRequest(q)
  BY <1>3, EndSkipInv DEF CommitRequest, FailRequest, RejectRequest, InTransaction
<1>4. QED
  BY <1>1, <1>2, <1>3 DEF Request

\* A step of an exporter preserves SkipInv.
LEMMA ExportSkipInv ==
  ASSUME IInv, SkipInv, NEW x \in Exporters, Export(x) \/ CrashExport(x)
  PROVE  SkipInv'
<1> USE DEF queryVars
<1>0. /\ UNCHANGED queryVars
      /\ KeyInv' /\ StampInv' /\ Known' = Known
  BY DEF Export, LoadTable, ReadRows, AppendBatch, CrashExport, SkipInv, KeyInv, InTransaction,
         StampInv, Known
<1>t. /\ Known \subseteq Event /\ log \subseteq Known /\ \A e \in Event : e.stamp \in Nat
      /\ \A y \in Exporters : since[y] \in Nat
  BY DEF Known, IInv, TypeOK, Event
<1>1. CASE LoadTable(x)
  <2>1. \A y \in Exporters : ReadInv(y)'
    BY <1>0, <1>1 DEF LoadTable, IsNewest, SkipInv, ReadInv, IInv, TypeOK
  <2>2. QED
    BY <1>0, <1>1, <2>1 DEF LoadTable, SkipInv, NothingSkipped, Batches, Exported
<1>2. CASE ReadRows(x)
  <2>1. ReadInv(x)'
    <3>1. /\ rows'[x] = Newer(x)
          /\ since' = since /\ base' = base /\ table' = table
          /\ xphase[x] = "loaded"
      BY <1>2 DEF ReadRows, IInv, TypeOK
    <3>2. ASSUME NEW e \in Known, e.stamp > since[x], e \notin Newer(x)
          PROVE  \A d \in Newer(x) : d.stamp < e.stamp
      <4>1. e \notin log
        BY <3>2 DEF Newer
      <4>2. PICK q \in Queries : e \in flushed[q]
        BY <4>1 DEF Known
      <4>3. QED
        BY <4>2 DEF SkipInv, StampInv, Newer
    <3>3. QED
      BY <1>0, <3>1, <3>2 DEF SkipInv, ReadInv, Newer
  <2>2. \A y \in Exporters : ReadInv(y)'
    BY <1>0, <1>2, <2>1 DEF ReadRows, SkipInv, ReadInv, IInv, TypeOK
  <2>3. QED
    BY <1>0, <1>2, <2>2 DEF ReadRows, SkipInv, NothingSkipped, Batches, Exported
<1>3. CASE AppendBatch(x) /\ base[x] = Len(table)
  <2>1. /\ table' = Append(table, rows[x])
        /\ rows[x] \in SUBSET Event
        /\ UNCHANGED <<base, since, rows>>
        /\ xphase' = [xphase EXCEPT ![x] = "idle"]
        /\ xphase[x] = "read"
    BY <1>3 DEF AppendBatch, SnapshotIsCurrent, IInv, TypeOK
  <2>2. /\ Len(table) \in Nat
        /\ Len(table') = Len(table) + 1
        /\ table'[Len(table) + 1] = rows[x]
        /\ \A i \in 1..Len(table) : table'[i] = table[i]
    BY <2>1 DEF IInv, TypeOK
  <2>3. Exported' = Exported \cup rows[x]
    BY <2>2 DEF Exported, Batches
  <2>4. \A i \in Batches' : table'[i] \subseteq log'
    BY <1>0, <2>1, <2>2 DEF SkipInv, Batches, ReadInv
  <2>5. \A y \in Exporters : ReadInv(y)'
    <3> SUFFICES ASSUME NEW y \in Exporters
                 PROVE  ReadInv(y)'
      OBVIOUS
    <3>1. CASE y = x
      BY <2>1, <3>1 DEF ReadInv, IInv, TypeOK
    <3>2. CASE y # x
      <4>1. xphase'[y] = xphase[y] /\ base[y] \in 0..Len(table)
        BY <2>1, <2>2, <3>2 DEF IInv, TypeOK, ExporterInv
      <4>2. \A i \in 1..base[y] : table'[i] = table[i]
        BY <2>2, <4>1
      <4>3. QED
        BY <1>0, <2>1, <4>1, <4>2 DEF SkipInv, ReadInv
    <3>3. QED
      BY <3>1, <3>2
  <2>6. NothingSkipped'
    <3> SUFFICES ASSUME NEW e \in Known, e \notin Exported'
                 PROVE  \A d \in Exported' : d.stamp < e.stamp
      BY <1>0 DEF NothingSkipped, Known
    <3>1. e \notin Exported /\ e \notin rows[x]
      BY <2>3
    <3>2. \A d \in Exported : d.stamp < e.stamp
      BY <3>1 DEF SkipInv, NothingSkipped, Known
    <3>3. e.stamp \in Nat /\ since[x] \in Nat /\ 0 < e.stamp
      BY <1>t DEF SkipInv, StampInv
    <3>4. since[x] = 0 \/ \E d \in Exported : d.stamp = since[x]
      BY <1>3, <2>1 DEF SkipInv, ReadInv, Exported, Batches
    <3>5. e.stamp > since[x]
      BY <3>2, <3>3, <3>4
    <3>6. \A d \in rows[x] : d.stamp < e.stamp
      BY <2>1, <3>1, <3>5 DEF SkipInv, ReadInv
    <3>7. QED
      BY <2>3, <3>2, <3>6
  <2>7. QED
    BY <1>0, <2>4, <2>5, <2>6 DEF SkipInv
<1>4. CASE CrashExport(x) \/ (AppendBatch(x) /\ base[x] # Len(table))
  <2>1. \A y \in Exporters : ReadInv(y)'
    BY <1>0, <1>4 DEF CrashExport, AppendBatch, SnapshotIsCurrent, SkipInv, ReadInv, IInv, TypeOK
  <2>2. QED
    BY <1>0, <1>4, <2>1 DEF CrashExport, AppendBatch, SnapshotIsCurrent, SkipInv, NothingSkipped, Batches, Exported
<1>5. QED
  BY <1>1, <1>2, <1>3, <1>4 DEF Export

\* In a deployment whose queries all use one API key, the row lock of that key orders the
\* transactions, and the export never passes over an event.
THEOREM OneKeyExportComplete ==
  ASSUME OneKey
  PROVE  Spec => []NothingSkipped
<1>1. IInv /\ SkipInv /\ [Next]_vars => SkipInv'
  <2>1. ASSUME SkipInv, UNCHANGED vars
        PROVE  SkipInv'
    BY <2>1 DEF SkipInv, KeyInv, InTransaction, StampInv, ReadInv, NothingSkipped, Known, Batches,
                Exported, vars, queryVars, exportVars
  <2>2. QED
    BY <2>1, RequestSkipInv, ExportSkipInv DEF Next
<1>2. SkipInv => NothingSkipped
  BY DEF SkipInv
<1>3. QED
  BY <1>1, <1>2, InitSkipInv, Inductive, PTL DEF Spec

=============================================================================
