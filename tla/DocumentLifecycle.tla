------------------------- MODULE DocumentLifecycle -------------------------
(***************************************************************************)
(* What a reader of the corpus may rely on about the rows of `documents`,  *)
(* whatever fails while they are ingested: a quarantined document never    *)
(* gets any further, an active one is stored before it is searchable and   *)
(* searchable before the entity graph knows it, and it never becomes       *)
(* unsearchable again.  Only the graph may fall behind once more, when a   *)
(* retry indexes the document a second time.                               *)
(***************************************************************************)
CONSTANT Ids  \* ids of document rows

VARIABLES active,       \* the rows with status "active"
          quarantined,  \* the rows with status "quarantined"
          searchable,   \* the documents with chunk rows
          linked        \* the documents all of whose chunks are in the graph

vars == <<active, quarantined, searchable, linked>>

TypeOK == active \cup quarantined \cup searchable \cup linked \subseteq Ids

Init == /\ active = {}
        /\ quarantined = {}
        /\ searchable = {}
        /\ linked = {}

\* The insert commits, with the status the quality gate decided on.
Store(d) == /\ d \notin active \cup quarantined
            /\ active' = active \cup {d}
            /\ UNCHANGED <<quarantined, searchable, linked>>

Quarantine(d) == /\ d \notin active \cup quarantined
                 /\ quarantined' = quarantined \cup {d}
                 /\ UNCHANGED <<active, searchable, linked>>

\* Chunk rows commit, for the first time or again; the graph does not know them yet.
Index(d) == /\ d \in active
            /\ searchable' = searchable \cup {d}
            /\ linked' = linked \ {d}
            /\ UNCHANGED <<active, quarantined>>

\* The graph catches up.
Link(d) == /\ d \in searchable
           /\ linked' = linked \cup {d}
           /\ UNCHANGED <<active, quarantined, searchable>>

Next == \E d \in Ids : Store(d) \/ Quarantine(d) \/ Index(d) \/ Link(d)

Spec == Init /\ [][Next]_vars
=============================================================================
