----------------------------- MODULE AuditTrail -----------------------------
(***************************************************************************)
(* The audit log of queries and its export to an Iceberg table.            *)
(*                                                                         *)
(* A query's events are flushed into the transaction of its HTTP request,  *)
(* stamped with the time of the flush, and become visible when the request *)
(* commits, after the response is sent.  Authenticating by API key updates *)
(* api_keys.last_used_at first, so requests with one key queue on its row. *)
(* Every worker's scheduler, and an admin route, export what is newer than *)
(* the newest event of the table they loaded; Iceberg accepts an append    *)
(* only onto the snapshot it was prepared from.                            *)
(*                                                                         *)
(* utcnow() never returns the same value twice here: two flushes are a     *)
(* database round trip apart.                                              *)
(***************************************************************************)
EXTENDS Naturals, Sequences, FiniteSets

CONSTANTS Queries,         \* query requests, each its own audit session
          Keys,            \* API keys
          KeyOf,           \* KeyOf[q]: the key query q is sent with
          Exporters,       \* processes that run export_audit_events
          MaxAgentEvents,  \* bound on what an agent query logs in between
          Failures,        \* bound on exporter crashes
          None

ASSUME KeyAssumption == KeyOf \in [Queries -> Keys]
ASSUME BoundAssumption == MaxAgentEvents \in Nat /\ Failures \in Nat
ASSUME NoneAssumption == None \notin Queries

VARIABLES
  clock,    \* the next value of utcnow()
  phase,    \* phase[q]: how far request q has come
  keyLock,  \* keyLock[k]: the request holding the row lock of key k
  flushed,  \* flushed[q]: the events in q's open transaction
  log,      \* the committed rows of audit_events
  table,    \* the Iceberg table: one batch of events per snapshot
  xphase,   \* xphase[x]: where exporter x is
  base,     \* base[x]: the snapshot x loaded, as the number of batches in it
  since,    \* since[x]: the newest created_at x found in it, 0 when empty
  rows,     \* rows[x]: the rows x read to export
  crashes   \* exporter crashes left

queryVars == <<clock, phase, keyLock, flushed, log>>
exportVars == <<table, xphase, base, since, rows, crashes>>
vars == <<queryVars, exportVars>>

\* An agent_event is a tool_call or, at the end of the agent's loop, agent_stopped.
EventType == {"query_opened", "agent_event", "query_closed"}
Event == [session: Queries, type: EventType, stamp: Nat]
QueryPhase == {"waiting", "authenticated", "running", "answered", "done", "rejected", "failed"}
Batches == 1..Len(table)

TypeOK ==
  /\ clock \in Nat \ {0}
  /\ phase \in [Queries -> QueryPhase]
  /\ keyLock \in [Keys -> Queries \cup {None}]
  /\ flushed \in [Queries -> SUBSET Event]
  /\ log \in SUBSET Event
  /\ table \in Seq(SUBSET Event)
  /\ xphase \in [Exporters -> {"idle", "loaded", "read"}]
  /\ base \in [Exporters -> Nat]
  /\ since \in [Exporters -> Nat]
  /\ rows \in [Exporters -> SUBSET Event]
  /\ crashes \in Nat

\* The migration creates audit_events empty, with a trigger that lets rows be added only.
Init ==
  /\ clock = 1
  /\ phase = [q \in Queries |-> "waiting"]
  /\ keyLock = [k \in Keys |-> None]
  /\ flushed = [q \in Queries |-> {}]
  /\ log = {}
  /\ table = <<>>
  /\ xphase = [x \in Exporters |-> "idle"]
  /\ base = [x \in Exporters |-> 0]
  /\ since = [x \in Exporters |-> 0]
  /\ rows = [x \in Exporters |-> {}]
  /\ crashes = Failures

-----------------------------------------------------------------------------
(* A query request. *)

\* Variant: the key is only read, so nothing is locked.
AuthenticateReadOnly(q) ==
  /\ phase[q] = "waiting"
  /\ phase' = [phase EXCEPT ![q] = "authenticated"]
  /\ UNCHANGED <<clock, keyLock, flushed, log, exportVars>>

\* The key's row is updated and stays locked until the request's transaction ends.
Authenticate(q) ==
  /\ phase[q] = "waiting"
  /\ keyLock[KeyOf[q]] = None
  /\ keyLock' = [keyLock EXCEPT ![KeyOf[q]] = q]
  /\ phase' = [phase EXCEPT ![q] = "authenticated"]
  /\ UNCHANGED <<clock, flushed, log, exportVars>>

\* Variant: the event forgets its session.
LogWithoutSession(q, type) ==
  /\ flushed' = [flushed EXCEPT ![q] = @ \cup {[session |-> None, type |-> type, stamp |-> clock]}]
  /\ clock' = clock + 1

\* log_event: the row is added and flushed, not committed.
LogEvent(q, type) ==
  /\ flushed' = [flushed EXCEPT ![q] = @ \cup {[session |-> q, type |-> type, stamp |-> clock]}]
  /\ clock' = clock + 1

\* open_session; planning, retrieval and the LLM come after it.
OpenSession(q) ==
  /\ phase[q] = "authenticated"
  /\ LogEvent(q, "query_opened")
  /\ phase' = [phase EXCEPT ![q] = "running"]
  /\ UNCHANGED <<keyLock, log, exportVars>>

AgentEvents(q) == {e \in flushed[q] : e.type = "agent_event"}

\* run_agent logs each tool call before it dispatches it, and why it stopped.
LogAgentEvent(q) ==
  /\ phase[q] = "running"
  /\ Cardinality(AgentEvents(q)) < MaxAgentEvents
  /\ LogEvent(q, "agent_event")
  /\ UNCHANGED <<phase, keyLock, log, exportVars>>

\* close_session, after which the route returns and the response is sent.
CloseSession(q) ==
  /\ phase[q] = "running"
  /\ LogEvent(q, "query_closed")
  /\ phase' = [phase EXCEPT ![q] = "answered"]
  /\ UNCHANGED <<keyLock, log, exportVars>>

\* The end of q's transaction: its events land in the log or are gone.
EndRequest(q, outcome, landed) ==
  /\ phase' = [phase EXCEPT ![q] = outcome]
  /\ log' = log \cup landed
  /\ flushed' = [flushed EXCEPT ![q] = {}]
  /\ keyLock' = [keyLock EXCEPT ![KeyOf[q]] = None]
  /\ UNCHANGED <<clock, exportVars>>

CommitRequest(q) == phase[q] = "answered" /\ EndRequest(q, "done", flushed[q])

\* A search, the LLM or a tool raised, the commit failed or the process died.
FailRequest(q) == phase[q] \in {"running", "answered"} /\ EndRequest(q, "failed", {})

\* The kill switch, the rate limit or the request body stopped it before a session was opened.
RejectRequest(q) == phase[q] = "authenticated" /\ EndRequest(q, "rejected", {})

-----------------------------------------------------------------------------
(* export_audit_events. *)

\* Variant: the time of the run as the bookmark.
IsNow(m, n) == m = clock

\* m is the newest created_at of the first n batches, 0 when they hold no event.
IsNewest(m, n) ==
  /\ \A i \in 1..n : \A e \in table[i] : e.stamp <= m
  /\ m = 0 \/ \E i \in 1..n : \E e \in table[i] : e.stamp = m

\* Load the table and scan that snapshot for its newest created_at.
LoadTable(x) ==
  /\ xphase[x] = "idle"
  /\ base' = [base EXCEPT ![x] = Len(table)]
  /\ \E m \in 0..clock : IsNewest(m, Len(table)) /\ since' = [since EXCEPT ![x] = m]
  /\ xphase' = [xphase EXCEPT ![x] = "loaded"]
  /\ UNCHANGED <<queryVars, table, rows, crashes>>

\* Variant: >= instead of >.
NotOlder(x) == {e \in log : e.stamp >= since[x]}

\* The committed rows that are newer.
Newer(x) == {e \in log : e.stamp > since[x]}

\* Query them; with none to export the run ends here.
ReadRows(x) ==
  /\ xphase[x] = "loaded"
  /\ rows' = [rows EXCEPT ![x] = Newer(x)]
  /\ xphase' = [xphase EXCEPT ![x] = IF Newer(x) = {} THEN "idle" ELSE "read"]
  /\ UNCHANGED <<queryVars, table, base, since, crashes>>

\* The snapshot x loaded is still the table's current one.
SnapshotIsCurrent(x) == base[x] = Len(table)

\* table.append: Iceberg commits the batch if the loaded snapshot is still the current one
\* and raises otherwise; the next run of the schedule starts over.
AppendBatch(x) ==
  /\ xphase[x] = "read"
  /\ table' = IF SnapshotIsCurrent(x) THEN Append(table, rows[x]) ELSE table
  /\ xphase' = [xphase EXCEPT ![x] = "idle"]
  /\ UNCHANGED <<queryVars, base, since, rows, crashes>>

\* The exporting process dies; only a committed snapshot survives it.
CrashExport(x) ==
  /\ xphase[x] # "idle"
  /\ crashes > 0
  /\ crashes' = crashes - 1
  /\ xphase' = [xphase EXCEPT ![x] = "idle"]
  /\ UNCHANGED <<queryVars, table, base, since, rows>>

-----------------------------------------------------------------------------
Request(q) == Authenticate(q) \/ OpenSession(q) \/ LogAgentEvent(q) \/ CloseSession(q)
              \/ CommitRequest(q)
Export(x) == LoadTable(x) \/ ReadRows(x) \/ AppendBatch(x)

Next == \/ \E q \in Queries : Request(q) \/ FailRequest(q) \/ RejectRequest(q)
        \/ \E x \in Exporters : Export(x) \/ CrashExport(x)

Spec == Init /\ [][Next]_vars

\* Requests run to their end and the schedulers keep firing.
FairSpec == Spec /\ (\A q \in Queries : WF_vars(Request(q)))
                 /\ (\A x \in Exporters : WF_vars(Export(x)))

-----------------------------------------------------------------------------
Exported == UNION {table[i] : i \in Batches}

\* No event is exported twice, although every worker replica exports on its own schedule
\* and an export that crashed is run again.
NoDuplicateExport == \A i, j \in Batches : i # j => table[i] \cap table[j] = {}

\* The batches follow each other in time: an append never reaches back behind the newest
\* event of the snapshot it extends.
BatchesInOrder ==
  \A i, j \in Batches : i < j => \A d \in table[i], e \in table[j] : d.stamp < e.stamp

\* The mark of the last export passes over no event that was committed or may still be
\* (iceberg_export.py: "Appends every audit_events row not already present").
NothingSkipped ==
  \A e \in log \cup UNION {flushed[q] : q \in Queries} :
    e \in Exported \/ \A d \in Exported : d.stamp < e.stamp

\* Every event of an answered and committed query reaches the Iceberg table.
CommittedReachesIceberg ==
  \A q \in Queries : phase[q] = "done" ~> \A e \in log : e.session = q => e \in Exported
=============================================================================
