# Cranus in TLA+

Formal models of [Cranus](../src/README.md), a corpus platform that ingests documents from
connectors and uploads, builds a search index and an entity graph from them, answers queries
with citations, and audits every query. The models are translated from the Python code under
`src/src/cranus`; they are checked by TLC on small instances and, where the theorems say so,
proved by TLAPS for every value of the constants.

Contents: [inventory](#1-inventory) · [modules](#2-the-modules) · [runs](#3-the-runs) ·
[fairness](#4-fairness) · [proofs](#5-the-proofs) · [findings](#6-where-the-code-and-its-words-differ) ·
[limits](#7-what-the-models-leave-out) · [plan](#8-plan)

## 1. Inventory

Paths are relative to `src/src/cranus`.

### Processes and what they share

| process | code | shares |
|---|---|---|
| API server (FastAPI) | `api/` | Postgres; produces to Kafka; Neo4j, OpenSearch and the blob store during uploads and queries |
| worker, any number of replicas | `worker/main.py` | Postgres (job rows), the Kafka topic, blob store, OpenSearch, Neo4j |
| scheduler threads inside every worker | `worker/scheduler.py` | Postgres, the Iceberg table |
| CLI | `cli.py` | Postgres |

Every request and every unit of work runs in one session of `storage/db.py:sync_session`, which
commits when its block ends and rolls back when it raises. The request session is a FastAPI
dependency: it commits **after** the response was sent. Read Committed isolation and the row
locks of `UPDATE` and `SELECT ... FOR UPDATE SKIP LOCKED` are all the concurrency control there
is. Several writes go elsewhere while the transaction is still open: the Kafka message, the
OpenSearch documents, the Neo4j nodes and edges, the blob.

### Components

| component | state | operations | what is hard | what makes it correct |
|---|---|---|---|---|
| **Job dispatch** `worker/jobs.py`, `worker/kafka_queue.py`, `worker/main.py`, `api/routers/admin_connectors.py` | `ingestion_jobs` rows (status, locked_by), the topic and its committed offsets | create + publish, claim (oldest, or by id), run, finish, commit the offset | several workers; publish before commit; redelivery, rebalance; crash between any two transactions; a commit whose acknowledgement is lost | a job's connector is started at most once; a row is ended only by the worker that started it; a committed job is not forgotten |
| **Ingestion pipeline** `ingestion/pipeline.py`, `retrieval/index.py`, `storage/catalog.py`, `storage/blobstore.py` | `documents`, `chunks`, blobs, the OpenSearch index, `sources.row_count` | fetch, look up duplicates, parse, persist, index, graph, record the run | tasks retried as a whole over sessions that commit one by one; overlapping runs; external writes inside open transactions | only what passed the quality gate is retrievable; "ingested" is never said of an incomplete document; nothing is stored twice |
| **Audit trail** `governance/audit.py`, `storage/iceberg_export.py` | `audit_events` rows, the Iceberg table | open, log, close a session; export what is newer than the table | stamped at flush, visible at commit; every replica exports; optimistic Iceberg commits | each committed event is exported, once, in order |
| **Entity graph** `graph/pipeline.py`, `graph/repository.py`, `graph/sync.py` | `entities`, `edges`, `entity_mentions`, `edge_candidates`, Neo4j | resolve a mention (exact, fuzzy, new), promote edge candidates, mirror | concurrent documents naming the same thing; read-modify-write of array columns; mirror before commit | one entity per name; evidence is not lost; the mirror agrees with Postgres |
| **Entity review and batch resolution** `graph/entity_resolution/`, `api/routers/entity_review.py` | `entity_resolution_reviews`, `entities`, `edges` | queue, decide, merge; scheduled Splink pass | merges against concurrent ingestion; deciding twice; re-queueing what was rejected | a merge loses no edge or mention; a decision is final |
| **Agent loop** `agent/loop.py`, `agent/guardrails.py`, `agent/tools.py` | messages, steps, spent tokens, calls made | plan, dispatch a tool, observe, stop | unknown tools and repeated calls; budgets | it stops within its budgets whatever the model proposes; no call is executed twice; the answer cites what was gathered |
| **Query pipeline** `query/pipeline.py`, `query/verify.py`, `query/planner.py` | a request's chunks, filters, citations | understand, plan, retrieve, de-duplicate, generate, verify, render | the corpus grows between a search and the metadata read; graph lookups use their own session | no internal-only chunk for a caller without the role; only citations of shown sources; response and audit record agree |
| **Retrieval** `retrieval/` | read-only | lexical, vector, OpenSearch, reciprocal-rank fusion, rerank | two backends with one contract | cutting the fused list never prefers a hit to one that every search ranks better |
| **Chunking** `ingestion/chunking.py` | none (a pure algorithm) | split into units, hard-split, pack with overlap | progress when the overlap is as long as the chunk; the size limit; characters of several tokens | terminates; covers the text; chunks bounded by what they were cut from |
| **Access control** `api/deps.py`, `api/oidc_auth.py`, `governance/` (kill switch, policy, engagements, rate limit) | `users`, `api_keys`, `engagements`, the kill switch row | authenticate, check, administrate | checks at the start of a request, used until its end; commit after the response; first login of one user twice; row locks held by every request | nothing is served to a revoked user or without an engagement; nobody is refused without a reason; no request hangs |
| **Web crawler** `connectors/web_crawler.py` | frontier, seen set, robots cache | crawl to a depth and page limit | redirects, cycles, failing sites; the generator is suspended while its page is ingested | terminates; each page once; within its limits; nothing within them is missed |
| **Other connectors** `connectors/` | none | discover, fetch | external services | (input of the pipeline) |
| **Extraction, NER, relation extraction, PII, LLM client** | none | text processing by libraries and models | – | (input of the pipeline) |
| **Configuration, logging, CLI** | – | process setup | – | – |

`PROJECT.json` lists the hazards found in this code at their lines, each with the property that
would catch it or the reason why none does yet.

## 2. The modules

| module | role |
|---|---|
| `JobLifecycle` | abstract: what an operator may rely on about one job row |
| `JobDispatch` | request transaction, Kafka topic and group, workers; refines `JobLifecycle` |
| `AuditTrail` | requests with their open transactions, concurrent exporters |
| `DocumentLifecycle` | abstract: what a reader may rely on about document rows |
| `IngestPipeline` | connector runs and uploads, task retries, the stores they write; refines `DocumentLifecycle` |
| `EntityGraph` | documents, reviewers and batch passes as transactions over entities, mentions, edges and reviews; the mirror in Neo4j |
| `Retrieval` | pure: what a search may return, rank fusion, citation checks, graph sources |
| `QueryPlane` | one query, by `answer()` or by the agent, over a corpus that grows meanwhile; extends `Retrieval` |
| `Access` | requests as transactions over users, keys, engagements and the kill switch, their row locks, the identity provider |
| `Chunking` | pure: `chunk_text` over lines of tokens, and what a chunking promises |
| `Crawler` | the crawler's generator and the job that drives it; extends `Chunking` |
| `MCJobDispatch`, `MCAuditTrail`, `MCIngestPipeline`, `MCEntityGraph`, `MCQueryPlane`, `MCAccess`, `MCCrawler` | budgets, key assignments, scenarios, names, a corpus and a site for TLC |
| `JobDispatchProofs`, `AuditTrailProofs`, `IngestPipelineProofs`, `EntityGraphProofs`, `AccessProofs`, `QueryPlaneProofs`, `CrawlerProofs` | invariants, refinements and their proofs |
| `Induction` | induction and recursion on the naturals as lemmas that proofs can cite |

Definitions whose comment begins with "Variant" are mistakes the code might plausibly make; no
specification uses them. Each stands beside the definition it would replace and documents what
the properties are able to see.

### JobDispatch

A request goes `idle → flushed → published → responded → committed`: `InsertJob` flushes the row
into the open transaction, `Publish` sends its id, `Respond` returns, `CommitRequest` is the code
after `get_db`'s yield. `status[j]` is what other sessions see, hence `"absent"` up to the commit.
A worker goes through `run_forever` or `consume_forever`: `ClaimNextJob` and `ClaimJobById` lock a
row (`rowLock`), `StartJob` is the claim's commit, `ConnectorReturns`/`ConnectorRaises` end the
connector, `Finish` is `_finish`. A commit that raises is a choice between rolled back and
committed (`ClaimRaises`, `FinishRaises`); `run_job` has `_finish("succeeded")` inside its `try`, so
a failing one turns into `_finish("failed")`. An exception that leaves the claim kills a Postgres
worker and is swallowed by the Kafka loop, which then commits the offset (`AfterEscape`).
`Crash`, `Restart` (compose restarts workers) and `Assign` (the group coordinator) are external.

### AuditTrail

`LogEvent` stamps an event with `clock` and puts it into the request's transaction; `EndRequest`
makes the events visible or drops them. `Authenticate` takes the row lock of the API key (its
`last_used_at` is updated), so requests with one key are serialised and requests with two keys are
not. An exporter loads the table (`LoadTable`: the snapshot and its newest stamp), reads newer rows
(`ReadRows`) and appends them if its snapshot is still current (`AppendBatch`, pyiceberg's
optimistic commit).

### IngestPipeline

`plan` says what each run is about: whether it is an upload, and the items its connector discovers,
each with a content and a `Verdict` (what parsing and the quality gate will say). It is drawn once.
`phase[r]` and `try[r]` are the position in `ingest_item` and the attempt of the Prefect task it is
in. `Retry` restarts the task from its first phase until `Retries` are used up. Document ids are
fresh per attempt, hence `try` in `Document`; `ChunkSet` stands for the chunk rows one attempt at
`index_document` makes. `MayLand` is a commit that raised and may have landed. `Return` appends the
item's result and goes to the next one, `Abort` is an exception that leaves the flow. `LoadSource`
and `RecordRun` are the two halves of `record_run`'s read-modify-write of `row_count`.

### EntityGraph

A document, a reviewer's request and a batch pass are each a transaction: what it has read and
wants to write is its record in `txn`, and `CommitDocument` and `CommitMerge` apply it. Statements
in the middle of a transaction read what is committed at that moment plus what the session holds,
and a session does not reload an entity it has loaded (`Loaded`): that is how a stale `aliases`
list gets written back. A commit fails if a foreign key or an updated row is gone (`CanCommit`,
`CanMerge`). Writes to Neo4j (`nodes`, `rels`) happen at once. `ResolveMention` and `CreateEntity` are
`_resolve_mention`, `Promote` is `_promote_edge_candidates`, `Decide` is `decide`, `StartPass` and
`MergeNext` are `_resolve_type`; `Folded` is `merge_entities`. Names and scores are constants: `Score`
and `BatchScore` say which threshold two names reach. `approved` and `overlaps` are history
variables that only the properties read.

### Retrieval and QueryPlane

`request` is drawn from `Requests`: mode, client (mock or live model), whether the caller's role may
see internal-only sources, the filter it gives and the one its question implies. A request in mode
`fast` or `auto` goes through `answer()`: `Decompose`, per subquestion `SearchLexical`,
`SearchVector` and `LookupGraph`, then `RankAndFilter` (rerank, metadata, license rule) and
`Synthesize`. In mode `research` it goes through `run_agent`: `NextAction` draws a proposal and
charges it to the budget, `Dispatch` executes it or, for an unknown tool or a repeated call, only
notes an error, the tools gather sources, `Finish` and `Conclude` verify the answer. A live model
proposes anything its interface allows and writes any sentence, with citations that are made up or
were not shown; the mock is modelled exactly. Any call may raise (`Abort`).

Each search and the metadata read see what is committed at their moment (`indexed`, `mirror`), and
`IndexDocument` and `MirrorEdge` go on in between. A text search returns any of the eligible chunks in any order, a
vector search ranks all of them. `Ahead` is the order of `rrf_merge`: `ScoreOf` sums the shares of the lists
as integers over a common multiple of the denominators, and ties go to the first appearance (`MetFirst`;
`list.sort` is stable). `Best` is what a cut to `k` keeps: the hits with less than `k` ahead of them. The
reranker may order in any way, so that the order before it does not matter to `answer()`. An answer is
a set of sentences, a sentence the set of ids it cites.

### Access

`rows` is what is committed, `mine[r]` holds the rows request `r` has changed, as they are now, `todo[r]`
the statements it has still to execute, `owner` the row locks. A `SELECT` reads `rows` at its moment, and
`mine[r]` before it where the route reads what it may have changed itself (`Read`); an object is
loaded once (`me[r]`) and not read again; `Write` executes one statement, waits for the row's owner,
and fails on an `INSERT` of a key that is there. `Commit` is the code after `get_db`'s yield and
comes after the response, so that a client can use a key whose row is not committed yet (`Arrive`).
`BreakDeadlock` is PostgreSQL's. `FindKey` and `LoadUser` are the API key path, whose
`last_used_at` locks the key's row; `AskJwks`, `IdpAnswers`, `IdpFails`, `StoreJwks` and `Login` the OIDC path
with its cache, whose key sets the provider replaces (`Rotate`); a provider that fails refuses the request
as a bad token does (401). `FreshJwks` says whether the cache has a set to go by; `Check` and `CheckSwitch` the rest of
the door; `Body` and `RevokeKeys` the routes. Each route is modelled as the statements SQLAlchemy
issues for it: a column that does not change is not written, a row without a change not at all.
`saw[r]` and `expelled` are history: what was true at some moment since `r` arrived, and which users
and keys were ever revoked by a commit.

### Chunking and Crawler

A text is a sequence of lines; a line is the blanks before it, its tokens and the blanks after it. A
token is `TRUE` if a character ends with it: a character of several tokens can be torn by
`_hard_split`, which decodes prefixes. `Units`, `Stop`, `Back` and `ChunkText` are the loops of
`chunk_text`: a window ends before unit `Stop`, the next begins `Back` units earlier. Tokens are
counted as `_token_count` does, unit by unit (`TokenCount`, `Tokens`). A line that is not split has its own
number; a piece of one that is split is encoded again by itself, and the encoding is not part of the
repository, so the model leaves its number open: `again[p]` is any positive number, per piece. It is smaller
than what was cut where the piece completes a torn character, and may be larger because the encoder splits
text into words first and the cut changes where (punctuation, say, that may join the word after it).
An empty piece counts as nothing, and what follows it is packed however large it is (`chunking.py:99`).

`Crawler` has one action per step of `discover`: `Pop`, `CheckRobots`, `PolitenessWait`, `Get` /
`Fail` / `GiveUp`, and after the yield `FollowLinks`. In between the job ingests the page
(`IngestPage`): it takes the page from the cache; it is a duplicate if the content (after redirects) has a
row, active or quarantined; otherwise it does not parse (an error, without a row), is quarantined, or is
stored and chunked with `ChunkText`. The crawl goes on after each of them. Whether a robots.txt can be had is open for
each domain. `idle` and `quiet` measure time up to the delay: what `_last_fetch_at` knows, and what a
site observes.

## 3. The runs

| run | constants | shows |
|---|---|---|
| `JobsPostgres` | 2 jobs, 2 workers, a crash, a raising statement or commit | no double run, earned success, `JobLifecycle`; every committed row is eventually claimed; an answered request ends if nothing fails |
| `JobsKafka` | the same with one partition, plus one rebalance and one producer fault | the same under redelivery; uncommitted requests never run; an unread message is not lost to crashes |
| `JobsKafkaDropped` | 1 job, 2 workers, no faults | *violation*: the message overtakes its commit and the job is dropped |
| `AuditExport` | 2 queries of one key, 2 exporters, a crash | exported once, nothing skipped, all of it eventually |
| `AuditSkipped` | 2 queries of different keys, 1 exporter | *violation*: the watermark passes over an uncommitted event |
| `Ingest` | scenarios `Alone`, `Overlapping`, `SameFile`; 2 runs, a retry, a lost acknowledgement, a crash, OpenSearch | all safety of the pipeline, `DocumentLifecycle`, termination of runs |
| `IngestRace` | scenario `Overlapping`, no faults | *violation*: one content is stored twice |
| `Graph` | 2 documents, names that are certain (a company) and doubtful (a person) matches, a reviewer, a pass, a retry, a fault, the code's minimum of 4 records | no merge on a guess, mirror, merges lose nothing, certain duplicates end up merged |
| `Query` | 3 documents (recent and internal, old, undated), 2 facts 1 and 3 hops away, 5 requests, 3 agent steps | evidence fit for the caller and the filters, records that agree, fusion, termination under any model |
| `Access` | 12 plans of 3 requests each: revoking against minting, logging in and each other; kill switch; engagements; key rotation; a provider that fails at any time; one failing call | who is served and refused had a reason, row locks leave nobody hanging |
| `Crawl` | 7 urls with a cycle, a detour, a redirect, an image, a disallowed page and another site; 5 jobs; 3 attempts; 99 texts | bounds, completeness, chunking, termination |
| `GraphEvidence` | 3 documents with one relation, no retries, no faults | *violation*: two documents overwrite each other's evidence |

Bounds, and why they suffice for what is asked:

- *Two* jobs, workers, queries, exporters and runs: every hazard found is between two actors; the
  proved theorems hold for any number.
- `Faults`, `Failures`, `LostAcks`, `Crashes` count the faults of a behaviour. One of each is enough
  to combine any two kinds in any order (a crash after a rebalance, a lost acknowledgement before a
  crash). The theorems are for any budget.
- `Retries` is 1 in `Ingest` and 2 in the code: one retry reaches a second attempt and an
  exhausted one. `IngestRace` needs none.
- `MaxAgentEvents` bounds what an agent logs; one event reaches the state between two events.
- One partition: a job has one message, or twice the same one, and partitions share nothing but
  their consumers.
- The scenarios of `Ingest` contain the same good content twice in one run, a poor content twice in
  one run, one content in two runs, a malformed item, and a file that is first poor and then good.
- `Graph` has two overlapping documents (duplicates arise), a document against a reviewer's merge
  (commits that must raise), and reviews decided more than once; `MaxReviews` bounds how often a pass
  queues one pair. `GraphEvidence` needs a third document to make the edge the other two extend.
- `Query`: one document per case of the license rule and of the date filter; `TopK = 2` of three
  chunks so that cutting matters; three steps allow an unknown tool, a repeat and a search in one
  request; `MaxTokens` can be reached before `MaxSteps`. A sentence may cite one, several, no or invented ids.
- `Access`: each plan is a race of two administrators or of one with a user, and a third request that
  is affected. `until` bounds the time, `MaxGen` the provider's key sets, `MaxFailed` the calls that
  raise (deadlocks, constraint failures and the provider's own come on top).
- `Crawl`: a page that is one link away and two by a detour shows the order of the queue; depth 1, 2
  and 9, page limits 3 and 9. `ChunkMax = 5` and `ChunkTarget = 4` let lines of one to twelve tokens
  fit, fill, overflow and be split, with a character torn at the boundary and pieces that are encoded again
  to fewer, as many and more tokens than were cut, one of them to more than `ChunkMax`.
- No symmetry is used: most passing runs check liveness, and the scenarios and key assignments
  tell the actors apart.

`CHECK_DEADLOCK FALSE` is said only where runs come to an end and nobody starts another.

## 4. Fairness

- **Jobs.** Weak fairness of a request's next step once it was started (the server finishes what it
  accepted), of every worker's loop (it never waits for anything but a timeout; connector calls
  have timeouts; Docker restarts a dead worker, `docker-compose.yml`), and of handing out a free
  partition. Nobody has to submit a job, and no fault has to happen or to stay away.
- **Audit.** Weak fairness of requests and of exporters: the scheduler fires periodically.
- **Ingestion.** Weak fairness of `Step(r) \/ Raises(r)`: a run goes on by succeeding or by raising,
  and nothing says which. `RunEnds` therefore covers a run in which every call fails.
- **Entity graph.** Weak fairness of a document's task, of an open request or pass, and of starting
  passes (`worker/main.py` schedules them). Nobody has to decide a review.

- **Query.** Weak fairness of the request's own next step: its thread runs on, and models and
  databases answer or raise (clients have timeouts). Documents need not arrive.
- **Access.** Weak fairness of *some* request's step: the server makes progress as long as anyone can.
  That this gets every request to its end is what `RequestsEnd` says; requests, ticks, rotations and
  failures need not happen.
- **Crawler.** Weak fairness of the coroutine's next step (`httpx` calls have timeouts).

## 5. The proofs

All proofs are for arbitrary constants satisfying the named assumptions in the modules (`Retries`,
budgets and bounds are naturals; `None` is not one of the things it stands in for; `Plans` is any
set of finite plans; an upload has one item).

**JobDispatch** — `TypeCorrect`, `RunsAtMostOnce`, `ExclusiveWork`, `NoRunWithoutCommit`,
`SuccessCorrect`, `ClaimsCorrect`, `Refines`. None of the properties is inductive. What carries them:
row locks are held exactly by the claims in progress, each on a pending row (`LocksAreClaims`); a
worker that runs something owns a row that is no longer pending (`RunnerOwnsRow`); per job, the
status determines how often it was started and whether its request committed (`JobInv`).
`AtMostOneRun` follows because a claim needs a pending row, and a pending row has zero starts.

**AuditTrail** — `TypeCorrect`, `ExportsOnce`, `OrderCorrect`, and, for queries of one key,
`OneKeyExportComplete`. An exporter's watermark is the newest stamp of the snapshot it loaded, its
rows are committed and newer, and the append is refused unless the snapshot is still current.
Completeness additionally needs that at most one request has unflushed stamps open — the key's row
lock — which is what the two-key run shows to be indispensable.

**IngestPipeline** — `TypeCorrect`, `RetrievableCorrect`, `BlobsCorrect`, `ReportsCorrect`,
`UnindexedCorrect`, `StoresOnce`, `CatalogIsNotAhead`, `RaceIsTheCause`, `Refines`. The invariant `IInv` has a part about the stores
(`StoreInv`: chunks and hits belong to stored active rows, the graph to chunks, rows to blobs) and a
part per run: what it has in hand (`HandInv`), which rows it has inserted (`RowInv`: rows of the
current item were made by earlier attempts, so the next id is new), what it has reported
(`ReportInv`), and what holds as long as no acknowledgement was lost (`CleanInv`). Every step of a run
extends the stores by at most its own current document or chunk set (`Extends`), so it leaves the
parts of the other runs alone (`OthersKeep`); the rest is one case per action (`InvStep`). The
refinement rests on ids being unique (`IdInjective`) and on a retry's chunks being new, which is
what takes the document out of the abstract `linked` until the graph has caught up. `CatalogIsNotAhead` is
about a count: what the catalog says, and what a run that is in recording has loaded of it (`CountInv`), was counted
from the complete documents of runs that are over (`Past`), and these only become more. A run's own
reports inject into its own complete documents, since each item of its report names another document (`IngestedAreDocuments`).
`RaceIsTheCause` is the other half of finding 3 (section 6): in every history in which the runs go one at a time from the
duplicate lookup to the insert (`OneRunPersists`), and no acknowledgement is lost, no content is stored twice,
whatever else overlaps, fails or crashes. `FreshInv` carries it: what a run is about to store, nobody has stored.

**EntityGraph** — `TypeCorrect`, `MirrorCorrect`, `NothingMergedOnAGuess`, `SettledFactsAreSafe`. The
sessions are what makes it hard: what is committed is correct only because of what open transactions
hold. Three invariants build on each other.

- `IInv`: what a session holds is well formed (`SessionInv`: entities it sees are for mentions there
  are; what it redirects, it has loaded; what it redirects to, it does not redirect) and every entity and
  edge it holds is already in Neo4j, which is why a commit keeps `MirrorCovers`. `PhaseInv` says that a
  closed session is blank and how many mentions a document has resolved in each phase.
- `NamesInv`: a session brings together only what belongs together (`NameInv`), where a reviewer's own
  decision counts although it is approved only with the commit (`Told`). `Together` is transitive and
  grows with the approvals, so chained merges stay deliberate.
- `FactInv`: what a session is about to write takes nothing from a settled document. An edge it writes back
  carries the evidence of every settled document that the row carries (`DraftInv`, `OwnDraftInv`), a merge
  has found every reference of a settled document to what it deletes (`SeenInv`), and whoever is open at
  the same time has overlapped (`OverlapInv`). Without overlaps among merges these are inductive; with
  them they are false (section 6).

**Access** — `TypeCorrect`, `ServiceIsForTheFit`, `RefusalIsForTheUnfit`. Assumed of a plan: stored users
and keys are well formed, a key has a user (the foreign key), a route's parameters are of its types; of the
settings: the role map yields roles, the time to live is positive. These parts of the invariant carry the rest.

- *Transactions* (`UserInv`, `KeyInv`, `StatementInv`): what `r` has changed and not committed takes back
  nobody's revocation, and the user of a key it makes is there or among its statements (`Expected`). So a
  commit keeps `RowInv`: the users and keys that are revoked are exactly those that ever were. This is where
  the update of single columns counts (`SyncRole`): a row another request commits meanwhile cannot be
  written over, because the lock is taken with the change.
- *Witnesses* (`DoorInv`, `RefusalInv`): at each point of the door, if `r` was never fit then the next check
  turns it away, and if it was never unfit then the check does not. Between two checks others commit;
  `saw[r]` only grows, a key's user never changes and, with API keys, no user's role does, so a step of one request
  leaves the witnesses of the others alone (`Frame`, `OtherDoors`, `OtherRefusals`).
- *The provider* (`IdpFails`): who is refused for it found the cache without a fresh set when it asked
  (`"keyless"` in `saw[r]`), so with a fresh set nobody is refused for a failure of the provider.
- *Key sets* (`CacheInv`, `JwksInv`): a cached set is stamped with the time before it was asked for, hence
  before it was retired; used within `TTL` of the stamp it is used within `TTL` of the retirement.

**QueryPlane** — `TypeCorrect`, `EvidenceIsFit`, `ResponseIsRecorded`, `BestSurvive`. Assumed: the corpus
is finite, and a model that calls `search_text` gives a limit that is a natural number (any other makes the
database raise, which `Abort` covers). `FoundInv` says of the lists and facts read so far that they are
eligible chunks and facts with evidence, `ContextInv` that what is shown to a model is backed by the corpus
and fit for the caller. Ingestion goes on between any two reads; both survive it because the corpus
only grows (`Grows`, `IngestInv`). `PermittedAdmissible` is the step on which the license rule rests: whatever was
ranked is an indexed chunk, so that its metadata is found and the rule applied.

`BestSurvive` is about `rrf_merge` itself, for lists of any number and length. That a sum of shares
over the lists is no smaller term by term is proved by induction (`Induction`, below). Ties need that `MetFirst` is transitive. What is ahead of a hit that survives
the cut then has no more ahead of it, and survives.

**Crawler** — `TypeCorrect`, `StaysInBounds`, `MissesNothing`, `ChunksAreGood`, for any site, job and answers. `SearchInv` is
the correctness of breadth-first search on a graph whose edges are found on the way. `Within(seeds, n, P)` are the urls
within `n` links of the seeds over the pages `P`; with `P` the pages already followed,

- the queue holds one level of the search and then the next (`QueueInv`), and what was taken is within the
  depth of the url being dealt with, which itself is within no less (`TakenInv`);
- whatever of the scope is within `n` was taken or is queued no deeper than `n` (`CoverInv`).

So the head of the queue is at its distance from the seeds when it is popped. Following a page adds it to `P`, which
changes nothing up to the page's own distance (`WithinUpTo`, by induction on `n`); one link further are its
links, which are queued, and beyond that `CoverInv` is proved by induction on the depth. At the end the queue
is empty, or the page limit is reached. A run that failed keeps only its bounds. `PaceInv` compares the
crawler's clock with the true one, `PageInv` has what is known of the robots rules, `StoreInv` counts contents.

`ChunksAreGood` is about `chunk_text` itself, for any text, any maximum and target and any overlap up to
the whole (`ChunkTextIsGood`). By induction over the lines, the units cut the text: in order, each cut from no more tokens than the
maximum and each token in one of them (`Cuts`, `UnitsAre`), so that each character is in the span of the unit
its first token is in (`CharsInUnits`); that more tokens decode to no fewer
characters (`CharsGrow`) puts their spans in order (`SpansInOrder`). From then on only the
counts of the units matter, and these may be any numbers (`Countable`). A window takes at least one unit, and
one that counts more than the maximum has no tokens before its last unit (`StopIs`), which then is a piece of
a split line: a line that fits counts as itself (`UnitSpans`). The next window begins after the first unit of it,
not after its end, and ends no sooner (`NextWindow`). Hence the loop ends (`ChunksAreWindows`), and by induction over the windows
every unit is in one (`WindowsCover`). A window without characters has no tokens and so reached the end (`WindowSpan`).

**Induction** — the induction theorems of the library take an operator and cannot be cited here. What
can: a set of naturals that holds 0 and with `n` also `n + 1` is all of them (`FirstFailure`, from the
well-foundedness of `<`), a function whose values are each made of the one before exists and is unique (`Recursion`,
`RecursionUnique`, `RecursionAlways`), what grows from each to the next grows (`Climbs`). With them a function that a module defines by recursion can be unfolded.

Only model-checked: every liveness property (`PendingIsClaimed`, `AnsweredJobEnds`,
`UnreadJobIsClaimed`, `CommittedReachesIceberg`, `RunEnds`, `DuplicatesAreMerged`, `RequestEnds`, `RequestsEnd`,
`CrawlEnds`), because TLAPS does not handle fairness here. Every invariant and every refinement that a
passing run checks is proved.

Proved and not among the runs' properties: `OneWorkerPerJob`, `BatchesInOrder` and
`BlobPrecedesDocument`. The theorems cover them for every instance.

## 6. Where the code and its words differ

Each of the four violation runs is one of these; the rest is told here.

1. **A job can be dropped without any failure** (`JobsKafkaDropped`). `run_connector` publishes the
   job id inside the request transaction; the commit follows after the response. A worker that
   polls in between finds no row, treats the message as done and commits its offset.
   `worker/kafka_queue.py:51` promises redelivery "rather than silently dropped".
2. **The export passes over events** (`AuditSkipped`). `created_at` is set at flush, visibility comes
   with the commit, and the bookmark is the newest exported `created_at`. A request that commits
   after a younger event was exported is never exported. `storage/iceberg_export.py:77` says every
   row "not already present".
3. **Two overlapping runs store the same content twice** (`IngestRace`). The duplicate lookup and the
   insert are different sessions and nothing in the schema forbids it.
4. *A failed query leaves no audit event.* `audit.py:1` has every query logged before it runs, but
   the events share the request's transaction and are rolled back with it (`FailRequest`).
5. *A rebalance can lose a message too.* If the partition moves while the first worker's claim is
   uncommitted, the second passes over the locked row and commits the offset; if the first then
   dies, the row is pending and no message names it. `UnreadJobIsClaimed` is stated without
   rebalances for this reason.
6. *A document that could not be indexed stays invisible.* When the retries of
   `_index_and_graph_task` are used up the row is active and has no chunks; later runs report its
   content as a duplicate. `UnindexedIsAccountedFor` says that a failed or crashed run is the only way
   to get there.
7. *A quarantined document blocks its content.* The duplicate lookup does not look at the status, so
   a content that was rejected for its license stays out after the license was allowed (scenario
   `SameFile`).
8. **Evidence is lost between two documents** (`GraphEvidence`). `evidence_chunk_ids` is read, extended and
   written back as a whole; the later commit wins. `models/edges.py:1` calls each edge "provenance-linked
   to the chunks that support it". `aliases` has the same pattern.
9. *Merges never reach Neo4j.* `merge_entities` deletes the row and repoints edges in Postgres only, so
   graph lookups go on returning the dropped entity and its old relations.
10. *A decision is not final.* `decide` does not look at the status, so a rejected review can be merged
    later and the other way round; the route takes any string for a decision. A pass queues a
    rejected pair again.
11. *A merged alias does not help the next mention.* Aliases let an entity survive blocking, but the score
    compares canonical names only; the alias of a merge that took a review makes a new entity, and a
    new review, every time.
12. *Two overlapping merges can delete edges.* An edge that one of them repoints after the other has
    looked goes with the entity (`Kept`); `SettledFactsSurvive` is stated without overlaps for that reason.
    A merge of the two ends of an edge leaves an edge from an entity to itself.

13. *A redirect leaves the crawler's bounds.* `_get` follows redirects, and the domain list and the robots
    rules were applied to the url before them; the module's docstring (`web_crawler.py:7`) says only pages open to
    robots are fetched. `CrawlStaysInBounds` is about the urls asked for. Links of a redirected page are
    resolved against the url before the redirect, and any answer to `/robots.txt` but 200 allows everything.
14. *A link can end a crawl.* `urljoin` raises `ValueError` on some malformed hrefs; nothing in `discover`
    catches it, so the job fails with what it has stored so far (`Abort`), and the catalog is not told.
15. *A torn character is lost, and the maximum can be exceeded.* `chunking.py:56` takes decoded prefixes for exact; a character of several
    tokens cut by `_hard_split` decodes to a replacement character, and the piece that completes it may be empty.
    `chunking.py:5` says no chunk ever exceeds the maximum. Three things are against it: the newlines that join
    the lines are not counted; a piece cut at the maximum is encoded again and may come to more; and a first
    unit is packed whatever its size. What holds, and is proved, is that no piece is cut from more tokens than
    the maximum and that, line by line, only a chunk that is one such piece can be counted at more. A chunk can also lie wholly inside the one before it, when the next line does
    not fit beside the overlap. `GoodChunking` states what remains.
16. *In mode `research` the license rule has nothing to go by.* `run_agent` applies
    `filter_sources_by_license` at the end, to items that carry no license (`agent/loop.py:106`), and does not turn
    the year in a question into a filter; `EvidenceIsAdmissible` is about `answer()`.
17. *A key minted during a revocation stays unrevoked.* `revoke_user` sees the keys that are committed. The
    request is refused all the same, because the door looks at the user as well (`OnlyTheFitAreServed`).
18. *Relation extraction* (read, not modelled): the fallback for "acquired" (`relation_extraction.py:241`) takes
    the two companies in the order of the text, buyer first, where the patterns and their tests have the
    target first.
19. *An outage of the identity provider looks like a bad token.* `OidcAuthError` is "token missing, malformed,
    expired, or fails signature/claim checks" (`oidc_auth.py:33`); it is also raised when the key set cannot be
    fetched (`oidc_auth.py:92`), and the client gets a 401. `OnlyTheUnfitAreRefused` has that as a reason of its own.

## 7. What the models leave out

- Data: texts, embeddings, metadata and scores. A content is a hash; a verdict stands for all of
  parsing and the quality gate. What matters to the properties is which of them are equal.
- The read-only routes (job status, audit queries, session detail).
- `IngestPipeline` takes `register_source` to find its row: the route that queued the job has created it.
  Its race is in `Access` (two first jobs of a connector).
- Inside `index_document` the chunks are one step, because they share one transaction; the
  OpenSearch writes inside it may have happened or not when it raises.
- In `IngestPipeline`, what the graph step does to entities and edges: `graph` only records which chunks
  it has seen. `EntityGraph` takes over from there, with a document as one chunk with at most one
  relation; entities of different types share nothing. Confidence values other than the thresholds,
  and who decided a review when, are left out.
- Row locks of `EntityGraph`'s transactions: they only decide who waits, so writes take effect at the
  commit; deadlocks that Postgres resolves by an error are the raises that `Faults` counts.
- `QueryPlane` has the Postgres lexical backend only; with OpenSearch a hit may precede its committed row.
  The language filter works like the date. Edges carry no license. History is as long as the steps taken.
- `Access`: the rate limit (counters of `slowapi`, per process); a token is taken to be valid but for its
  key (issuer, audience, expiry and subject are not modelled), and an answer of the provider with a status of
  success to be its current key set (one that is no JSON raises past `validate_token`: `Abort`); read-only
  routes other than one (`list`). No connector of the repository sets `requires_engagement`; the job
  route is modelled for one that does. A request that is past the checks goes on when its user is revoked or
  the switch turned on: "at some moment since it arrived" is what the code provides. A role is the first
  claim the role map knows.
- `Crawler`: ingestion by its outcome (`IngestPipeline` has the rest); a job makes a new connector, so caches
  start empty, and so does the store: documents of earlier runs are left out; time matters to politeness only.
- Isolation anomalies beyond Read Committed and failures of Postgres itself; time (a `clock` that
  only orders stamps), except where `Access` measures validity and the crawler its delay.

### Not modelled

- *Other connectors* are a request and a mapping of fields each, without state of their own; what they discover is the
  input of `IngestPipeline`, their exceptions are its `FetchRaises` and `FlowRaises`.
- *Extraction, normalization, PII tagging, NER and relation extraction* are rules over what libraries and models
  return (a spaCy parse, a regular expression). A model of them would be their text again.
- *The live LLM, embeddings and the reranker* are external; the models let them answer anything.
- *Configuration, logging, CLI* set a process up; the settings that matter are constants. The feedback route is one
  insert that nothing reads.

## 8. Plan

Every safety property and refinement that a passing run checks is proved. Left to do:

| module | about | theorems |
|---|---|---|
| `IngestPipelineProofs` | when runs record one at a time, what the catalog's count lacks belongs to runs that ended without recording | the companion of `CatalogIsNotAhead` |
| `EntityGraphProofs` | an edge's evidence without overlapping documents, whatever merges overlap | a weaker premise for `SettledFactsAreSafe` |
| `CrawlerProofs` | the items a crawl stores are in the order the search met them | an order beside `MissesNothing` |
