---------------------------- MODULE JobDispatch ----------------------------
(***************************************************************************)
(* How a connector run asked for over the API reaches a worker.            *)
(*                                                                         *)
(* POST /admin/connectors/{name}/run inserts an ingestion_jobs row in the  *)
(* request's transaction; with the Kafka backend it also publishes the job *)
(* id.  FastAPI closes the database dependency, and so commits, after the  *)
(* response is sent.  Workers claim rows under FOR UPDATE SKIP LOCKED,     *)
(* either the oldest pending one (Postgres backend) or the one a message   *)
(* names (Kafka backend), run the connector and record the outcome.        *)
(*                                                                         *)
(* Every transaction of a worker is one UPDATE, so its commit is one step; *)
(* a failing commit either rolled back or took effect before its           *)
(* acknowledgement was lost.  Faults are drawn from the budget Faults.     *)
(***************************************************************************)
EXTENDS Naturals, Sequences

CONSTANTS Jobs,        \* one id per POST .../run request
          Workers,     \* worker replicas (worker/main.py processes)
          Partitions,  \* partitions of the ingestion topic
          Backend,     \* settings.job_queue_backend
          Faults,      \* Faults[k]: how many faults of kind k a behaviour may contain
          None

FaultKind == {"crash",      \* a worker or API process dies
              "database",   \* a statement or a commit raises
              "rebalance",  \* a live consumer is evicted from the group
              "publish"}    \* the producer times out or delivers twice

ASSUME BackendAssumption == Backend \in {"postgres", "kafka"}
ASSUME FaultsAssumption == Faults \in [FaultKind -> Nat]
ASSUME NoneAssumption == None \notin Workers \cup Jobs

VARIABLES
  request,   \* request[j]: how far the API transaction that creates j has come
  inserted,  \* job ids in the order of their created_at
  status,    \* status[j] of the committed row, "absent" while there is none
  lockedBy,  \* lockedBy[j]: the row's locked_by column
  rowLock,   \* rowLock[j]: the worker holding j's row lock
  topic,     \* topic[p]: the job ids published to partition p
  offset,    \* offset[p]: the group's committed offset
  owner,     \* owner[p]: the consumer partition p is assigned to
  position,  \* position[p]: how far its owner has read
  phase,     \* phase[w]: where worker w is in its loop
  job,       \* job[w]: the job in w's hands
  held,      \* held[w]: the message w has polled and not yet committed
  starts,    \* history: how often the connector of j was started
  returned,  \* history: the jobs whose connector run returned without raising
  left       \* faults left

rowVars == <<inserted, status, lockedBy, rowLock>>
kafkaVars == <<topic, offset, owner, position>>
workerVars == <<phase, job, held>>
historyVars == <<starts, returned>>
vars == <<request, rowVars, kafkaVars, workerVars, historyVars, left>>

JobStatus == {"absent", "pending", "running", "succeeded", "failed"}
Terminal == {"succeeded", "failed"}
RequestPhase == {"idle", "flushed", "published", "responded", "committed", "aborted"}
WorkerPhase == {"idle", "handling", "claiming", "running", "finishing", "failing",
                "committing", "crashed"}
Message == [part: Partitions, off: Nat \ {0}]

TypeOK ==
  /\ request \in [Jobs -> RequestPhase]
  /\ inserted \in Seq(Jobs)
  /\ status \in [Jobs -> JobStatus]
  /\ lockedBy \in [Jobs -> Workers \cup {None}]
  /\ rowLock \in [Jobs -> Workers \cup {None}]
  /\ topic \in [Partitions -> Seq(Jobs)]
  /\ offset \in [Partitions -> Nat]
  /\ owner \in [Partitions -> Workers \cup {None}]
  /\ position \in [Partitions -> Nat]
  /\ phase \in [Workers -> WorkerPhase]
  /\ job \in [Workers -> Jobs \cup {None}]
  /\ held \in [Workers -> Message \cup {None}]
  /\ starts \in [Jobs -> Nat]
  /\ returned \in SUBSET Jobs
  /\ left \in [FaultKind -> Nat]

\* The tables as the migration creates them, and an empty topic.
Init ==
  /\ request = [j \in Jobs |-> "idle"]
  /\ inserted = <<>>
  /\ status = [j \in Jobs |-> "absent"]
  /\ lockedBy = [j \in Jobs |-> None]
  /\ rowLock = [j \in Jobs |-> None]
  /\ topic = [p \in Partitions |-> <<>>]
  /\ offset = [p \in Partitions |-> 0]
  /\ owner = [p \in Partitions |-> None]
  /\ position = [p \in Partitions |-> 0]
  /\ phase = [w \in Workers |-> "idle"]
  /\ job = [w \in Workers |-> None]
  /\ held = [w \in Workers |-> None]
  /\ starts = [j \in Jobs |-> 0]
  /\ returned = {}
  /\ left = Faults

\* One fault of kind k happens.
Spend(k) == left[k] > 0 /\ left' = [left EXCEPT ![k] = @ - 1]

-----------------------------------------------------------------------------
(* The API request that creates job j. *)

\* INSERT and flush: the row exists inside the open transaction only.
InsertJob(j) ==
  /\ request[j] = "idle"
  /\ request' = [request EXCEPT ![j] = "flushed"]
  /\ inserted' = Append(inserted, j)
  /\ UNCHANGED <<status, lockedBy, rowLock, kafkaVars, workerVars, historyVars, left>>

\* publish_job, before anything is committed; the broker stores the message once.
Publish(j, p) ==
  /\ Backend = "kafka"
  /\ request[j] = "flushed"
  /\ request' = [request EXCEPT ![j] = "published"]
  /\ topic' = [topic EXCEPT ![p] = Append(@, j)]
  /\ UNCHANGED <<rowVars, offset, owner, position, workerVars, historyVars, left>>

\* The producer retried an unacknowledged send: the broker stores it twice.
PublishTwice(j, p) ==
  /\ Backend = "kafka"
  /\ request[j] = "flushed"
  /\ Spend("publish")
  /\ request' = [request EXCEPT ![j] = "published"]
  /\ topic' = [topic EXCEPT ![p] = Append(Append(@, j), j)]
  /\ UNCHANGED <<rowVars, offset, owner, position, workerVars, historyVars>>

\* flush(10) gave up: its result is ignored and the request goes on.
PublishTimesOut(j) ==
  /\ Backend = "kafka"
  /\ request[j] = "flushed"
  /\ Spend("publish")
  /\ request' = [request EXCEPT ![j] = "published"]
  /\ UNCHANGED <<rowVars, kafkaVars, workerVars, historyVars>>

\* The route returns and the client gets {"job_id": ..., "status": "pending"}.
Respond(j) ==
  /\ request[j] = IF Backend = "kafka" THEN "published" ELSE "flushed"
  /\ request' = [request EXCEPT ![j] = "responded"]
  /\ UNCHANGED <<rowVars, kafkaVars, workerVars, historyVars, left>>

\* get_db resumes after the yield and sync_session commits.
CommitRequest(j) ==
  /\ request[j] = "responded"
  /\ request' = [request EXCEPT ![j] = "committed"]
  /\ status' = [status EXCEPT ![j] = "pending"]
  /\ UNCHANGED <<inserted, lockedBy, rowLock, kafkaVars, workerVars, historyVars, left>>

\* The route or the commit raised, or the API process died: the row is gone.
AbortRequest(j) ==
  /\ request[j] \in {"flushed", "published", "responded"}
  /\ Spend("database") \/ Spend("crash")
  /\ request' = [request EXCEPT ![j] = "aborted"]
  /\ UNCHANGED <<rowVars, kafkaVars, workerVars, historyVars>>

-----------------------------------------------------------------------------
(* The worker: claim, run, record. *)

\* Variants a mistake in the code would give: the status filter forgotten, a missing row
\* created on the fly.
AnyUnlocked(j) == status[j] # "absent" /\ rowLock[j] = None
PendingOrMissing(j) == status[j] \in {"absent", "pending"} /\ rowLock[j] = None

\* The rows a claim can take: WHERE status = 'pending' ... FOR UPDATE SKIP LOCKED.
Claimable(j) == status[j] = "pending" /\ rowLock[j] = None

\* Variant: ORDER BY without the filter.
FirstRow(j) == Len(inserted) > 0 /\ inserted[1] = j

\* j was created before every other row a claim could take.
Oldest(j) == \E i \in 1..Len(inserted) :
               /\ inserted[i] = j
               /\ \A k \in 1..(i - 1) : ~Claimable(inserted[k])

\* Where a worker goes when it is done with a job, and when an exception leaves run_job or
\* the claim: run_forever has no handler, consume_forever logs and commits the offset.
AfterJob == IF Backend = "kafka" THEN "committing" ELSE "idle"
AfterEscape == IF Backend = "kafka" THEN "committing" ELSE "crashed"

\* Variant: the session is not closed when its block raises.
KeepsLocks(w) == rowLock

\* The row locks that remain when w's transaction ends.
Released(w) == [j \in Jobs |-> IF rowLock[j] = w THEN None ELSE rowLock[j]]

\* w leaves its current job behind and goes to phase next.
Leave(w, next) == /\ phase' = [phase EXCEPT ![w] = next]
                  /\ job' = [job EXCEPT ![w] = None]

\* claim_next_job: SELECT ... ORDER BY created_at LIMIT 1 FOR UPDATE SKIP LOCKED.
ClaimNextJob(w) ==
  /\ Backend = "postgres"
  /\ phase[w] = "idle"
  /\ \E j \in Jobs :
       /\ Claimable(j)
       /\ Oldest(j)
       /\ rowLock' = [rowLock EXCEPT ![j] = w]
       /\ job' = [job EXCEPT ![w] = j]
  /\ phase' = [phase EXCEPT ![w] = "claiming"]
  /\ UNCHANGED <<request, inserted, status, lockedBy, kafkaVars, held, historyVars, left>>

\* consumer.poll hands w the next message of a partition it owns.
PollMessage(w, p) ==
  /\ phase[w] = "idle"
  /\ owner[p] = w
  /\ position[p] < Len(topic[p])
  /\ position' = [position EXCEPT ![p] = @ + 1]
  /\ held' = [held EXCEPT ![w] = [part |-> p, off |-> position[p] + 1]]
  /\ job' = [job EXCEPT ![w] = topic[p][position[p] + 1]]
  /\ phase' = [phase EXCEPT ![w] = "handling"]
  /\ UNCHANGED <<request, rowVars, topic, offset, owner, historyVars, left>>

\* claim_job_by_id finds the row pending and unlocked and locks it.
ClaimJobById(w) ==
  /\ phase[w] = "handling"
  /\ Claimable(job[w])
  /\ rowLock' = [rowLock EXCEPT ![job[w]] = w]
  /\ phase' = [phase EXCEPT ![w] = "claiming"]
  /\ UNCHANGED <<request, inserted, status, lockedBy, kafkaVars, job, held, historyVars, left>>

\* claim_job_by_id returns None: no committed row, not pending, or locked by another worker.
SkipMessage(w) ==
  /\ phase[w] = "handling"
  /\ ~Claimable(job[w])
  /\ Leave(w, "committing")
  /\ UNCHANGED <<request, rowVars, kafkaVars, held, historyVars, left>>

\* Nothing to do: sleep and poll again, or poll(1.0) returned None.
PollNothing(w) ==
  /\ phase[w] = "idle"
  /\ IF Backend = "postgres" THEN \A j \in Jobs : ~Claimable(j)
     ELSE \A p \in Partitions : owner[p] = w => position[p] = Len(topic[p])
  /\ UNCHANGED vars

\* The claim commits and run_job starts the connector.
StartJob(w) ==
  /\ phase[w] = "claiming"
  /\ status' = [status EXCEPT ![job[w]] = "running"]
  /\ lockedBy' = [lockedBy EXCEPT ![job[w]] = w]
  /\ rowLock' = Released(w)
  /\ starts' = [starts EXCEPT ![job[w]] = @ + 1]
  /\ phase' = [phase EXCEPT ![w] = "running"]
  /\ UNCHANGED <<request, inserted, kafkaVars, job, held, returned, left>>

\* The claim raises: rolled back, or committed with the acknowledgement lost.
ClaimRaises(w) ==
  /\ phase[w] = "claiming"
  /\ Spend("database")
  /\ rowLock' = Released(w)
  /\ \/ UNCHANGED <<status, lockedBy>>
     \/ /\ status' = [status EXCEPT ![job[w]] = "running"]
        /\ lockedBy' = [lockedBy EXCEPT ![job[w]] = w]
  /\ Leave(w, AfterEscape)
  /\ UNCHANGED <<request, inserted, kafkaVars, held, historyVars>>

\* run_connector_job returns its statistics.
ConnectorReturns(w) ==
  /\ phase[w] = "running"
  /\ returned' = returned \cup {job[w]}
  /\ phase' = [phase EXCEPT ![w] = "finishing"]
  /\ UNCHANGED <<request, rowVars, kafkaVars, job, held, starts, left>>

\* get_connector or run_connector_job raises.
ConnectorRaises(w) ==
  /\ phase[w] = "running"
  /\ phase' = [phase EXCEPT ![w] = "failing"]
  /\ UNCHANGED <<request, rowVars, kafkaVars, job, held, historyVars, left>>

\* Variants: the handler reports success, requeues the job, or misspells the status.
AlwaysSucceeded(w) == "succeeded"
RequeuedOnError(w) == IF phase[w] = "finishing" THEN "succeeded" ELSE "pending"
MisspeltOutcome(w) == IF phase[w] = "finishing" THEN "success" ELSE "failed"

\* The status _finish is called with in each of the two phases.
Outcome(w) == IF phase[w] = "finishing" THEN "succeeded" ELSE "failed"

\* _finish commits.  A row that is not there is left alone; any other is overwritten.
Finish(w) ==
  /\ phase[w] \in {"finishing", "failing"}
  /\ status' = IF status[job[w]] = "absent" THEN status
               ELSE [status EXCEPT ![job[w]] = Outcome(w)]
  /\ Leave(w, AfterJob)
  /\ UNCHANGED <<request, inserted, lockedBy, rowLock, kafkaVars, held, historyVars, left>>

\* _finish raises, its update lost or made.  The first time run_job's handler turns the
\* outcome into a failure, the second time the exception escapes.
FinishRaises(w) ==
  /\ phase[w] \in {"finishing", "failing"}
  /\ Spend("database")
  /\ \/ UNCHANGED status
     \/ status' = [status EXCEPT ![job[w]] = Outcome(w)]
  /\ IF phase[w] = "finishing"
     THEN phase' = [phase EXCEPT ![w] = "failing"] /\ UNCHANGED job
     ELSE Leave(w, AfterEscape)
  /\ UNCHANGED <<request, inserted, lockedBy, rowLock, kafkaVars, held, historyVars>>

\* consumer.commit(msg); the broker takes it only from the partition's owner.
CommitOffset(w) ==
  /\ phase[w] = "committing"
  /\ offset' = IF owner[held[w].part] = w
               THEN [offset EXCEPT ![held[w].part] = held[w].off]
               ELSE offset
  /\ held' = [held EXCEPT ![w] = None]
  /\ phase' = [phase EXCEPT ![w] = "idle"]
  /\ UNCHANGED <<request, rowVars, topic, owner, position, job, historyVars, left>>

-----------------------------------------------------------------------------
(* Crashes, restarts and the consumer group (external: Postgres, Kafka, Docker). *)

\* The worker process dies: its transaction rolls back and it leaves the group.
Crash(w) ==
  /\ phase[w] # "crashed"
  /\ Spend("crash")
  /\ rowLock' = Released(w)
  /\ Leave(w, "crashed")
  /\ held' = [held EXCEPT ![w] = None]
  /\ owner' = [p \in Partitions |-> IF owner[p] = w THEN None ELSE owner[p]]
  /\ UNCHANGED <<request, inserted, status, lockedBy, topic, offset, position, historyVars>>

\* restart: unless-stopped.
Restart(w) ==
  /\ phase[w] = "crashed"
  /\ phase' = [phase EXCEPT ![w] = "idle"]
  /\ UNCHANGED <<request, rowVars, kafkaVars, job, held, historyVars, left>>

\* Variant: auto.offset.reset = latest and no commits.
ResumeAtEnd(p) == Len(topic[p])

\* Where a new owner of p reads on.
ResumeAt(p) == offset[p]

\* The coordinator gives p to w, which reads on from the committed offset.  A live owner
\* loses its partition only to a rebalance, e.g. when a job outlasts max.poll.interval.ms.
Assign(p, w) ==
  /\ Backend = "kafka"
  /\ phase[w] # "crashed"
  /\ owner[p] # w
  /\ IF owner[p] = None THEN UNCHANGED left ELSE Spend("rebalance")
  /\ owner' = [owner EXCEPT ![p] = w]
  /\ position' = [position EXCEPT ![p] = ResumeAt(p)]
  /\ UNCHANGED <<request, rowVars, topic, offset, workerVars, historyVars>>

-----------------------------------------------------------------------------
RequestStep(j) == \/ \E p \in Partitions : Publish(j, p)
                  \/ Respond(j)
                  \/ CommitRequest(j)

WorkerStep(w) == \/ ClaimNextJob(w)
                 \/ \E p \in Partitions : PollMessage(w, p)
                 \/ ClaimJobById(w)
                 \/ SkipMessage(w)
                 \/ StartJob(w)
                 \/ ConnectorReturns(w)
                 \/ ConnectorRaises(w)
                 \/ Finish(w)
                 \/ CommitOffset(w)
                 \/ Restart(w)

RequestFault(j) == \/ \E p \in Partitions : PublishTwice(j, p)
                   \/ PublishTimesOut(j)
                   \/ AbortRequest(j)

WorkerFault(w) == ClaimRaises(w) \/ FinishRaises(w) \/ Crash(w)

Next == \/ \E j \in Jobs : InsertJob(j) \/ RequestStep(j) \/ RequestFault(j)
        \/ \E w \in Workers : WorkerStep(w) \/ PollNothing(w) \/ WorkerFault(w)
        \/ \E p \in Partitions, w \in Workers : Assign(p, w)

Spec == Init /\ [][Next]_vars

\* A request that was started is answered and committed, every live worker keeps looping
\* (connector runs end: each fetch has a timeout), Docker restarts a dead one, and the
\* coordinator hands out every free partition.  Nobody has to ask for a job.
Fairness == /\ \A j \in Jobs : WF_vars(RequestStep(j))
            /\ \A w \in Workers : WF_vars(WorkerStep(w))
            /\ \A p \in Partitions : WF_vars(owner[p] = None /\ \E w \in Workers : Assign(p, w))

FairSpec == Spec /\ Fairness

-----------------------------------------------------------------------------
(* Safety. *)

\* w works on a job: it holds the row lock of its claim or runs what it claimed.
Working(w) == phase[w] \in {"claiming", "running", "finishing", "failing"}

\* A connector is started at most once per job, whatever is redelivered, crashes or is
\* retried (worker/jobs.py: "never double-process a job").
AtMostOneRun == \A j \in Jobs : starts[j] <= 1

\* Two workers never work on the same job, even while a claim is uncommitted and the same
\* message has been handed to both.
OneWorkerPerJob ==
  \A v, w \in Workers : Working(v) /\ Working(w) /\ job[v] = job[w] => v = w

\* No connector runs for a request whose transaction did not commit, although its message
\* may be in the topic by then.
RunsOnlyCommitted == \A j \in Jobs : starts[j] > 0 => request[j] = "committed"

\* A row says "succeeded" only if its one connector run returned.
SuccessIsEarned == \A j \in Jobs : status[j] = "succeeded" => j \in returned /\ starts[j] = 1

\* The dispatch implements the life of a job row.
Lifecycle == INSTANCE JobLifecycle WITH state <- status, runner <- lockedBy
LifecycleSpec == Lifecycle!Spec

-----------------------------------------------------------------------------
(* Liveness. *)

\* Postgres backend, any faults: a committed row does not stay pending; a claim that dies
\* or raises gives the row back.
PendingIsClaimed == \A j \in Jobs : status[j] = "pending" ~> status[j] # "pending"

\* Postgres backend: a request that was answered ends with a terminal row, unless something
\* fails on the way; newer requests do not starve it.
AnsweredJobEnds ==
  \A j \in Jobs : request[j] = "responded" ~> status[j] \in Terminal \/ left # Faults

\* A message for j lies ahead of some consumer.
Unread(j) == \E p \in Partitions : \E i \in (position[p] + 1)..Len(topic[p]) : topic[p][i] = j

\* Kafka backend: a message that is read after its row is committed is not dropped, even if
\* its readers crash.  A failing database can lose it, and so can a rebalance: the new owner
\* passes over the row its first reader has locked, and then that one dies.
UnreadJobIsClaimed ==
  \A j \in Jobs : status[j] = "pending" /\ Unread(j) ~>
    \/ status[j] # "pending"
    \/ \E k \in {"database", "rebalance"} : left[k] < Faults[k]

\* worker/kafka_queue.py: a message is "redelivered rather than silently dropped".  Once
\* the group has committed past a message, its job has been taken.
NotSilentlyDropped ==
  \A p \in Partitions : \A i \in 1..offset[p] : status[topic[p][i]] # "pending"
=============================================================================
