------------------------- MODULE JobDispatchProofs -------------------------
(***************************************************************************)
(* Safety of JobDispatch for any jobs, workers, partitions, backend and    *)
(* fault budget.                                                           *)
(***************************************************************************)
EXTENDS JobDispatch, TLAPS

\* A connector run is recorded by the worker whose claim is on the row, and the row is
\* still running or already carries an outcome of that same run.
RunnerOwnsRow ==
  \A w \in Workers : phase[w] \in {"running", "finishing", "failing"} =>
    /\ lockedBy[job[w]] = w
    /\ status[job[w]] \in IF phase[w] = "failing" THEN {"running", "succeeded"} ELSE {"running"}

\* Row locks belong to the claim in progress and to nothing else: a crash or an error
\* never leaves one behind.
LocksAreClaims ==
  \A j \in Jobs, w \in Workers :
    rowLock[j] = w <=> phase[w] = "claiming" /\ job[w] = j

Started(w) == phase[w] \in {"running", "finishing", "failing"}

\* What a worker in the middle of its loop may count on.
WorkerInv(w) ==
  /\ phase[w] = "handling" \/ Working(w) => job[w] \in Jobs
  /\ phase[w] = "claiming" => status[job[w]] = "pending"
  /\ Started(w) => starts[job[w]] = 1
  /\ phase[w] = "finishing" => job[w] \in returned
  /\ phase[w] \in {"handling", "committing"} => held[w] \in Message
  /\ Backend = "kafka" /\ Working(w) => held[w] \in Message

\* How the columns of a row, its request and its history go together.
JobInv(j) ==
  /\ status[j] # "absent" <=> request[j] = "committed"
  /\ status[j] \in {"absent", "pending"} => starts[j] = 0
  /\ starts[j] <= 1
  /\ status[j] = "succeeded" => j \in returned /\ starts[j] = 1

IInv == /\ TypeOK
        /\ LocksAreClaims
        /\ RunnerOwnsRow
        /\ \A w \in Workers : WorkerInv(w)
        /\ \A j \in Jobs : JobInv(j)

-----------------------------------------------------------------------------
\* IInv holds at first.
LEMMA InitIInv == Init => IInv
  BY FaultsAssumption, NoneAssumption
  DEF Init, IInv, TypeOK, LocksAreClaims, RunnerOwnsRow, WorkerInv, JobInv, Working, Started,
      RequestPhase, JobStatus, WorkerPhase, Message

\* A fault leaves the budget a budget.
LEMMA SpendType ==
  ASSUME TypeOK, NEW k \in FaultKind, Spend(k)
  PROVE  left' \in [FaultKind -> Nat]
  BY DEF TypeOK, Spend

\* InsertJob preserves IInv.
LEMMA InsertJobInv ==
  ASSUME IInv, NEW j \in Jobs, InsertJob(j)
  PROVE  IInv'
<1> USE NoneAssumption, BackendAssumption
    DEF IInv, InsertJob, rowVars, kafkaVars, workerVars, historyVars
<1>1. TypeOK'
  BY DEF TypeOK, RequestPhase, JobStatus, WorkerPhase, Message
<1>2. LocksAreClaims'
  BY DEF TypeOK, LocksAreClaims, WorkerInv, Working
<1>3. RunnerOwnsRow'
  BY DEF TypeOK, RunnerOwnsRow, WorkerInv, Working, Started, LocksAreClaims
<1>4. \A v \in Workers : WorkerInv(v)'
  BY DEF TypeOK, LocksAreClaims, RunnerOwnsRow, WorkerInv, JobInv, Working, Started, Message
<1>5. \A i \in Jobs : JobInv(i)'
  BY DEF TypeOK, LocksAreClaims, RunnerOwnsRow, WorkerInv, JobInv, Working, Started, RequestPhase
<1>6. QED
  BY <1>1, <1>2, <1>3, <1>4, <1>5

\* Publish preserves IInv.
LEMMA PublishInv ==
  ASSUME IInv, NEW j \in Jobs, NEW p \in Partitions, Publish(j, p)
  PROVE  IInv'
<1> USE NoneAssumption, BackendAssumption
    DEF IInv, Publish, rowVars, kafkaVars, workerVars, historyVars
<1>1. TypeOK'
  BY DEF TypeOK, RequestPhase, JobStatus, WorkerPhase, Message
<1>2. LocksAreClaims'
  BY DEF TypeOK, LocksAreClaims, WorkerInv, Working
<1>3. RunnerOwnsRow'
  BY DEF TypeOK, RunnerOwnsRow, WorkerInv, Working, Started, LocksAreClaims
<1>4. \A v \in Workers : WorkerInv(v)'
  BY DEF TypeOK, LocksAreClaims, RunnerOwnsRow, WorkerInv, JobInv, Working, Started, Message
<1>5. \A i \in Jobs : JobInv(i)'
  BY DEF TypeOK, LocksAreClaims, RunnerOwnsRow, WorkerInv, JobInv, Working, Started, RequestPhase
<1>6. QED
  BY <1>1, <1>2, <1>3, <1>4, <1>5

\* PublishTwice preserves IInv.
LEMMA PublishTwiceInv ==
  ASSUME IInv, NEW j \in Jobs, NEW p \in Partitions, PublishTwice(j, p)
  PROVE  IInv'
<1> USE NoneAssumption, BackendAssumption
    DEF IInv, PublishTwice, rowVars, kafkaVars, workerVars, historyVars
<1>1. TypeOK'
  <2>1. topic' \in [Partitions -> Seq(Jobs)]
    <3>1. topic[p] \in Seq(Jobs)
      BY DEF TypeOK
    <3>2. Append(Append(topic[p], j), j) \in Seq(Jobs)
      BY <3>1
    <3>3. QED
      BY <3>2 DEF TypeOK
  <2>2. request' \in [Jobs -> RequestPhase]
    BY DEF TypeOK, RequestPhase
  <2>3. left' \in [FaultKind -> Nat]
    BY SpendType DEF FaultKind
  <2>4. QED
    BY <2>1, <2>2, <2>3 DEF TypeOK
<1>2. LocksAreClaims'
  BY DEF TypeOK, LocksAreClaims, WorkerInv, Working
<1>3. RunnerOwnsRow'
  BY DEF TypeOK, RunnerOwnsRow, WorkerInv, Working, Started, LocksAreClaims
<1>4. \A v \in Workers : WorkerInv(v)'
  BY DEF TypeOK, LocksAreClaims, RunnerOwnsRow, WorkerInv, JobInv, Working, Started, Message
<1>5. \A i \in Jobs : JobInv(i)'
  BY DEF TypeOK, LocksAreClaims, RunnerOwnsRow, WorkerInv, JobInv, Working, Started, RequestPhase
<1>6. QED
  BY <1>1, <1>2, <1>3, <1>4, <1>5

\* PublishTimesOut preserves IInv.
LEMMA PublishTimesOutInv ==
  ASSUME IInv, NEW j \in Jobs, PublishTimesOut(j)
  PROVE  IInv'
<1> USE NoneAssumption, BackendAssumption
    DEF IInv, PublishTimesOut, rowVars, kafkaVars, workerVars, historyVars
<1>1. TypeOK'
  <2>1. request' \in [Jobs -> RequestPhase]
    BY DEF TypeOK, RequestPhase
  <2>2. left' \in [FaultKind -> Nat]
    BY SpendType DEF FaultKind
  <2>3. QED
    BY <2>1, <2>2 DEF TypeOK
<1>2. LocksAreClaims'
  BY DEF TypeOK, LocksAreClaims, WorkerInv, Working
<1>3. RunnerOwnsRow'
  BY DEF TypeOK, RunnerOwnsRow, WorkerInv, Working, Started, LocksAreClaims
<1>4. \A v \in Workers : WorkerInv(v)'
  BY DEF TypeOK, LocksAreClaims, RunnerOwnsRow, WorkerInv, JobInv, Working, Started, Message
<1>5. \A i \in Jobs : JobInv(i)'
  BY DEF TypeOK, LocksAreClaims, RunnerOwnsRow, WorkerInv, JobInv, Working, Started, RequestPhase
<1>6. QED
  BY <1>1, <1>2, <1>3, <1>4, <1>5

\* Respond preserves IInv.
LEMMA RespondInv ==
  ASSUME IInv, NEW j \in Jobs, Respond(j)
  PROVE  IInv'
<1> USE NoneAssumption, BackendAssumption
    DEF IInv, Respond, rowVars, kafkaVars, workerVars, historyVars
<1>1. TypeOK'
  BY DEF TypeOK, RequestPhase, JobStatus, WorkerPhase, Message
<1>2. LocksAreClaims'
  BY DEF TypeOK, LocksAreClaims, WorkerInv, Working
<1>3. RunnerOwnsRow'
  BY DEF TypeOK, RunnerOwnsRow, WorkerInv, Working, Started, LocksAreClaims
<1>4. \A v \in Workers : WorkerInv(v)'
  BY DEF TypeOK, LocksAreClaims, RunnerOwnsRow, WorkerInv, JobInv, Working, Started, Message
<1>5. \A i \in Jobs : JobInv(i)'
  BY DEF TypeOK, LocksAreClaims, RunnerOwnsRow, WorkerInv, JobInv, Working, Started, RequestPhase
<1>6. QED
  BY <1>1, <1>2, <1>3, <1>4, <1>5

\* CommitRequest preserves IInv.
LEMMA CommitRequestInv ==
  ASSUME IInv, NEW j \in Jobs, CommitRequest(j)
  PROVE  IInv'
<1> USE NoneAssumption, BackendAssumption
    DEF IInv, CommitRequest, rowVars, kafkaVars, workerVars, historyVars
<1>1. TypeOK'
  BY DEF TypeOK, RequestPhase, JobStatus, WorkerPhase, Message
<1>2. LocksAreClaims'
  BY DEF TypeOK, LocksAreClaims, WorkerInv, Working
<1>3. RunnerOwnsRow'
  <2>1. status[j] = "absent"
    BY DEF JobInv
  <2>2. ASSUME NEW v \in Workers, Started(v)
        PROVE  job[v] \in Jobs /\ job[v] # j
    BY <2>1, <2>2 DEF RunnerOwnsRow, WorkerInv, Working, Started
  <2>3. \A i \in Jobs : i # j => status'[i] = status[i]
    BY DEF TypeOK
  <2>4. QED
    BY <2>2, <2>3 DEF RunnerOwnsRow, Started
<1>4. \A v \in Workers : WorkerInv(v)'
  BY DEF TypeOK, LocksAreClaims, RunnerOwnsRow, WorkerInv, JobInv, Working, Started, Message
<1>5. \A i \in Jobs : JobInv(i)'
  BY DEF TypeOK, LocksAreClaims, RunnerOwnsRow, WorkerInv, JobInv, Working, Started, RequestPhase
<1>6. QED
  BY <1>1, <1>2, <1>3, <1>4, <1>5

\* AbortRequest preserves IInv.
LEMMA AbortRequestInv ==
  ASSUME IInv, NEW j \in Jobs, AbortRequest(j)
  PROVE  IInv'
<1> USE NoneAssumption, BackendAssumption
    DEF IInv, AbortRequest, rowVars, kafkaVars, workerVars, historyVars
<1>1. TypeOK'
  <2>1. request' \in [Jobs -> RequestPhase]
    BY DEF TypeOK, RequestPhase
  <2>2. left' \in [FaultKind -> Nat]
    BY SpendType DEF FaultKind
  <2>3. QED
    BY <2>1, <2>2 DEF TypeOK
<1>2. LocksAreClaims'
  BY DEF TypeOK, LocksAreClaims, WorkerInv, Working
<1>3. RunnerOwnsRow'
  BY DEF TypeOK, RunnerOwnsRow, WorkerInv, Working, Started, LocksAreClaims
<1>4. \A v \in Workers : WorkerInv(v)'
  BY DEF TypeOK, LocksAreClaims, RunnerOwnsRow, WorkerInv, JobInv, Working, Started, Message
<1>5. \A i \in Jobs : JobInv(i)'
  BY DEF TypeOK, LocksAreClaims, RunnerOwnsRow, WorkerInv, JobInv, Working, Started, RequestPhase
<1>6. QED
  BY <1>1, <1>2, <1>3, <1>4, <1>5

\* ClaimNextJob preserves IInv.
LEMMA ClaimNextJobInv ==
  ASSUME IInv, NEW w \in Workers, ClaimNextJob(w)
  PROVE  IInv'
<1> USE NoneAssumption, BackendAssumption
    DEF IInv, ClaimNextJob, Claimable, rowVars, kafkaVars, workerVars, historyVars
<1>1. TypeOK'
  BY DEF TypeOK, RequestPhase, JobStatus, WorkerPhase, Message
<1>2. LocksAreClaims'
  BY DEF TypeOK, LocksAreClaims, WorkerInv, Working
<1>3. RunnerOwnsRow'
  BY DEF TypeOK, RunnerOwnsRow, WorkerInv, Working, Started, LocksAreClaims
<1>4. \A v \in Workers : WorkerInv(v)'
  BY DEF TypeOK, LocksAreClaims, RunnerOwnsRow, WorkerInv, JobInv, Working, Started, Message
<1>5. \A i \in Jobs : JobInv(i)'
  BY DEF TypeOK, LocksAreClaims, RunnerOwnsRow, WorkerInv, JobInv, Working, Started, RequestPhase
<1>6. QED
  BY <1>1, <1>2, <1>3, <1>4, <1>5

\* PollMessage preserves IInv.
LEMMA PollMessageInv ==
  ASSUME IInv, NEW w \in Workers, NEW p \in Partitions, PollMessage(w, p)
  PROVE  IInv'
<1> USE NoneAssumption, BackendAssumption
    DEF IInv, PollMessage, rowVars, kafkaVars, workerVars, historyVars
<1>1. TypeOK'
  BY DEF TypeOK, RequestPhase, JobStatus, WorkerPhase, Message
<1>2. LocksAreClaims'
  BY DEF TypeOK, LocksAreClaims, WorkerInv, Working
<1>3. RunnerOwnsRow'
  BY DEF TypeOK, RunnerOwnsRow, WorkerInv, Working, Started, LocksAreClaims
<1>4. \A v \in Workers : WorkerInv(v)'
  BY DEF TypeOK, LocksAreClaims, RunnerOwnsRow, WorkerInv, JobInv, Working, Started, Message
<1>5. \A i \in Jobs : JobInv(i)'
  BY DEF TypeOK, LocksAreClaims, RunnerOwnsRow, WorkerInv, JobInv, Working, Started, RequestPhase
<1>6. QED
  BY <1>1, <1>2, <1>3, <1>4, <1>5

\* ClaimJobById preserves IInv.
LEMMA ClaimJobByIdInv ==
  ASSUME IInv, NEW w \in Workers, ClaimJobById(w)
  PROVE  IInv'
<1> USE NoneAssumption, BackendAssumption
    DEF IInv, ClaimJobById, Claimable, rowVars, kafkaVars, workerVars, historyVars
<1>1. TypeOK'
  BY DEF TypeOK, RequestPhase, JobStatus, WorkerPhase, Message
<1>2. LocksAreClaims'
  BY DEF TypeOK, LocksAreClaims, WorkerInv, Working
<1>3. RunnerOwnsRow'
  BY DEF TypeOK, RunnerOwnsRow, WorkerInv, Working, Started, LocksAreClaims
<1>4. \A v \in Workers : WorkerInv(v)'
  BY DEF TypeOK, LocksAreClaims, RunnerOwnsRow, WorkerInv, JobInv, Working, Started, Message
<1>5. \A i \in Jobs : JobInv(i)'
  BY DEF TypeOK, LocksAreClaims, RunnerOwnsRow, WorkerInv, JobInv, Working, Started, RequestPhase
<1>6. QED
  BY <1>1, <1>2, <1>3, <1>4, <1>5

\* SkipMessage preserves IInv.
LEMMA SkipMessageInv ==
  ASSUME IInv, NEW w \in Workers, SkipMessage(w)
  PROVE  IInv'
<1> USE NoneAssumption, BackendAssumption
    DEF IInv, SkipMessage, Leave, rowVars, kafkaVars, workerVars, historyVars
<1>1. TypeOK'
  BY DEF TypeOK, RequestPhase, JobStatus, WorkerPhase, Message
<1>2. LocksAreClaims'
  BY DEF TypeOK, LocksAreClaims, WorkerInv, Working
<1>3. RunnerOwnsRow'
  BY DEF TypeOK, RunnerOwnsRow, WorkerInv, Working, Started, LocksAreClaims
<1>4. \A v \in Workers : WorkerInv(v)'
  BY DEF TypeOK, LocksAreClaims, RunnerOwnsRow, WorkerInv, JobInv, Working, Started, Message
<1>5. \A i \in Jobs : JobInv(i)'
  BY DEF TypeOK, LocksAreClaims, RunnerOwnsRow, WorkerInv, JobInv, Working, Started, RequestPhase
<1>6. QED
  BY <1>1, <1>2, <1>3, <1>4, <1>5

\* StartJob preserves IInv.
LEMMA StartJobInv ==
  ASSUME IInv, NEW w \in Workers, StartJob(w)
  PROVE  IInv'
<1> USE NoneAssumption, BackendAssumption
    DEF IInv, StartJob, Released, rowVars, kafkaVars, workerVars, historyVars
<1>1. TypeOK'
  <2>1. job[w] \in Jobs
    BY DEF WorkerInv, Working
  <2>2. QED
    BY <2>1 DEF TypeOK, JobStatus, WorkerPhase
<1>2. LocksAreClaims'
  BY DEF TypeOK, LocksAreClaims, WorkerInv, Working
<1>3. RunnerOwnsRow'
  <2>1. job[w] \in Jobs /\ status[job[w]] = "pending"
    BY DEF WorkerInv, Working
  <2>2. ASSUME NEW v \in Workers, v # w, Started(v)
        PROVE  job[v] \in Jobs /\ job[v] # job[w]
    BY <2>1, <2>2 DEF RunnerOwnsRow, WorkerInv, Working, Started
  <2>3. QED
    BY <2>1, <2>2 DEF TypeOK, RunnerOwnsRow, Started
<1>4. \A v \in Workers : WorkerInv(v)'
  BY DEF TypeOK, LocksAreClaims, RunnerOwnsRow, WorkerInv, JobInv, Working, Started, Message
<1>5. \A i \in Jobs : JobInv(i)'
  BY DEF TypeOK, LocksAreClaims, RunnerOwnsRow, WorkerInv, JobInv, Working, Started, RequestPhase
<1>6. QED
  BY <1>1, <1>2, <1>3, <1>4, <1>5

\* ClaimRaises preserves IInv.
LEMMA ClaimRaisesInv ==
  ASSUME IInv, NEW w \in Workers, ClaimRaises(w)
  PROVE  IInv'
<1> USE NoneAssumption, BackendAssumption
    DEF IInv, ClaimRaises, Spend, FaultKind, Leave, Released, AfterEscape, rowVars, kafkaVars, workerVars, historyVars
<1>1. TypeOK'
  BY DEF TypeOK, RequestPhase, JobStatus, WorkerPhase, Message
<1>2. LocksAreClaims'
  BY DEF TypeOK, LocksAreClaims, WorkerInv, Working
<1>3. RunnerOwnsRow'
  BY DEF TypeOK, RunnerOwnsRow, WorkerInv, Working, Started, LocksAreClaims
<1>4. \A v \in Workers : WorkerInv(v)'
  BY DEF TypeOK, LocksAreClaims, RunnerOwnsRow, WorkerInv, JobInv, Working, Started, Message
<1>5. \A i \in Jobs : JobInv(i)'
  BY DEF TypeOK, LocksAreClaims, RunnerOwnsRow, WorkerInv, JobInv, Working, Started, RequestPhase
<1>6. QED
  BY <1>1, <1>2, <1>3, <1>4, <1>5

\* ConnectorReturns preserves IInv.
LEMMA ConnectorReturnsInv ==
  ASSUME IInv, NEW w \in Workers, ConnectorReturns(w)
  PROVE  IInv'
<1> USE NoneAssumption, BackendAssumption
    DEF IInv, ConnectorReturns, rowVars, kafkaVars, workerVars, historyVars
<1>1. TypeOK'
  <2>1. job[w] \in Jobs
    BY DEF WorkerInv, Working
  <2>2. QED
    BY <2>1 DEF TypeOK, WorkerPhase
<1>2. LocksAreClaims'
  BY DEF TypeOK, LocksAreClaims, WorkerInv, Working
<1>3. RunnerOwnsRow'
  BY DEF TypeOK, RunnerOwnsRow, WorkerInv, Working, Started, LocksAreClaims
<1>4. \A v \in Workers : WorkerInv(v)'
  BY DEF TypeOK, LocksAreClaims, RunnerOwnsRow, WorkerInv, JobInv, Working, Started, Message
<1>5. \A i \in Jobs : JobInv(i)'
  BY DEF TypeOK, LocksAreClaims, RunnerOwnsRow, WorkerInv, JobInv, Working, Started, RequestPhase
<1>6. QED
  BY <1>1, <1>2, <1>3, <1>4, <1>5

\* ConnectorRaises preserves IInv.
LEMMA ConnectorRaisesInv ==
  ASSUME IInv, NEW w \in Workers, ConnectorRaises(w)
  PROVE  IInv'
<1> USE NoneAssumption, BackendAssumption
    DEF IInv, ConnectorRaises, rowVars, kafkaVars, workerVars, historyVars
<1>1. TypeOK'
  BY DEF TypeOK, RequestPhase, JobStatus, WorkerPhase, Message
<1>2. LocksAreClaims'
  BY DEF TypeOK, LocksAreClaims, WorkerInv, Working
<1>3. RunnerOwnsRow'
  BY DEF TypeOK, RunnerOwnsRow, WorkerInv, Working, Started, LocksAreClaims
<1>4. \A v \in Workers : WorkerInv(v)'
  BY DEF TypeOK, LocksAreClaims, RunnerOwnsRow, WorkerInv, JobInv, Working, Started, Message
<1>5. \A i \in Jobs : JobInv(i)'
  BY DEF TypeOK, LocksAreClaims, RunnerOwnsRow, WorkerInv, JobInv, Working, Started, RequestPhase
<1>6. QED
  BY <1>1, <1>2, <1>3, <1>4, <1>5

\* Finish preserves IInv.
LEMMA FinishInv ==
  ASSUME IInv, NEW w \in Workers, Finish(w)
  PROVE  IInv'
<1> USE NoneAssumption, BackendAssumption
    DEF IInv, Finish, Leave, Outcome, AfterJob, rowVars, kafkaVars, workerVars, historyVars
<1>1. TypeOK'
  BY DEF TypeOK, RequestPhase, JobStatus, WorkerPhase, Message
<1>2. LocksAreClaims'
  BY DEF TypeOK, LocksAreClaims, WorkerInv, Working
<1>3. RunnerOwnsRow'
  BY DEF TypeOK, RunnerOwnsRow, WorkerInv, Working, Started, LocksAreClaims
<1>4. \A v \in Workers : WorkerInv(v)'
  BY DEF TypeOK, LocksAreClaims, RunnerOwnsRow, WorkerInv, JobInv, Working, Started, Message
<1>5. \A i \in Jobs : JobInv(i)'
  BY DEF TypeOK, LocksAreClaims, RunnerOwnsRow, WorkerInv, JobInv, Working, Started, RequestPhase
<1>6. QED
  BY <1>1, <1>2, <1>3, <1>4, <1>5

\* FinishRaises preserves IInv.
LEMMA FinishRaisesInv ==
  ASSUME IInv, NEW w \in Workers, FinishRaises(w)
  PROVE  IInv'
<1> USE NoneAssumption, BackendAssumption
    DEF IInv, FinishRaises, Leave, Outcome, AfterEscape, rowVars, kafkaVars, workerVars, historyVars
<1>a. job[w] \in Jobs /\ Started(w) /\ lockedBy[job[w]] = w
  BY DEF WorkerInv, Working, Started, RunnerOwnsRow
<1>1. TypeOK'
  <2>1. status' \in [Jobs -> JobStatus]
    BY <1>a DEF TypeOK, JobStatus
  <2>2. phase' \in [Workers -> WorkerPhase]
    <3>1. phase \in [Workers -> WorkerPhase] /\ {"failing", "committing", "crashed"} \subseteq WorkerPhase
      BY DEF TypeOK, WorkerPhase
    <3>2. \E next \in {"failing", "committing", "crashed"} : phase' = [phase EXCEPT ![w] = next]
      OBVIOUS
    <3>3. QED
      BY <3>1, <3>2
  <2>2a. job' \in [Workers -> Jobs \cup {None}]
    BY DEF TypeOK
  <2>3. left' \in [FaultKind -> Nat]
    BY SpendType DEF FaultKind
  <2>4. QED
    BY <2>1, <2>2, <2>2a, <2>3 DEF TypeOK
<1>2. LocksAreClaims'
  BY DEF TypeOK, LocksAreClaims, WorkerInv, Working
<1>3. RunnerOwnsRow'
  <2>1. ASSUME NEW v \in Workers, v # w, Started(v)
        PROVE  job[v] \in Jobs /\ job[v] # job[w] /\ Started(v)' /\ job'[v] = job[v]
    BY <1>a, <2>1 DEF TypeOK, RunnerOwnsRow, WorkerInv, Working, Started
  <2>2. \A i \in Jobs : i # job[w] => status'[i] = status[i]
    BY <1>a DEF TypeOK
  <2>3. status'[job[w]] \in {status[job[w]], Outcome(w)}
    BY <1>a DEF TypeOK
  <2>4. ASSUME NEW v \in Workers, v # w, Started(v)'
        PROVE  /\ lockedBy'[job'[v]] = v
               /\ status'[job'[v]] \in IF phase'[v] = "failing" THEN {"running", "succeeded"}
                                       ELSE {"running"}
    <3>1. phase'[v] = phase[v]
      BY <2>4 DEF TypeOK
    <3>2. QED
      BY <2>1, <2>2, <2>4, <3>1 DEF RunnerOwnsRow, Started
  <2>5. CASE phase[w] = "finishing"
    <3>1. phase'[w] = "failing" /\ job' = job /\ status[job[w]] = "running"
      BY <2>5 DEF TypeOK, RunnerOwnsRow
    <3>2. QED
      BY <1>a, <2>3, <2>4, <2>5, <3>1 DEF RunnerOwnsRow, Started
  <2>6. CASE phase[w] = "failing"
    <3>1. ~Started(w)'
      BY <2>6 DEF TypeOK, Started
    <3>2. QED
      BY <2>4, <3>1 DEF RunnerOwnsRow, Started
  <2>7. QED
    BY <1>a, <2>5, <2>6 DEF Started
<1>4. ASSUME NEW v \in Workers
      PROVE  WorkerInv(v)'
  <2>1. CASE v = w
    BY <1>a, <2>1 DEF TypeOK, WorkerInv, Working, Started
  <2>2. CASE v # w
    <3>1. phase'[v] = phase[v] /\ job'[v] = job[v]
      BY <2>2 DEF TypeOK
    <3>2. phase[v] = "claiming" => job[v] # job[w]
      BY <1>a DEF WorkerInv, RunnerOwnsRow, Started
    <3>3. QED
      BY <1>a, <3>1, <3>2 DEF TypeOK, WorkerInv, Working, Started
  <2>3. QED
    BY <2>1, <2>2
<1>5. \A i \in Jobs : JobInv(i)'
  BY DEF TypeOK, LocksAreClaims, RunnerOwnsRow, WorkerInv, JobInv, Working, Started, RequestPhase
<1>6. QED
  BY <1>1, <1>2, <1>3, <1>4, <1>5

\* CommitOffset preserves IInv.
LEMMA CommitOffsetInv ==
  ASSUME IInv, NEW w \in Workers, CommitOffset(w)
  PROVE  IInv'
<1> USE NoneAssumption, BackendAssumption
    DEF IInv, CommitOffset, rowVars, kafkaVars, workerVars, historyVars
<1>1. TypeOK'
  <2>1. held[w] \in Message
    BY DEF WorkerInv
  <2>2. QED
    BY <2>1 DEF TypeOK, WorkerPhase, Message
<1>2. LocksAreClaims'
  BY DEF TypeOK, LocksAreClaims, WorkerInv, Working
<1>3. RunnerOwnsRow'
  BY DEF TypeOK, RunnerOwnsRow, WorkerInv, Working, Started, LocksAreClaims
<1>4. \A v \in Workers : WorkerInv(v)'
  BY DEF TypeOK, LocksAreClaims, RunnerOwnsRow, WorkerInv, JobInv, Working, Started, Message
<1>5. \A i \in Jobs : JobInv(i)'
  BY DEF TypeOK, LocksAreClaims, RunnerOwnsRow, WorkerInv, JobInv, Working, Started, RequestPhase
<1>6. QED
  BY <1>1, <1>2, <1>3, <1>4, <1>5

\* Crash preserves IInv.
LEMMA CrashInv ==
  ASSUME IInv, NEW w \in Workers, Crash(w)
  PROVE  IInv'
<1> USE NoneAssumption, BackendAssumption
    DEF IInv, Crash, Spend, FaultKind, Leave, Released, rowVars, kafkaVars, workerVars, historyVars
<1>1. TypeOK'
  BY DEF TypeOK, RequestPhase, JobStatus, WorkerPhase, Message
<1>2. LocksAreClaims'
  BY DEF TypeOK, LocksAreClaims, WorkerInv, Working
<1>3. RunnerOwnsRow'
  BY DEF TypeOK, RunnerOwnsRow, WorkerInv, Working, Started, LocksAreClaims
<1>4. \A v \in Workers : WorkerInv(v)'
  BY DEF TypeOK, LocksAreClaims, RunnerOwnsRow, WorkerInv, JobInv, Working, Started, Message
<1>5. \A i \in Jobs : JobInv(i)'
  BY DEF TypeOK, LocksAreClaims, RunnerOwnsRow, WorkerInv, JobInv, Working, Started, RequestPhase
<1>6. QED
  BY <1>1, <1>2, <1>3, <1>4, <1>5

\* Restart preserves IInv.
LEMMA RestartInv ==
  ASSUME IInv, NEW w \in Workers, Restart(w)
  PROVE  IInv'
<1> USE NoneAssumption, BackendAssumption
    DEF IInv, Restart, rowVars, kafkaVars, workerVars, historyVars
<1>1. TypeOK'
  BY DEF TypeOK, RequestPhase, JobStatus, WorkerPhase, Message
<1>2. LocksAreClaims'
  BY DEF TypeOK, LocksAreClaims, WorkerInv, Working
<1>3. RunnerOwnsRow'
  BY DEF TypeOK, RunnerOwnsRow, WorkerInv, Working, Started, LocksAreClaims
<1>4. \A v \in Workers : WorkerInv(v)'
  BY DEF TypeOK, LocksAreClaims, RunnerOwnsRow, WorkerInv, JobInv, Working, Started, Message
<1>5. \A i \in Jobs : JobInv(i)'
  BY DEF TypeOK, LocksAreClaims, RunnerOwnsRow, WorkerInv, JobInv, Working, Started, RequestPhase
<1>6. QED
  BY <1>1, <1>2, <1>3, <1>4, <1>5

\* Assign preserves IInv.
LEMMA AssignInv ==
  ASSUME IInv, NEW p \in Partitions, NEW w \in Workers, Assign(p, w)
  PROVE  IInv'
<1> USE NoneAssumption, BackendAssumption
    DEF IInv, Assign, ResumeAt, Spend, FaultKind, rowVars, kafkaVars, workerVars, historyVars
<1>1. TypeOK'
  BY DEF TypeOK, RequestPhase, JobStatus, WorkerPhase, Message
<1>2. LocksAreClaims'
  BY DEF TypeOK, LocksAreClaims, WorkerInv, Working
<1>3. RunnerOwnsRow'
  BY DEF TypeOK, RunnerOwnsRow, WorkerInv, Working, Started, LocksAreClaims
<1>4. \A v \in Workers : WorkerInv(v)'
  BY DEF TypeOK, LocksAreClaims, RunnerOwnsRow, WorkerInv, JobInv, Working, Started, Message
<1>5. \A i \in Jobs : JobInv(i)'
  BY DEF TypeOK, LocksAreClaims, RunnerOwnsRow, WorkerInv, JobInv, Working, Started, RequestPhase
<1>6. QED
  BY <1>1, <1>2, <1>3, <1>4, <1>5

\* Stutter preserves IInv.
LEMMA StutterInv ==
  ASSUME IInv, UNCHANGED vars
  PROVE  IInv'
  BY DEF IInv, TypeOK, LocksAreClaims, RunnerOwnsRow, WorkerInv, JobInv, Working, Started, vars,
         rowVars, kafkaVars, workerVars, historyVars

\* Every step preserves IInv.
LEMMA NextIInv == IInv /\ [Next]_vars => IInv'
<1> SUFFICES ASSUME IInv, [Next]_vars
             PROVE  IInv'
  OBVIOUS
<1>1. ASSUME NEW j \in Jobs, InsertJob(j) \/ RequestStep(j) \/ RequestFault(j)
      PROVE  IInv'
  BY <1>1, InsertJobInv, PublishInv, PublishTwiceInv, PublishTimesOutInv, RespondInv,
     CommitRequestInv, AbortRequestInv DEF RequestStep, RequestFault
<1>2. ASSUME NEW w \in Workers, WorkerStep(w)
      PROVE  IInv'
  BY <1>2, ClaimNextJobInv, PollMessageInv, ClaimJobByIdInv, SkipMessageInv, StartJobInv,
     ConnectorReturnsInv, ConnectorRaisesInv, FinishInv, CommitOffsetInv, RestartInv DEF WorkerStep
<1>3. ASSUME NEW w \in Workers, WorkerFault(w)
      PROVE  IInv'
  BY <1>3, ClaimRaisesInv, FinishRaisesInv, CrashInv DEF WorkerFault
<1>4. ASSUME NEW w \in Workers, PollNothing(w)
      PROVE  IInv'
  BY <1>4, StutterInv DEF PollNothing
<1>5. ASSUME NEW p \in Partitions, NEW w \in Workers, Assign(p, w)
      PROVE  IInv'
  BY <1>5, AssignInv
<1>6. QED
  BY <1>1, <1>2, <1>3, <1>4, <1>5, StutterInv DEF Next

\* The inductive invariant holds in every reachable state.
THEOREM Inductive == Spec => []IInv
  BY InitIInv, NextIInv, PTL DEF Spec

-----------------------------------------------------------------------------
\* Every variable keeps its type.
THEOREM TypeCorrect == Spec => []TypeOK
<1>1. IInv => TypeOK
  BY DEF IInv
<1>2. QED
  BY <1>1, Inductive, PTL

\* No redelivery, duplicate, crash or retry starts a job's connector a second time.
THEOREM RunsAtMostOnce == Spec => []AtMostOneRun
<1>1. IInv => AtMostOneRun
  BY DEF IInv, JobInv, AtMostOneRun
<1>2. QED
  BY <1>1, Inductive, PTL

\* Two workers never work on the same job: a claim holds the row lock of a pending row, and
\* a run holds a row that is no longer pending and names its worker.
THEOREM ExclusiveWork == Spec => []OneWorkerPerJob
<1>1. IInv => OneWorkerPerJob
  <2> SUFFICES ASSUME IInv, NEW v \in Workers, NEW w \in Workers,
                      Working(v), Working(w), job[v] = job[w]
               PROVE  v = w
    BY DEF OneWorkerPerJob
  <2>1. CASE phase[v] = "claiming" /\ phase[w] = "claiming"
    BY <2>1 DEF IInv, LocksAreClaims, WorkerInv
  <2>2. CASE Started(v) /\ Started(w)
    BY <2>2 DEF IInv, RunnerOwnsRow, Started
  <2>3. CASE phase[v] = "claiming" /\ Started(w)
    BY <2>3 DEF IInv, RunnerOwnsRow, WorkerInv, Started
  <2>4. CASE Started(v) /\ phase[w] = "claiming"
    BY <2>4 DEF IInv, RunnerOwnsRow, WorkerInv, Started
  <2>5. QED
    BY <2>1, <2>2, <2>3, <2>4 DEF Working, Started
<1>2. QED
  BY <1>1, Inductive, PTL

\* A connector never runs for a request that was rolled back, although its message may be
\* in the topic.
THEOREM NoRunWithoutCommit == Spec => []RunsOnlyCommitted
<1>1. IInv => RunsOnlyCommitted
  BY DEF IInv, JobInv, RunsOnlyCommitted
<1>2. QED
  BY <1>1, Inductive, PTL

\* A row that says "succeeded" had exactly one run and that run returned.
THEOREM SuccessCorrect == Spec => []SuccessIsEarned
<1>1. IInv => SuccessIsEarned
  BY DEF IInv, JobInv, SuccessIsEarned
<1>2. QED
  BY <1>1, Inductive, PTL

\* Row locks are held by claims in progress only, and a run is always recorded on a row
\* that names the worker recording it.
THEOREM ClaimsCorrect == Spec => [](LocksAreClaims /\ RunnerOwnsRow)
<1>1. IInv => LocksAreClaims /\ RunnerOwnsRow
  BY DEF IInv
<1>2. QED
  BY <1>1, Inductive, PTL

-----------------------------------------------------------------------------
(* Refinement. *)

\* The initial states are initial states of JobLifecycle.
LEMMA LifecycleInit == Init => Lifecycle!Init
  BY DEF Init, Lifecycle!Init

\* Every step is a step of JobLifecycle or a stutter.
LEMMA LifecycleStep == IInv /\ [Next]_vars => [Lifecycle!Next]_<<status, lockedBy>>
<1> SUFFICES ASSUME IInv, [Next]_vars
             PROVE  [Lifecycle!Next]_<<status, lockedBy>>
  OBVIOUS
<1> USE DEF rowVars, kafkaVars, workerVars, historyVars
<1>1. ASSUME NEW j \in Jobs, CommitRequest(j)
      PROVE  Lifecycle!Submit(j)
  BY <1>1 DEF IInv, JobInv, CommitRequest, Lifecycle!Submit
<1>2. ASSUME NEW j \in Jobs, InsertJob(j) \/ RequestStep(j) \/ RequestFault(j)
      PROVE  CommitRequest(j) \/ UNCHANGED <<status, lockedBy>>
  BY <1>2 DEF InsertJob, RequestStep, RequestFault, Publish, Respond, PublishTwice,
              PublishTimesOut, AbortRequest
<1>3. ASSUME NEW w \in Workers, StartJob(w)
      PROVE  job[w] \in Jobs /\ Lifecycle!Start(w, job[w])
  BY <1>3 DEF IInv, WorkerInv, Working, StartJob, Lifecycle!Start
<1>4. ASSUME NEW w \in Workers, ClaimRaises(w)
      PROVE  job[w] \in Jobs /\ (Lifecycle!Start(w, job[w]) \/ UNCHANGED <<status, lockedBy>>)
  BY <1>4 DEF IInv, WorkerInv, Working, ClaimRaises, Lifecycle!Start
<1>5. ASSUME NEW w \in Workers, Finish(w) \/ FinishRaises(w)
      PROVE  /\ job[w] \in Jobs
             /\ \/ \E outcome \in Terminal : Lifecycle!End(w, job[w], outcome)
                \/ Lifecycle!Retract(w, job[w])
                \/ UNCHANGED <<status, lockedBy>>
  <2>1. /\ phase[w] \in {"finishing", "failing"}
        /\ job[w] \in Jobs
        /\ lockedBy[job[w]] = w
        /\ status[job[w]] = "running" \/ (phase[w] = "failing" /\ status[job[w]] = "succeeded")
    BY <1>5 DEF IInv, WorkerInv, RunnerOwnsRow, Working, Finish, FinishRaises
  <2>2. /\ lockedBy' = lockedBy
        /\ status' = [status EXCEPT ![job[w]] = Outcome(w)] \/ status' = status
    BY <1>5 DEF Finish, FinishRaises
  <2>3. Outcome(w) \in Terminal /\ (phase[w] = "failing" => Outcome(w) = "failed")
    BY <2>1 DEF Outcome, Terminal
  <2>4. QED
    BY <2>1, <2>2, <2>3 DEF Lifecycle!End, Lifecycle!Retract
<1>6. ASSUME NEW w \in Workers, WorkerStep(w)
      PROVE  StartJob(w) \/ Finish(w) \/ UNCHANGED <<status, lockedBy>>
  BY <1>6 DEF WorkerStep, ClaimNextJob, PollMessage, ClaimJobById, SkipMessage, ConnectorReturns,
              ConnectorRaises, CommitOffset, Restart
<1>7. ASSUME NEW w \in Workers, WorkerFault(w)
      PROVE  ClaimRaises(w) \/ FinishRaises(w) \/ UNCHANGED <<status, lockedBy>>
  BY <1>7 DEF WorkerFault, Crash
<1>8. ASSUME NEW w \in Workers, PollNothing(w)
      PROVE  UNCHANGED <<status, lockedBy>>
  BY <1>8 DEF PollNothing, vars
<1>9. ASSUME NEW p \in Partitions, NEW w \in Workers, Assign(p, w)
      PROVE  UNCHANGED <<status, lockedBy>>
  BY <1>9 DEF Assign
<1>10. UNCHANGED vars => UNCHANGED <<status, lockedBy>>
  BY DEF vars
<1>11. Terminal = Lifecycle!Terminal
  BY DEF Terminal, Lifecycle!Terminal
<1>12. QED
  BY <1>1, <1>2, <1>3, <1>4, <1>5, <1>6, <1>7, <1>8, <1>9, <1>10, <1>11 DEF Next, Lifecycle!Next

\* Whichever backend carries it, a job row lives the life JobLifecycle describes.
THEOREM Refines == Spec => LifecycleSpec
  BY LifecycleInit, LifecycleStep, Inductive, PTL
  DEF Spec, LifecycleSpec, Lifecycle!Spec, Lifecycle!vars

=============================================================================
