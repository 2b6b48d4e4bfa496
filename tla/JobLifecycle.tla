---------------------------- MODULE JobLifecycle ----------------------------
(***************************************************************************)
(* What an operator may rely on about one row of `ingestion_jobs`,         *)
(* whichever queue backend runs it: the row appears once as "pending", one *)
(* worker takes it once, and only that worker ends it.  The single         *)
(* correction a row can ever receive is "succeeded" -> "failed", by the    *)
(* worker that ran it.  Nothing is said about how workers find jobs.       *)
(***************************************************************************)
CONSTANTS Jobs,     \* ids of the jobs operators may ask for
          Workers,  \* worker replicas
          None      \* no worker

VARIABLES state,    \* state[j]: the status column of the committed row of j, "absent" without one
          runner    \* runner[j]: the locked_by column

vars == <<state, runner>>

JobState == {"absent", "pending", "running", "succeeded", "failed"}
Terminal == {"succeeded", "failed"}

TypeOK == /\ state \in [Jobs -> JobState]
          /\ runner \in [Jobs -> Workers \cup {None}]

Init == /\ state = [j \in Jobs |-> "absent"]
        /\ runner = [j \in Jobs |-> None]

\* An operator's request becomes visible.
Submit(j) == /\ state[j] = "absent"
             /\ state' = [state EXCEPT ![j] = "pending"]
             /\ UNCHANGED runner

\* A worker takes a job; from here on the job is this worker's alone.
Start(w, j) == /\ state[j] = "pending"
               /\ state' = [state EXCEPT ![j] = "running"]
               /\ runner' = [runner EXCEPT ![j] = w]

\* The worker that started the job records how it ended.
End(w, j, outcome) == /\ state[j] = "running"
                      /\ runner[j] = w
                      /\ state' = [state EXCEPT ![j] = outcome]
                      /\ UNCHANGED runner

\* The same worker takes a success back.
Retract(w, j) == /\ state[j] = "succeeded"
                 /\ runner[j] = w
                 /\ state' = [state EXCEPT ![j] = "failed"]
                 /\ UNCHANGED runner

Next == \E j \in Jobs :
          \/ Submit(j)
          \/ \E w \in Workers :
               \/ Start(w, j)
               \/ \E outcome \in Terminal : End(w, j, outcome)
               \/ Retract(w, j)

Spec == Init /\ [][Next]_vars
=============================================================================
