------------------------------ MODULE JobService ------------------------------
(***************************************************************************)
(* Jobs under JOB_BACKEND=inline: POST /report/generate (api/main.py), the *)
(* asyncio task it starts for each job (api/inline_runner.py) and the job  *)
(* store (api/database.py), which is a dict of the server process or       *)
(* Postgres.                                                               *)
(*                                                                         *)
(* The server is one event loop: code runs until it awaits something that  *)
(* is not ready.  With the dict no store call ever waits; with Postgres    *)
(* every one of them does, and may fail, or be applied and still raise     *)
(* (a timeout, a connection dropped before the acknowledgement).  The      *)
(* server may stop at any moment and is then started again.                *)
(*                                                                         *)
(* The pipeline a job runs is ResearchPipeline, seen here as a number of   *)
(* node runs that ends with a report or with a fatal error.                *)
(***************************************************************************)
EXTENDS Integers, FiniteSets

CONSTANTS
  Jobs,            \* one request, and the job_id it may get
  MaxInlineJobs,   \* MAX_INLINE_JOBS
  MaxNodes,        \* bound: node runs of one pipeline
  MaxRestarts      \* bound: how often the server stops

ASSUME MaxInlineJobsAssumption == MaxInlineJobs \in Nat
ASSUME BoundsAssumption == MaxNodes \in Nat /\ MaxRestarts \in Nat

VARIABLES
  store,          \* backend_name(): DATABASE_URL is read once, at import
  request,        \* how far generate_report has come with a request
  row,            \* the job's row in the store
  task,           \* where run_job_inline is, for each job
  nodes,          \* nodes whose feed entries the pipeline has produced
  inline_tasks,   \* _inline_tasks
  active_jobs,    \* the gauge ACTIVE_JOBS
  restarts,
  (* history *)
  abandoned,      \* jobs whose task, row or last write was lost
  broke           \* how a node ended the pipeline: said so, or raised

vars == <<store, request, row, task, nodes, inline_tasks, active_jobs,
          restarts, abandoned, broke>>

Stores   == {"memory", "postgres"}
Requests == {"none", "creating", "created", "accepted", "refused", "errored"}
Statuses == {"absent", "queued", "running", "completed", "failed"}
Row      == [status : Statuses, report : BOOLEAN, feed : Nat]
NoRow    == [status |-> "absent", report |-> FALSE, feed |-> 0]
Working  == {"created", "running", "reporting", "completing", "failing"}
Stages   == {"none", "returned"} \cup Working

TypeOK ==
  /\ store \in Stores
  /\ request \in [Jobs -> Requests]
  /\ row \in [Jobs -> Row]
  /\ task \in [Jobs -> Stages]
  /\ nodes \in [Jobs -> Nat]
  /\ inline_tasks \subseteq Jobs
  /\ active_jobs \in Nat
  /\ restarts \in Nat
  /\ abandoned \subseteq Jobs
  /\ broke \in [Jobs -> {"none", "reported", "raised"}]

-----------------------------------------------------------------------------
(* Helpers.  A definition whose name ends in _ and a word is the definition *)
(* after it with a bug: no specification uses it, the mutation runs do.    *)

Alive   == {j \in Jobs : task[j] \in Working}
Stored  == {j \in Jobs : row[j].status # "absent"}
Open(j) == row[j].status \in {"queued", "running"}

Full_OneMore == Cardinality(inline_tasks) > MaxInlineJobs
Full == Cardinality(inline_tasks) >= MaxInlineJobs

(* How a call of the store may end: done; raised and not applied; raised   *)
(* although it was applied.                                                *)
Outcomes == IF store = "memory" THEN {"ok"} ELSE {"ok", "lost", "unacked"}

(* update_job_status, or the insert of create_job, with outcome o.         *)
Write(j, new, o) ==
  row' = IF o = "lost" THEN row ELSE [row EXCEPT ![j] = new]

GoTo(j, stage) == task' = [task EXCEPT ![j] = stage]

(* The rest of generate_report once create_job has returned.               *)
Dispatch(j) ==
  /\ request' = [request EXCEPT ![j] = "accepted"]
  /\ GoTo(j, "created")
  /\ inline_tasks' = inline_tasks \cup {j}
  /\ active_jobs' = active_jobs + 1

-----------------------------------------------------------------------------
Init ==
  /\ store \in Stores
  /\ request = [j \in Jobs |-> "none"]
  /\ row = [j \in Jobs |-> NoRow]
  /\ task = [j \in Jobs |-> "none"]
  /\ nodes = [j \in Jobs |-> 0]
  /\ inline_tasks = {} /\ active_jobs = 0 /\ restarts = 0 /\ abandoned = {}
  /\ broke = [j \in Jobs |-> "none"]

(* generate_report without a key it may use (400), or at capacity (503).   *)
Refuse_Releases(j) ==
  /\ request[j] = "none"
  /\ \E has_key \in BOOLEAN : ~has_key \/ Full
  /\ request' = [request EXCEPT ![j] = "refused"]
  /\ active_jobs' = active_jobs - 1
  /\ UNCHANGED <<store, row, task, nodes, inline_tasks, restarts, abandoned,
                 broke>>
Refuse(j) ==
  /\ request[j] = "none"
  /\ \E has_key \in BOOLEAN : ~has_key \/ Full
  /\ request' = [request EXCEPT ![j] = "refused"]
  /\ UNCHANGED <<store, row, task, nodes, inline_tasks, active_jobs,
                 restarts, abandoned, broke>>

(* generate_report, admitted.  With the dict it runs to its end; with      *)
(* Postgres it awaits create_job.                                          *)
Admit(j) ==
  /\ request[j] = "none"
  /\ ~Full
  /\ \/ /\ store = "memory"
        /\ Write(j, [NoRow EXCEPT !.status = "queued"], "ok")
        /\ Dispatch(j)
     \/ /\ store = "postgres"
        /\ request' = [request EXCEPT ![j] = "creating"]
        /\ UNCHANGED <<row, task, inline_tasks, active_jobs>>
  /\ UNCHANGED <<store, nodes, restarts, abandoned, broke>>

(* The INSERT of create_job.  An error is a 500 that names no job.         *)
CreateJob_IgnoresError(j) ==
  /\ request[j] = "creating"
  /\ \E o \in Outcomes : Write(j, [NoRow EXCEPT !.status = "queued"], o)
  /\ request' = [request EXCEPT ![j] = "created"]
  /\ UNCHANGED <<store, task, nodes, inline_tasks, active_jobs, restarts,
                 abandoned, broke>>
CreateJob(j) ==
  /\ request[j] = "creating"
  /\ \E o \in Outcomes :
       /\ Write(j, [NoRow EXCEPT !.status = "queued"], o)
       /\ request' = [request EXCEPT
                        ![j] = IF o = "ok" THEN "created" ELSE "errored"]
  /\ UNCHANGED <<store, task, nodes, inline_tasks, active_jobs, restarts,
                 abandoned, broke>>

(* generate_report resumes: the capacity is not looked at again.           *)
StartTask(j) ==
  /\ request[j] = "created"
  /\ Dispatch(j)
  /\ UNCHANGED <<store, row, nodes, restarts, abandoned, broke>>

(* run_job_inline: the row becomes running, or the job fails.              *)
BeginJob_OutsideTry(j) ==
  /\ task[j] = "created"
  /\ \E o \in Outcomes :
       /\ Write(j, [row[j] EXCEPT !.status = "running"], o)
       /\ GoTo(j, IF o = "ok" THEN "running" ELSE "returned")
  /\ UNCHANGED <<store, request, nodes, inline_tasks, active_jobs, restarts,
                 abandoned, broke>>
BeginJob(j) ==
  /\ task[j] = "created"
  /\ \E o \in Outcomes :
       /\ Write(j, [row[j] EXCEPT !.status = "running"], o)
       /\ GoTo(j, IF o = "ok" THEN "running" ELSE "failing")
  /\ UNCHANGED <<store, request, nodes, inline_tasks, active_jobs, restarts,
                 abandoned, broke>>

(* A node returns and persist_progress shows its entries; run_pipeline     *)
(* swallows its error.                                                     *)
PersistProgress(j) ==
  /\ task[j] = "running"
  /\ nodes[j] < MaxNodes
  /\ nodes' = [nodes EXCEPT ![j] = @ + 1]
  /\ \E o \in Outcomes : Write(j, [row[j] EXCEPT !.feed = nodes[j] + 1], o)
  /\ UNCHANGED <<store, request, task, inline_tasks, active_jobs, restarts,
                 abandoned, broke>>

(* run_pipeline returns a report.                                          *)
PipelineDelivers(j) ==
  /\ task[j] = "running"
  /\ GoTo(j, "completing")
  /\ UNCHANGED <<store, request, row, nodes, inline_tasks, active_jobs,
                 restarts, abandoned, broke>>

(* run_pipeline returns a fatal error.  A node that reports it itself has  *)
(* an entry in the feed, which persist_progress was not called for; of one *)
(* that raises the graph drops what it wrote, its entry too.               *)
PipelineFails_DropsFeed(j) ==
  /\ task[j] = "running"
  /\ \/ /\ nodes' = [nodes EXCEPT ![j] = @ + 1]
        /\ broke' = [broke EXCEPT ![j] = "reported"]
     \/ /\ UNCHANGED nodes
        /\ broke' = [broke EXCEPT ![j] = "raised"]
  /\ GoTo(j, "failing")
  /\ UNCHANGED <<store, request, row, inline_tasks, active_jobs, restarts,
                 abandoned>>
PipelineFails(j) ==
  /\ task[j] = "running"
  /\ \/ /\ nodes' = [nodes EXCEPT ![j] = @ + 1]
        /\ broke' = [broke EXCEPT ![j] = "reported"]
     \/ /\ UNCHANGED nodes
        /\ broke' = [broke EXCEPT ![j] = "raised"]
  /\ GoTo(j, "reporting")
  /\ UNCHANGED <<store, request, row, inline_tasks, active_jobs, restarts,
                 abandoned>>

(* run_job_inline keeps the partial feed and raises.                       *)
ReportFatal(j) ==
  /\ task[j] = "reporting"
  /\ \E o \in Outcomes : Write(j, [row[j] EXCEPT !.feed = nodes[j]], o)
  /\ GoTo(j, "failing")
  /\ UNCHANGED <<store, request, nodes, inline_tasks, active_jobs, restarts,
                 abandoned, broke>>

(* run_job_inline stores the report; an error of that write fails the job. *)
CompleteJob_GivesUp(j) ==
  /\ task[j] = "completing"
  /\ \E o \in Outcomes :
       Write(j, [status |-> "completed", report |-> TRUE, feed |-> nodes[j]], o)
  /\ GoTo(j, "returned")
  /\ UNCHANGED <<store, request, nodes, inline_tasks, active_jobs, restarts,
                 abandoned, broke>>
CompleteJob(j) ==
  /\ task[j] = "completing"
  /\ \E o \in Outcomes :
       /\ Write(j, [status |-> "completed", report |-> TRUE,
                    feed |-> nodes[j]], o)
       /\ GoTo(j, IF o = "ok" THEN "returned" ELSE "failing")
  /\ UNCHANGED <<store, request, nodes, inline_tasks, active_jobs, restarts,
                 abandoned, broke>>

(* The handler of run_job_inline.  An error of its write is only logged.   *)
FailJob_Requeues(j) ==
  /\ task[j] = "failing"
  /\ Write(j, [row[j] EXCEPT !.status = "queued"], "ok")
  /\ GoTo(j, "created")
  /\ UNCHANGED <<store, request, nodes, inline_tasks, active_jobs, restarts,
                 abandoned, broke>>
FailJob(j) ==
  /\ task[j] = "failing"
  /\ \E o \in Outcomes :
       /\ Write(j, [row[j] EXCEPT !.status = "failed"], o)
       /\ abandoned' = IF o = "lost" THEN abandoned \cup {j} ELSE abandoned
  /\ GoTo(j, "returned")
  /\ UNCHANGED <<store, request, nodes, inline_tasks, active_jobs, restarts,
                 broke>>

(* The done callback of the task: the loop calls it after the task ended.  *)
DiscardTask_IfCompleted(j) ==
  /\ task[j] = "returned"
  /\ row[j].status = "completed"
  /\ j \in inline_tasks
  /\ inline_tasks' = inline_tasks \ {j}
  /\ UNCHANGED <<store, request, row, task, nodes, active_jobs, restarts,
                 abandoned, broke>>
DiscardTask(j) ==
  /\ task[j] = "returned"
  /\ j \in inline_tasks
  /\ inline_tasks' = inline_tasks \ {j}
  /\ UNCHANGED <<store, request, row, task, nodes, active_jobs, restarts,
                 abandoned, broke>>

(* The server stops (a crash, a reclaimed instance, a deploy) and starts   *)
(* again: tasks, handlers and the dict are gone, rows in Postgres stay as  *)
(* they are, and init_db looks at none of them.                            *)
Restart ==
  /\ restarts < MaxRestarts
  /\ restarts' = restarts + 1
  /\ request' = [j \in Jobs |-> IF request[j] \in {"creating", "created"}
                                  THEN "errored" ELSE request[j]]
  /\ task' = [j \in Jobs |-> "none"]
  /\ inline_tasks' = {} /\ active_jobs' = 0
  /\ row' = IF store = "memory" THEN [j \in Jobs |-> NoRow] ELSE row
  /\ abandoned' = abandoned \cup Alive
                    \cup IF store = "memory" THEN Stored ELSE {}
  /\ UNCHANGED <<store, nodes, broke>>

Handler(j) == CreateJob(j) \/ StartTask(j)

TaskStep(j) ==
  \/ BeginJob(j) \/ PersistProgress(j) \/ PipelineDelivers(j)
  \/ PipelineFails(j) \/ ReportFatal(j) \/ CompleteJob(j) \/ FailJob(j)
  \/ DiscardTask(j)

Next ==
  \/ \E j \in Jobs : Refuse(j) \/ Admit(j) \/ Handler(j) \/ TaskStep(j)
  \/ Restart

Spec == Init /\ [][Next]_vars

(* The event loop runs every ready handler, task and callback; a pipeline  *)
(* ends (JobEnds of ResearchPipeline).  Nobody has to submit a job, and    *)
(* the server need not stop.                                               *)
Fairness == \A j \in Jobs : WF_vars(Handler(j)) /\ WF_vars(TaskStep(j))

FairSpec == Spec /\ Fairness
-----------------------------------------------------------------------------
(* Properties *)

(* With the in-process store there are never more pipelines at work than   *)
(* MAX_INLINE_JOBS (main.py:68-73): between the check and the start of the *)
(* task the handler does not wait.                                         *)
MemoryCeilingHolds == store = "memory" => Cardinality(Alive) <= MaxInlineJobs

(* Whoever was told a job_id can poll it: the row is there, unless it was  *)
(* held in the memory of a server that stopped (main.py:254-280).          *)
AcceptedIsPollable ==
  \A j \in Jobs : request[j] = "accepted" =>
    j \in Stored \/ (store = "memory" /\ restarts > 0)

(* No client polls a job forever that nobody works on (main.py:244-246):   *)
(* an open job it was told about has its task, unless a restart or the     *)
(* loss of the failure's own write took it away (inline_runner.py:124-128).*)
OpenJobsAreAttended ==
  \A j \in Jobs : request[j] = "accepted" /\ Open(j) =>
    j \in Alive \cup abandoned

(* The agent that broke has the last entry of the feed.                    *)
Named(j) == broke[j] = "reported" /\ row[j].feed = nodes[j]

(* The partial feed of a failed job names the agent that broke             *)
(* (inline_runner.py:76), if that agent reported the error itself: one     *)
(* that raises (graph.py:241) leaves no entry, and the feed ends with the  *)
(* agent before it.  Nothing else fails a job, and no entry is lost, with  *)
(* the dict; with Postgres that write can be lost like any other.          *)
ReportedFailureIsNamed ==
  \A j \in Jobs : store = "memory" /\ row[j].status = "failed" =>
    Named(j) \/ (broke[j] = "raised" /\ row[j].feed = nodes[j])

(* What a client sees of its jobs follows JobLifecycle.                    *)
Lifecycle == INSTANCE JobLifecycle
               WITH status   <- [j \in Jobs |-> row[j].status],
                    reported <- [j \in Jobs |-> row[j].report],
                    feed     <- [j \in Jobs |-> row[j].feed],
                    volatile <- store = "memory"

KeepsLifecycle == Lifecycle!Spec

(* What a page that was told of a job sees of it.                          *)
Seen(j) ==
  IF request[j] # "accepted" THEN "none"
  ELSE IF row[j].status = "absent" THEN "lost"
  ELSE IF Open(j) THEN "running" ELSE row[j].status

Served(j) == INSTANCE ServedJob WITH row <- Seen(j)

(* Each job is served to the page that was told of it as ServedJob says:   *)
(* its row appears, ends, may end once more, and is lost for good.         *)
ServesPages ==
  /\ \A j \in Jobs : Served(j)!Init
  /\ [][\A j \in Jobs : [Served(j)!Next]_(Seen(j))]_vars

(* An accepted job comes to an end that its row shows, or was lost with a  *)
(* restart or with the failure's own write.                                *)
AcceptedJobsSettle ==
  \A j \in Jobs : request[j] = "accepted" ~>
    row[j].status \in {"completed", "failed"} \/ j \in abandoned

(* A slot of the capacity comes back, however the job ended: without it    *)
(* the server would answer 503 for good.                                   *)
SlotsComeBack == \A j \in Jobs : j \in inline_tasks ~> j \notin inline_tasks

-----------------------------------------------------------------------------
(* Why the properties hold: inductive strengthenings, proved in            *)
(* JobServiceProofs.                                                       *)

(* Whoever works holds a slot; with the dict no request is between the     *)
(* check and the start of its task.                                        *)
CapacityInv ==
  /\ IsFiniteSet(inline_tasks)
  /\ Alive \subseteq inline_tasks
  /\ store = "memory" =>
       /\ Cardinality(inline_tasks) <= MaxInlineJobs
       /\ \A j \in Jobs : request[j] \notin {"creating", "created"}

(* A job's row, task and request agree.                                    *)
JobInv(j) ==
  /\ request[j] \in {"none", "creating"} => row[j] = NoRow
  /\ request[j] = "created" => row[j].status = "queued"
  /\ request[j] # "accepted" => task[j] = "none" /\ nodes[j] = 0
  /\ request[j] = "accepted" /\ store = "postgres" => j \in Stored
  /\ request[j] = "accepted" /\ task[j] = "none" =>
       restarts > 0 /\ (~Open(j) \/ j \in abandoned)
  /\ task[j] = "created" => row[j].status = "queued"
  /\ task[j] \in {"running", "reporting", "completing"} =>
       row[j].status = "running"
  /\ task[j] = "failing" =>
       row[j].status \in {"queued", "running", "completed"}
  /\ task[j] = "returned" => j \in Stored /\ (~Open(j) \/ j \in abandoned)
  /\ row[j].feed <= nodes[j]

(* The dict's feed is behind only until the fatal node's entries are kept. *)
FeedInv(j) ==
  store = "memory" =>
    /\ task[j] \in Working \ {"reporting"} => row[j].feed = nodes[j]
    /\ task[j] \in {"reporting", "failing"} => broke[j] # "none"
    /\ row[j].status = "failed" => row[j].feed = nodes[j] /\ broke[j] # "none"

(* A slot of the capacity belongs to a task, at work or returned.          *)
SlotInv ==
  /\ \A j \in inline_tasks : task[j] # "none"
  /\ \A j \in Jobs : task[j] \in {"created", "running"} => nodes[j] <= MaxNodes

(* How far a task is from giving its slot back.                            *)
StageRank == [none |-> 0, returned |-> 0, failing |-> 1, completing |-> 2,
              reporting |-> 2, running |-> 3, created |-> 4]

Rank(j) ==
  StageRank[task[j]]
    + (IF task[j] \in {"created", "running"} THEN MaxNodes - nodes[j] ELSE 0)
    + (IF j \in inline_tasks THEN 1 ELSE 0)

(* Every step of a task, whatever becomes of its writes, brings its slot   *)
(* nearer to being free, nothing takes it away from it, and a task that    *)
(* has nothing left to do holds none.                                      *)
SlotsRunDown ==
  [][\A j \in Jobs :
       /\ TaskStep(j) => Rank(j)' < Rank(j)
       /\ Rank(j)' > Rank(j) => Admit(j) \/ StartTask(j)
       /\ Rank(j) = 0 => j \notin inline_tasks]_vars

-----------------------------------------------------------------------------
(* What the documentation says and the code does not do *)

(* main.py:69: MAX_INLINE_JOBS is the ceiling on concurrent in-process     *)
(* pipelines, whatever the store.                                          *)
CeilingHolds == Cardinality(Alive) <= MaxInlineJobs

=============================================================================
