----------------------------- MODULE CeleryWorker -----------------------------
(***************************************************************************)
(* Jobs under JOB_BACKEND=celery: POST /report/generate publishes a task   *)
(* (api/main.py), the Celery worker runs it (api/worker.py) and writes the *)
(* job's row (api/database.py) over a connection of its own.               *)
(*                                                                         *)
(* The broker is Redis.  A message is taken by a free slot of the worker   *)
(* and, with task_acks_late, acknowledged when its task has returned.  A   *)
(* worker that is lost gives its messages back; a child process that is    *)
(* killed does not: Celery acknowledges its message, because               *)
(* task_reject_on_worker_lost is not set and acks_on_failure_or_timeout is *)
(* on by default.  A publication that fails is repeated (task_publish_retry *)
(* is on by default too), whether or not the broker took it: there may be  *)
(* several copies of one message.                                          *)
(*                                                                         *)
(* The pipeline is one step here: the worker passes run_pipeline no        *)
(* on_progress, so nothing is written while it runs.                       *)
(***************************************************************************)
EXTENDS Integers, FiniteSets

CONSTANTS
  Jobs,          \* one request, and the job_id it may get
  Slots,         \* the processes of the worker (--concurrency)
  WorkerQueues,  \* the queues the worker reads (--queues)
  MaxRetries,    \* max_retries of the task
  MaxCrashes,    \* bound: how often the worker is lost
  MaxRepeats     \* bound: copies of a job's messages beyond one each

ASSUME RetriesAssumption == MaxRetries \in Nat
ASSUME CrashesAssumption == MaxCrashes \in Nat
ASSUME RepeatsAssumption == MaxRepeats \in Nat
ASSUME SlotsAssumption   == IsFiniteSet(Slots)

VARIABLES
  store,      \* backend_name() of the server
  request,    \* how far generate_report has come with a request
  row,        \* the job's row in the store
  queue,      \* how many copies of a message wait in the broker
  stage,      \* where submit_report_job is, in each slot
  holds,      \* the message a slot has taken and not acknowledged
  unacked,    \* slots of whose message the broker keeps a record
  error,      \* what the task in a slot raised, until it is handled
  crashes,
  (* history *)
  starts,     \* pipelines started for a job
  repeats,    \* copies of a job's messages beyond one each
  abandoned   \* jobs whose message or last write was lost while they were open

vars == <<store, request, row, queue, stage, holds, unacked, error, crashes,
          starts, repeats, abandoned>>

Stores   == {"memory", "postgres"}
Requests == {"none", "creating", "created", "accepted", "refused", "errored"}
Statuses == {"absent", "queued", "running", "completed", "failed"}
Row      == [status : Statuses, report : BOOLEAN]
NoRow    == [status |-> "absent", report |-> FALSE]

(* A message: a job, and how often it was retried before.                  *)
Messages == Jobs \X (0..MaxRetries)
Nothing  == <<>>
AtWork   == {"started", "running", "completing", "failing"}
Stages   == AtWork \cup {"idle", "retrying", "finished"}

(* What a task may raise: an error of the store whose class is called      *)
(* ConnectionError; anything else, a rate limit the pipeline ran into      *)
(* among it, which comes as a RuntimeError.                                *)
Errors    == {"none", "connection", "other"}
Retryable == {"connection"}

TypeOK ==
  /\ store \in Stores
  /\ request \in [Jobs -> Requests]
  /\ row \in [Jobs -> Row]
  /\ queue \in [Messages -> Nat]
  /\ stage \in [Slots -> Stages]
  /\ holds \in [Slots -> Messages \cup {Nothing}]
  /\ \A w \in Slots : holds[w] = Nothing <=> stage[w] = "idle"
  /\ unacked \subseteq {w \in Slots : stage[w] # "idle"}
  /\ error \in [Slots -> Errors]
  /\ crashes \in Nat
  /\ starts \in [Jobs -> Nat]
  /\ repeats \in [Jobs -> 0..MaxRepeats]
  /\ abandoned \subseteq Jobs

-----------------------------------------------------------------------------
(* Helpers.  A definition whose name ends in _ and a word is the definition *)
(* after it with a bug: no specification uses it, the mutation runs do.    *)

JobOf(w)     == holds[w][1]
RetriesOf(w) == holds[w][2]
Open(j)      == row[j].status \in {"queued", "running"}
OpenAmong(S) == {j \in S : Open(j)}

(* .delay() publishes to Celery's default queue: no route is configured.   *)
Consumed == "celery" \in WorkerQueues

(* How a call of the database may end: done; raised and not applied;       *)
(* raised although it was applied.                                         *)
Outcomes == {"ok", "lost", "unacked"}

(* The worker refuses to write when there is only the server's dict.       *)
WorkerOutcomes == IF store = "memory" THEN {"lost"} ELSE Outcomes

Write(j, new, o) ==
  row' = IF o = "lost" THEN row ELSE [row EXCEPT ![j] = new]

(* apply_async leaves some copies of a message of job j.  It is tried      *)
(* again after each error, and an attempt that failed may have been        *)
(* applied; when none was, it raises.  A worker that takes the first copy  *)
(* before the last is there does what it would do anyway.                  *)
Beyond(copies) == IF copies > 1 THEN copies - 1 ELSE 0

Enqueue(j, retries, copies) ==
  /\ Beyond(copies) <= MaxRepeats - repeats[j]
  /\ queue' = [queue EXCEPT ![<<j, retries>>] = @ + copies]
  /\ repeats' = [repeats EXCEPT ![j] = @ + Beyond(copies)]

GoTo(w, s) == stage' = [stage EXCEPT ![w] = s]

Raise(w, e) ==
  /\ GoTo(w, "failing")
  /\ error' = [error EXCEPT ![w] = e]

Release(w) ==
  /\ GoTo(w, "idle")
  /\ holds' = [holds EXCEPT ![w] = Nothing]
  /\ unacked' = unacked \ {w}
  /\ error' = [error EXCEPT ![w] = "none"]

(* The rest of generate_report once create_job has returned.  An error of  *)
(* the broker that persists is a 500, and the row stays as it is.          *)
Dispatch_Twice(j) ==
  /\ queue' = [queue EXCEPT ![<<j, 0>>] = @ + 2]
  /\ request' = [request EXCEPT ![j] = "accepted"]
  /\ UNCHANGED repeats
Dispatch(j) ==
  /\ \E copies \in 0..(MaxRepeats + 1) :
       /\ Enqueue(j, 0, copies)
       /\ \/ copies > 0 /\ request' = [request EXCEPT ![j] = "accepted"]
          \/ request' = [request EXCEPT ![j] = "errored"]

-----------------------------------------------------------------------------
Init ==
  /\ store \in Stores
  /\ request = [j \in Jobs |-> "none"]
  /\ row = [j \in Jobs |-> NoRow]
  /\ queue = [m \in Messages |-> 0]
  /\ stage = [w \in Slots |-> "idle"]
  /\ holds = [w \in Slots |-> Nothing]
  /\ unacked = {}
  /\ error = [w \in Slots |-> "none"]
  /\ crashes = 0
  /\ starts = [j \in Jobs |-> 0]
  /\ repeats = [j \in Jobs |-> 0]
  /\ abandoned = {}

(* generate_report without a key it may use.  There is no capacity check.  *)
Refuse(j) ==
  /\ request[j] = "none"
  /\ request' = [request EXCEPT ![j] = "refused"]
  /\ UNCHANGED <<store, row, queue, stage, holds, unacked, error, crashes,
                 starts, repeats, abandoned>>

Admit(j) ==
  /\ request[j] = "none"
  /\ \/ /\ store = "memory"
        /\ Write(j, [NoRow EXCEPT !.status = "queued"], "ok")
        /\ Dispatch(j)
     \/ /\ store = "postgres"
        /\ request' = [request EXCEPT ![j] = "creating"]
        /\ UNCHANGED <<row, queue, repeats>>
  /\ UNCHANGED <<store, stage, holds, unacked, error, crashes, starts,
                 abandoned>>

(* The INSERT of create_job.                                               *)
CreateJob(j) ==
  /\ request[j] = "creating"
  /\ \E o \in Outcomes :
       /\ Write(j, [NoRow EXCEPT !.status = "queued"], o)
       /\ request' = [request EXCEPT
                        ![j] = IF o = "ok" THEN "created" ELSE "errored"]
  /\ UNCHANGED <<store, queue, stage, holds, unacked, error, crashes, starts,
                 repeats, abandoned>>

(* submit_report_job.delay(...).                                           *)
Publish(j) ==
  /\ request[j] = "created"
  /\ Dispatch(j)
  /\ UNCHANGED <<store, row, stage, holds, unacked, error, crashes, starts,
                 abandoned>>

(* A free slot takes a message.                                            *)
Deliver(w, message) ==
  /\ Consumed
  /\ stage[w] = "idle"
  /\ queue[message] > 0
  /\ queue' = [queue EXCEPT ![message] = @ - 1]
  /\ holds' = [holds EXCEPT ![w] = message]
  /\ unacked' = unacked \cup {w}
  /\ GoTo(w, "started")
  /\ UNCHANGED <<store, request, row, error, crashes, starts, repeats,
                 abandoned>>

(* submit_report_job writes "running", whatever the row says.              *)
MarkRunning(w) ==
  /\ stage[w] = "started"
  /\ \E o \in WorkerOutcomes :
       /\ Write(JobOf(w), [row[JobOf(w)] EXCEPT !.status = "running"], o)
       /\ IF o = "ok"
            THEN /\ GoTo(w, "running")
                 /\ starts' = [starts EXCEPT ![JobOf(w)] = @ + 1]
                 /\ UNCHANGED error
            ELSE /\ \E e \in {"connection", "other"} : Raise(w, e)
                 /\ UNCHANGED starts
  /\ UNCHANGED <<store, request, queue, holds, unacked, crashes, repeats,
                 abandoned>>

(* run_pipeline returns, with a report or with a fatal error, which is     *)
(* raised as a RuntimeError whatever it was; or the soft time limit is     *)
(* raised through it.                                                      *)
RunPipeline(w) ==
  /\ stage[w] = "running"
  /\ \/ GoTo(w, "completing") /\ UNCHANGED error
     \/ Raise(w, "other")
  /\ UNCHANGED <<store, request, row, queue, holds, unacked, crashes, starts,
                 repeats, abandoned>>

(* The report is stored; an error of that write fails the job.             *)
CompleteJob_GivesUp(w) ==
  /\ stage[w] = "completing"
  /\ \E o \in WorkerOutcomes :
       Write(JobOf(w), [status |-> "completed", report |-> TRUE], o)
  /\ GoTo(w, "finished")
  /\ UNCHANGED <<store, request, queue, holds, unacked, error, crashes, starts,
                 repeats, abandoned>>
CompleteJob(w) ==
  /\ stage[w] = "completing"
  /\ \E o \in WorkerOutcomes :
       /\ Write(JobOf(w), [status |-> "completed", report |-> TRUE], o)
       /\ IF o = "ok"
            THEN GoTo(w, "finished") /\ UNCHANGED error
            ELSE \E e \in {"connection", "other"} : Raise(w, e)
  /\ UNCHANGED <<store, request, queue, holds, unacked, crashes, starts,
                 repeats, abandoned>>

(* The handler writes "failed", then looks at the class of the error.  If  *)
(* the write raises, that is where the task ends.                          *)
FailJob_ClearsReport(w) ==
  /\ stage[w] = "failing"
  /\ Write(JobOf(w), [status |-> "failed", report |-> FALSE], "ok")
  /\ GoTo(w, "finished")
  /\ UNCHANGED <<store, request, queue, holds, unacked, error, crashes, starts,
                 repeats, abandoned>>
FailJob(w) ==
  /\ stage[w] = "failing"
  /\ \E o \in WorkerOutcomes :
       /\ Write(JobOf(w), [row[JobOf(w)] EXCEPT !.status = "failed"], o)
       /\ GoTo(w, IF o = "ok" /\ error[w] \in Retryable
                    THEN "retrying" ELSE "finished")
       /\ abandoned' = abandoned \cup
                         IF o = "lost" THEN OpenAmong({JobOf(w)}) ELSE {}
  /\ error' = [error EXCEPT ![w] = "none"]
  /\ UNCHANGED <<store, request, queue, holds, unacked, crashes, starts, repeats>>

(* self.retry: the same task again, or the error once more when there were *)
(* max_retries.  If the broker refuses the message there is no retry.      *)
Retry_Uncounted(w) ==
  /\ stage[w] = "retrying"
  /\ \E copies \in 0..(MaxRepeats + 1) :
       Enqueue(JobOf(w), RetriesOf(w), copies)
  /\ GoTo(w, "finished")
  /\ UNCHANGED <<store, request, row, holds, unacked, error, crashes, starts,
                 abandoned>>
Retry_Early(w) ==
  /\ stage[w] = "retrying"
  /\ IF RetriesOf(w) < MaxRetries
       THEN \E copies \in 0..(MaxRepeats + 1) :
              /\ Enqueue(JobOf(w), RetriesOf(w) + 1, copies)
              /\ GoTo(w, IF copies > 0 THEN "started" ELSE "finished")
       ELSE UNCHANGED <<queue, repeats>> /\ GoTo(w, "finished")
  /\ UNCHANGED <<store, request, row, holds, unacked, error, crashes, starts,
                 abandoned>>
Retry(w) ==
  /\ stage[w] = "retrying"
  /\ IF RetriesOf(w) < MaxRetries
       THEN \E copies \in 0..(MaxRepeats + 1) :
              Enqueue(JobOf(w), RetriesOf(w) + 1, copies)
       ELSE UNCHANGED <<queue, repeats>>
  /\ GoTo(w, "finished")
  /\ UNCHANGED <<store, request, row, holds, unacked, error, crashes, starts,
                 abandoned>>

(* The task has returned or raised: its message is acknowledged.           *)
Acknowledge_KeepsMessage(w) ==
  /\ stage[w] = "finished"
  /\ GoTo(w, "idle")
  /\ UNCHANGED <<store, request, row, queue, holds, unacked, error, crashes,
                 starts, repeats, abandoned>>
Acknowledge(w) ==
  /\ stage[w] = "finished"
  /\ Release(w)
  /\ UNCHANGED <<store, request, row, queue, crashes, starts, repeats, abandoned>>

(* The process of a slot is killed: by the hard time limit, after an agent *)
(* swallowed the soft one, or for the memory it takes.  No handler runs    *)
(* and the message is acknowledged.                                        *)
KillProcess(w) ==
  /\ stage[w] # "idle"
  /\ Release(w)
  /\ abandoned' = abandoned \cup OpenAmong({JobOf(w)})
  /\ UNCHANGED <<store, request, row, queue, crashes, starts, repeats>>

(* The whole worker is lost and started again: what it had not             *)
(* acknowledged is delivered again, if the broker still has a record of it. *)
CrashWorker_Drops ==
  /\ crashes < MaxCrashes
  /\ crashes' = crashes + 1
  /\ stage' = [w \in Slots |-> "idle"]
  /\ holds' = [w \in Slots |-> Nothing]
  /\ unacked' = {}
  /\ error' = [w \in Slots |-> "none"]
  /\ UNCHANGED <<store, request, row, queue, starts, repeats, abandoned>>
CrashWorker ==
  /\ crashes < MaxCrashes
  /\ crashes' = crashes + 1
  /\ queue' = [m \in Messages |->
                 queue[m] + Cardinality({w \in unacked : holds[w] = m})]
  /\ abandoned' = abandoned \cup
       OpenAmong({j \in Jobs : \E w \in Slots \ unacked :
                               stage[w] # "idle" /\ JobOf(w) = j})
  /\ stage' = [w \in Slots |-> "idle"]
  /\ holds' = [w \in Slots |-> Nothing]
  /\ unacked' = {}
  /\ error' = [w \in Slots |-> "none"]
  /\ UNCHANGED <<store, request, row, starts, repeats>>

(* Redis runs with allkeys-lru: short of memory, it may drop the list of   *)
(* waiting messages like any other key, or its hash of the messages that   *)
(* were delivered and not acknowledged.                                    *)
EvictQueue ==
  /\ \E m \in Messages : queue[m] > 0
  /\ queue' = [m \in Messages |-> 0]
  /\ abandoned' = abandoned \cup
       OpenAmong({j \in Jobs : \E r \in 0..MaxRetries : queue[<<j, r>>] > 0})
  /\ UNCHANGED <<store, request, row, stage, holds, unacked, error, crashes,
                 starts, repeats>>

EvictUnacked ==
  /\ unacked # {}
  /\ unacked' = {}
  /\ UNCHANGED <<store, request, row, queue, stage, holds, error, crashes,
                 starts, repeats, abandoned>>

Handler(j) == CreateJob(j) \/ Publish(j)

TaskStep(w) ==
  \/ MarkRunning(w) \/ RunPipeline(w) \/ CompleteJob(w) \/ FailJob(w)
  \/ Retry(w) \/ Acknowledge(w)

Take == \E w \in Slots, message \in Messages : Deliver(w, message)

Next ==
  \/ \E j \in Jobs : Refuse(j) \/ Admit(j) \/ Handler(j)
  \/ \E w \in Slots : TaskStep(w) \/ KillProcess(w)
  \/ Take \/ CrashWorker \/ EvictQueue \/ EvictUnacked

Spec == Init /\ [][Next]_vars

(* The server's loop runs its handlers, a free slot takes a message that   *)
(* waits, and a task ends: the time limits see to that.  Nobody has to     *)
(* submit a job, and nothing need crash.                                   *)
Fairness ==
  /\ \A j \in Jobs : WF_vars(Handler(j))
  /\ \A w \in Slots : WF_vars(TaskStep(w))
  /\ WF_vars(Take)

FairSpec == Spec /\ Fairness
-----------------------------------------------------------------------------
(* Properties *)

(* An open job a client was told about is in the broker or in a slot,      *)
(* unless its message or the write that ends it was lost                   *)
(* (worker.py:133-158).                                                    *)
Waits(j)    == \E r \in 0..MaxRetries : queue[<<j, r>>] > 0
Attended(j) == Waits(j) \/ \E w \in Slots : stage[w] \in AtWork /\ JobOf(w) = j

OpenJobsAreAttended ==
  \A j \in Jobs : request[j] = "accepted" /\ Open(j) =>
    Attended(j) \/ j \in abandoned

(* A job is never run twice at once, nor run while a copy of it waits,     *)
(* unless the worker was lost or a publication left more than one copy: a  *)
(* retry is published when the attempt before it has written its last row  *)
(* (main.py:274, worker.py:142-156).                                       *)
Engaged(w, j) == stage[w] \in AtWork \cup {"retrying"} /\ JobOf(w) = j

OneRunAtATime ==
  crashes = 0 => \A j \in Jobs : repeats[j] = 0 =>
    /\ \A v, w \in Slots : Engaged(v, j) /\ Engaged(w, j) => v = w
    /\ \A w \in Slots : Engaged(w, j) => ~Waits(j)

(* What a client pays for with its key is bounded: retries do not multiply *)
(* with each other, and a copy too many adds at most what one submission   *)
(* may cost, a lost worker what each of its slots may (worker.py:40-45).   *)
Budget(j) ==
  (MaxRetries + 1) * (1 + repeats[j] + crashes * Cardinality(Slots))

WorkIsBounded == \A j \in Jobs : starts[j] <= Budget(j)

(* A finished job runs again only after a lost worker, for a copy too      *)
(* many, or for a retry (worker.py:82-85 looks at no status).              *)
FinishedRunsAgainForACause ==
  [][\A j \in Jobs :
       row[j].status \in {"completed", "failed"} /\ row'[j].status = "running" =>
         \/ crashes > 0 \/ repeats[j] > 0
         \/ \E w \in Slots :
              stage[w] = "started" /\ JobOf(w) = j /\ RetriesOf(w) > 0]_vars

(* What a client sees follows JobLifecycle with finished jobs that may run *)
(* again: a job is never back to queued and a report is never taken away.  *)
FeedOf == [reported \in BOOLEAN |-> IF reported THEN 1 ELSE 0]

Lifecycle == INSTANCE JobLifecycle
               WITH status   <- [j \in Jobs |-> row[j].status],
                    reported <- [j \in Jobs |-> row[j].report],
                    feed     <- [j \in Jobs |-> FeedOf[row[j].report]],
                    volatile <- FALSE

KeepsLifecycle == Lifecycle!AtLeastOnce

(* What a page that was told of a job sees of it.                          *)
Seen(j) ==
  IF request[j] # "accepted" THEN "none"
  ELSE IF row[j].status = "absent" THEN "lost"
  ELSE IF Open(j) THEN "running" ELSE row[j].status

Served(j) == INSTANCE ServedJob WITH row <- Seen(j)

(* Each job is served to the page that was told of it as ServedJob says:   *)
(* its row appears, ends, and may be opened and ended again.               *)
ServesPages ==
  /\ \A j \in Jobs : Served(j)!Init
  /\ [][\A j \in Jobs : [Served(j)!Next]_(Seen(j))]_vars

(* In the end every accepted job is finished and stays so, unless it was   *)
(* lost: a job does not go round between retries for ever.                 *)
JobsSettleForGood ==
  \A j \in Jobs : request[j] = "accepted" ~>
    [](row[j].status \in {"completed", "failed"} \/ j \in abandoned)

-----------------------------------------------------------------------------
(* Why the safety properties hold: what is inductive, proved in            *)
(* CeleryWorkerProofs.                                                     *)

About(w, j) == stage[w] # "idle" /\ JobOf(w) = j

(* Without a lost worker and a repeated publication there is one copy of a *)
(* job, and the first attempt at it finds it queued.                       *)
Alone(j) ==
  /\ \A v, w \in Slots : Engaged(v, j) /\ Engaged(w, j) => v = w
  /\ \A w \in Slots : Engaged(w, j) => ~Waits(j)
  /\ \A r, s \in 0..MaxRetries :
       queue[<<j, r>>] > 0 /\ queue[<<j, s>>] > 0 => r = s
  /\ \A r \in 0..MaxRetries : queue[<<j, r>>] <= 1
  /\ queue[<<j, 0>>] > 0 => row[j].status = "queued"
  /\ \A w \in Slots :
       stage[w] = "started" /\ holds[w] = <<j, 0>> => row[j].status = "queued"

(* A job's request, row and copies agree.                                  *)
JobInv(j) ==
  /\ request[j] \in {"none", "creating", "created", "refused"} =>
       ~Waits(j) /\ \A w \in Slots : ~About(w, j)
  /\ request[j] \in {"none", "creating"} => row[j] = NoRow
  /\ request[j] = "created" => row[j].status = "queued"
  /\ Waits(j) => row[j].status # "absent"
  /\ \A w \in Slots : About(w, j) => row[j].status # "absent"
  /\ \A w \in Slots : About(w, j) /\ stage[w] \in {"running", "completing"} =>
       row[j].status \in {"running", "completed", "failed"}
  /\ request[j] = "accepted" /\ Open(j) => Attended(j) \/ j \in abandoned

LoneInv(j) == crashes = 0 /\ repeats[j] = 0 => Alone(j)

(* As many pairs as f counts for the elements of S: a sum as a cardinality. *)
Units(S, f) == UNION {{x} \X (1..f[x]) : x \in S}

(* The copies of a job in the broker, how many pipelines a copy may still  *)
(* start with its retries, and what a slot still owes: an attempt that was *)
(* started is paid for, its retries are not.                               *)
Attempts  == 0..MaxRetries
Copies(j) == Units(Attempts, [r \in Attempts |-> queue[<<j, r>>]])
Tries     == [copy \in Attempts \X Nat |-> MaxRetries + 1 - copy[1]]

Owed(j) == [w \in Slots |->
  IF ~About(w, j) \/ stage[w] = "finished" THEN 0
  ELSE IF stage[w] = "started" THEN MaxRetries + 1 - RetriesOf(w)
  ELSE MaxRetries - RetriesOf(w)]

(* What was started and what may still be, together, is within the bound.  *)
Waiting(j) == Cardinality(Units(Copies(j), Tries))
Underway(j) == Cardinality(Units(Slots, Owed(j)))

WorkInv(j) ==
  /\ request[j] \in {"none", "creating", "created", "refused"} => starts[j] = 0
  /\ starts[j] + Waiting(j) + Underway(j) <= Budget(j)

(* How far a job is from rest: the starts that are left to it, and how far *)
(* its copies and its slots are within the task.                           *)
StageRank == [idle |-> 0, started |-> 1, running |-> 7, completing |-> 6,
              failing |-> 5, retrying |-> 4, finished |-> 1]

Left(j) == [w \in Slots |-> IF About(w, j) THEN StageRank[stage[w]] ELSE 0]

Number(j) == Cardinality(Copies(j))
ToDo(j)   == Cardinality(Units(Slots, Left(j)))
Rank(j)   == 7 * (Waiting(j) + Underway(j)) + 2 * Number(j) + ToDo(j)

MovesOn(j) ==
  \/ \E w \in Slots : About(w, j) /\ TaskStep(w)
  \/ \E w \in Slots, r \in Attempts : Deliver(w, <<j, r>>)

(* Whatever is done for a job brings it nearer to rest, but for a retry    *)
(* that is published more than once; only that, its submission and a lost  *)
(* worker take it away from it.                                            *)
NobodyGoesRound ==
  [][\A j \in Jobs :
       /\ MovesOn(j) /\ repeats'[j] = repeats[j] => Rank(j)' < Rank(j)
       /\ Rank(j)' > Rank(j) =>
            Admit(j) \/ Publish(j) \/ CrashWorker \/ repeats'[j] > repeats[j]]_vars

(* An accepted job at rest is finished, or was lost, and stays as it is.   *)
RestIsFinal ==
  [][\A j \in Jobs : request[j] = "accepted" /\ Rank(j) = 0 =>
       /\ row[j].status \in {"completed", "failed"} \/ j \in abandoned
       /\ row'[j] = row[j] /\ Rank(j)' = 0]_vars

-----------------------------------------------------------------------------
(* What the documentation says and the code does not do *)

(* docker-compose.yml:91: the worker executes the pipeline.                *)
JobsAreTakenUp ==
  \A j \in Jobs : request[j] = "accepted" ~>
    row[j].status # "queued" \/ j \in abandoned

(* worker.py:40: a message is queued again when the worker crashes: a slot *)
(* gives up a message whose task has not ended only to put it back.        *)
CrashedTaskIsRequeued ==
  [][\A w \in Slots :
       stage[w] \in AtWork /\ stage'[w] = "idle" =>
         queue'[holds[w]] > queue[holds[w]]]_vars
=============================================================================
