--------------------------- MODULE JobServiceProofs ---------------------------
(***************************************************************************)
(* The safety properties of JobService, for any number of requests, any    *)
(* capacity, and any number of restarts, and that it implements            *)
(* JobLifecycle.                                                           *)
(***************************************************************************)
EXTENDS JobService, FiniteSetTheorems, TLAPS

(* A write reaches its own row or none.                                    *)
LEMMA WriteRow ==
  ASSUME NEW j \in Jobs, NEW new \in Row, NEW o,
         row \in [Jobs -> Row], Write(j, new, o)
  PROVE  /\ row' \in [Jobs -> Row]
         /\ \A k \in Jobs \ {j} : row'[k] = row[k]
         /\ o = "lost" => row'[j] = row[j]
         /\ o # "lost" => row'[j] = new
BY DEF Write

(* A write of the status leaves the feed alone.                            *)
LEMMA WriteStatus ==
  ASSUME NEW j \in Jobs, NEW s \in Statuses, NEW o,
         row \in [Jobs -> Row], Write(j, [row[j] EXCEPT !.status = s], o)
  PROVE  /\ row'[j].status = IF o = "lost" THEN row[j].status ELSE s
         /\ row'[j].feed = row[j].feed
         /\ row'[j].report = row[j].report
         /\ \A k \in Jobs \ {j} : row'[k] = row[k]
BY DEF Write, Row

(* A write of the feed leaves the status alone.                            *)
LEMMA WriteFeed ==
  ASSUME NEW j \in Jobs, NEW n \in Nat, NEW o,
         row \in [Jobs -> Row], Write(j, [row[j] EXCEPT !.feed = n], o)
  PROVE  /\ row'[j].status = row[j].status
         /\ row'[j].feed = IF o = "lost" THEN row[j].feed ELSE n
         /\ row'[j].report = row[j].report
         /\ \A k \in Jobs \ {j} : row'[k] = row[k]
BY DEF Write, Row

(* The insert of a row, where there was none.                              *)
LEMMA WriteNew ==
  ASSUME NEW j \in Jobs, NEW o, row \in [Jobs -> Row],
         Write(j, [NoRow EXCEPT !.status = "queued"], o)
  PROVE  /\ o = "lost" => row'[j] = row[j]
         /\ o # "lost" => row'[j].status = "queued" /\ row'[j].feed = 0
                         /\ ~row'[j].report
         /\ \A k \in Jobs \ {j} : row'[k] = row[k]
BY DEF Write, Row, NoRow

(* The write that completes a job.                                         *)
LEMMA WriteReport ==
  ASSUME NEW j \in Jobs, NEW n \in Nat, NEW o, row \in [Jobs -> Row],
         Write(j, [status |-> "completed", report |-> TRUE, feed |-> n], o)
  PROVE  /\ row'[j].status = IF o = "lost" THEN row[j].status ELSE "completed"
         /\ row'[j].feed = IF o = "lost" THEN row[j].feed ELSE n
         /\ row'[j].report = (o # "lost" \/ row[j].report)
         /\ \A k \in Jobs \ {j} : row'[k] = row[k]
BY DEF Write, Row

(* A task moves alone.                                                     *)
LEMMA TaskMoves ==
  ASSUME NEW j \in Jobs, NEW stage \in Stages,
         task \in [Jobs -> Stages], GoTo(j, stage)
  PROVE  /\ task' \in [Jobs -> Stages]
         /\ task'[j] = stage
         /\ \A k \in Jobs \ {j} : task'[k] = task[k]
BY DEF GoTo

(* With the dict a store call does what it is asked.                       *)
LEMMA MemoryNeverFails ==
  ASSUME store = "memory", NEW o \in Outcomes
  PROVE  o = "ok"
BY DEF Outcomes

(* A step that does not touch a job keeps what is known of it.             *)
LEMMA Undisturbed ==
  ASSUME NEW k \in Jobs, JobInv(k), FeedInv(k),
         row'[k] = row[k], task'[k] = task[k], request'[k] = request[k],
         nodes'[k] = nodes[k], store' = store, restarts' = restarts,
         abandoned \subseteq abandoned', broke'[k] = broke[k]
  PROVE  JobInv(k)' /\ FeedInv(k)'
BY DEF JobInv, FeedInv, Stored, Open

(* Every variable holds what its declaration says.                         *)
THEOREM TypeCorrect == Spec => []TypeOK
<1> USE DEF Stages, Working
<1>1. Init => TypeOK
  BY DEF Init, TypeOK, Requests, Row, NoRow, Statuses
<1>2. TypeOK /\ [Next]_vars => TypeOK'
  <2> SUFFICES ASSUME TypeOK, [Next]_vars PROVE TypeOK'
    OBVIOUS
  <2> USE DEF TypeOK
  <2>a. ASSUME NEW j \in Jobs
        PROVE  /\ [NoRow EXCEPT !.status = "queued"] \in Row
               /\ \A s \in Statuses : [row[j] EXCEPT !.status = s] \in Row
               /\ \A n \in Nat : [row[j] EXCEPT !.feed = n] \in Row
               /\ [status |-> "completed", report |-> TRUE,
                   feed |-> nodes[j]] \in Row
    BY DEF Row, NoRow, Statuses
  <2>b. {"running", "failed"} \subseteq Statuses
    BY DEF Statuses
  <2>c. ASSUME NEW j \in Jobs, Dispatch(j)
        PROVE  /\ request' \in [Jobs -> Requests]
               /\ task' \in [Jobs -> Stages]
               /\ inline_tasks' \subseteq Jobs
               /\ active_jobs' \in Nat
    BY <2>c DEF Dispatch, GoTo, Requests
  <2>1. ASSUME NEW j \in Jobs, Refuse(j) PROVE TypeOK'
    BY <2>1 DEF Refuse, Requests
  <2>2. ASSUME NEW j \in Jobs, Admit(j) PROVE TypeOK'
    <3>1. CASE store = "memory"
      <4>1. row' \in [Jobs -> Row]
        BY <2>2, <3>1, <2>a, WriteRow DEF Admit
      <4> QED
        BY <2>2, <3>1, <4>1, <2>c DEF Admit
    <3>2. CASE store # "memory"
      BY <2>2, <3>2 DEF Admit, Requests
    <3> QED
      BY <3>1, <3>2
  <2>3. ASSUME NEW j \in Jobs, CreateJob(j) PROVE TypeOK'
    <3>1. row' \in [Jobs -> Row]
      BY <2>3, <2>a, WriteRow DEF CreateJob
    <3> QED
      BY <2>3, <3>1 DEF CreateJob, Requests
  <2>4. ASSUME NEW j \in Jobs, StartTask(j) PROVE TypeOK'
    BY <2>4, <2>c DEF StartTask
  <2>5. ASSUME NEW j \in Jobs, BeginJob(j) PROVE TypeOK'
    <3>1. row' \in [Jobs -> Row]
      BY <2>5, <2>a, <2>b, WriteRow DEF BeginJob
    <3> QED
      BY <2>5, <3>1 DEF BeginJob, GoTo
  <2>6. ASSUME NEW j \in Jobs, PersistProgress(j) PROVE TypeOK'
    <3>1. nodes' \in [Jobs -> Nat] /\ nodes[j] + 1 \in Nat
      BY <2>6 DEF PersistProgress
    <3>2. PICK o \in Outcomes : Write(j, [row[j] EXCEPT !.feed = nodes[j] + 1], o)
      BY <2>6 DEF PersistProgress
    <3>3. [row[j] EXCEPT !.feed = nodes[j] + 1] \in Row
      BY <3>1, <2>a
    <3>4. row' \in [Jobs -> Row]
      BY <3>2, <3>3, WriteRow
    <3> QED
      BY <2>6, <3>1, <3>4 DEF PersistProgress
  <2>7. ASSUME NEW j \in Jobs, PipelineDelivers(j) PROVE TypeOK'
    BY <2>7 DEF PipelineDelivers, GoTo
  <2>8. ASSUME NEW j \in Jobs, PipelineFails(j) PROVE TypeOK'
    BY <2>8 DEF PipelineFails, GoTo
  <2>9. ASSUME NEW j \in Jobs, ReportFatal(j) PROVE TypeOK'
    <3>1. row' \in [Jobs -> Row]
      BY <2>9, <2>a, WriteRow DEF ReportFatal
    <3> QED
      BY <2>9, <3>1 DEF ReportFatal, GoTo
  <2>10. ASSUME NEW j \in Jobs, CompleteJob(j) PROVE TypeOK'
    <3>1. row' \in [Jobs -> Row]
      BY <2>10, <2>a, WriteRow DEF CompleteJob
    <3> QED
      BY <2>10, <3>1 DEF CompleteJob, GoTo
  <2>11. ASSUME NEW j \in Jobs, FailJob(j) PROVE TypeOK'
    <3>1. row' \in [Jobs -> Row]
      BY <2>11, <2>a, <2>b, WriteRow DEF FailJob
    <3> QED
      BY <2>11, <3>1 DEF FailJob, GoTo
  <2>12. ASSUME NEW j \in Jobs, DiscardTask(j) PROVE TypeOK'
    BY <2>12 DEF DiscardTask
  <2>13. CASE Restart
    <3>1. request' \in [Jobs -> Requests]
      BY <2>13 DEF Restart, Requests
    <3>2. row' \in [Jobs -> Row]
      BY <2>13 DEF Restart, Row, NoRow, Statuses
    <3>3. abandoned' \subseteq Jobs
      BY <2>13 DEF Restart, Alive, Stored
    <3> QED
      BY <2>13, <3>1, <3>2, <3>3 DEF Restart
  <2>14. CASE UNCHANGED vars
    BY <2>14 DEF vars
  <2> QED
    BY <2>1, <2>2, <2>3, <2>4, <2>5, <2>6, <2>7, <2>8, <2>9, <2>10, <2>11,
       <2>12, <2>13, <2>14 DEF Next, Handler, TaskStep
<1> QED
  BY <1>1, <1>2, PTL DEF Spec

(* CapacityInv is inductive: only Dispatch takes a slot, and with the dict *)
(* it does so in the step that found one free.                             *)
THEOREM CapacityInvariant == Spec => []CapacityInv
<1> USE DEF Stages, Working
<1>1. Init => CapacityInv
  BY FS_EmptySet, MaxInlineJobsAssumption DEF Init, CapacityInv, Alive
<1>2. TypeOK /\ CapacityInv /\ [Next]_vars => CapacityInv'
  <2> SUFFICES ASSUME TypeOK, CapacityInv, [Next]_vars PROVE CapacityInv'
    OBVIOUS
  <2>a. ASSUME NEW j \in Jobs, NEW stage \in Stages, GoTo(j, stage),
               j \in Alive, inline_tasks' = inline_tasks, store' = store,
               request' = request
        PROVE  CapacityInv'
    <3>1. Alive' \subseteq Alive \cup {j}
      BY <2>a, TaskMoves DEF Alive, TypeOK
    <3> QED
      BY <2>a, <3>1 DEF CapacityInv
  <2>b. ASSUME task' = task, inline_tasks' = inline_tasks, store' = store,
               \A k \in Jobs : request'[k] \in {"creating", "created"} =>
                 request[k] \in {"creating", "created"} \/ store # "memory"
        PROVE  CapacityInv'
    BY <2>b DEF CapacityInv, Alive
  <2>c. ASSUME NEW j \in Jobs, Dispatch(j), store' = store,
               store = "memory" => ~Full
        PROVE  CapacityInv'
    <3>1. Alive' \subseteq Alive \cup {j}
      BY <2>c, TaskMoves DEF Dispatch, Alive, TypeOK
    <3>2. /\ IsFiniteSet(inline_tasks')
          /\ Cardinality(inline_tasks') <= Cardinality(inline_tasks) + 1
          /\ Cardinality(inline_tasks) \in Nat
      <4>1. inline_tasks' = inline_tasks \cup {j}
        BY <2>c DEF Dispatch
      <4>2. IsFiniteSet(inline_tasks)
        BY DEF CapacityInv
      <4>3. Cardinality(inline_tasks) \in Nat
        BY <4>2, FS_CardinalityType
      <4>4. /\ IsFiniteSet(inline_tasks \cup {j})
            /\ \/ Cardinality(inline_tasks \cup {j}) = Cardinality(inline_tasks)
               \/ Cardinality(inline_tasks \cup {j}) = Cardinality(inline_tasks) + 1
        BY <4>2, FS_AddElement
      <4> QED
        BY <4>1, <4>3, <4>4
    <3>3. store = "memory" => Cardinality(inline_tasks') <= MaxInlineJobs
      <4>1. Cardinality(inline_tasks') \in Nat
        BY <3>2, FS_CardinalityType
      <4>2. store = "memory" => ~(Cardinality(inline_tasks) >= MaxInlineJobs)
        BY <2>c DEF Full
      <4> QED
        BY <3>2, <4>1, <4>2, MaxInlineJobsAssumption
    <3>4. store = "memory" =>
            \A k \in Jobs : request'[k] \notin {"creating", "created"}
      BY <2>c DEF Dispatch, CapacityInv, TypeOK
    <3> QED
      BY <2>c, <3>1, <3>2, <3>3, <3>4 DEF Dispatch, CapacityInv
  <2>1. ASSUME NEW j \in Jobs, Refuse(j) PROVE CapacityInv'
    BY <2>1, <2>b DEF Refuse, TypeOK
  <2>2. ASSUME NEW j \in Jobs, Admit(j) PROVE CapacityInv'
    <3>1. CASE store = "memory"
      BY <2>2, <3>1, <2>c DEF Admit
    <3>2. CASE store # "memory"
      BY <2>2, <3>2, <2>b DEF Admit
    <3> QED
      BY <3>1, <3>2
  <2>3. ASSUME NEW j \in Jobs, CreateJob(j) PROVE CapacityInv'
    BY <2>3, <2>b DEF CreateJob, TypeOK
  <2>4. ASSUME NEW j \in Jobs, StartTask(j) PROVE CapacityInv'
    <3>1. store # "memory"
      BY <2>4 DEF StartTask, CapacityInv
    <3> QED
      BY <2>4, <3>1, <2>c DEF StartTask
  <2>5. ASSUME NEW j \in Jobs, BeginJob(j) PROVE CapacityInv'
    BY <2>5, <2>a DEF BeginJob, Alive
  <2>6. ASSUME NEW j \in Jobs, PersistProgress(j) PROVE CapacityInv'
    BY <2>6, <2>b DEF PersistProgress
  <2>7. ASSUME NEW j \in Jobs, PipelineDelivers(j) PROVE CapacityInv'
    BY <2>7, <2>a DEF PipelineDelivers, Alive
  <2>8. ASSUME NEW j \in Jobs, PipelineFails(j) PROVE CapacityInv'
    BY <2>8, <2>a DEF PipelineFails, Alive
  <2>9. ASSUME NEW j \in Jobs, ReportFatal(j) PROVE CapacityInv'
    BY <2>9, <2>a DEF ReportFatal, Alive
  <2>10. ASSUME NEW j \in Jobs, CompleteJob(j) PROVE CapacityInv'
    BY <2>10, <2>a DEF CompleteJob, Alive
  <2>11. ASSUME NEW j \in Jobs, FailJob(j) PROVE CapacityInv'
    BY <2>11, <2>a DEF FailJob, Alive
  <2>12. ASSUME NEW j \in Jobs, DiscardTask(j) PROVE CapacityInv'
    <3>1. /\ IsFiniteSet(inline_tasks')
          /\ Cardinality(inline_tasks') <= Cardinality(inline_tasks)
          /\ Cardinality(inline_tasks) \in Nat
          /\ Cardinality(inline_tasks') \in Nat
      <4>1. inline_tasks' = inline_tasks \ {j} /\ j \in inline_tasks
        BY <2>12 DEF DiscardTask
      <4>2. IsFiniteSet(inline_tasks)
        BY DEF CapacityInv
      <4>3. /\ IsFiniteSet(inline_tasks \ {j})
            /\ Cardinality(inline_tasks \ {j}) = Cardinality(inline_tasks) - 1
        BY <4>1, <4>2, FS_RemoveElement
      <4>4. Cardinality(inline_tasks) \in Nat
            /\ Cardinality(inline_tasks \ {j}) \in Nat
        BY <4>2, <4>3, FS_CardinalityType
      <4> QED
        BY <4>1, <4>3, <4>4
    <3>2. j \notin Alive /\ Alive' = Alive
      BY <2>12 DEF DiscardTask, Alive
    <3> QED
      BY <2>12, <3>1, <3>2, MaxInlineJobsAssumption DEF DiscardTask, CapacityInv
  <2>13. CASE Restart
    <3>1. Alive' = {}
      BY <2>13 DEF Restart, Alive
    <3>2. \A k \in Jobs : request'[k] \notin {"creating", "created"}
      BY <2>13 DEF Restart
    <3> QED
      BY <2>13, <3>1, <3>2, FS_EmptySet, MaxInlineJobsAssumption
      DEF Restart, CapacityInv
  <2>14. CASE UNCHANGED vars
    BY <2>14, <2>b DEF vars
  <2> QED
    BY <2>1, <2>2, <2>3, <2>4, <2>5, <2>6, <2>7, <2>8, <2>9, <2>10, <2>11,
       <2>12, <2>13, <2>14 DEF Next, Handler, TaskStep
<1> QED
  BY <1>1, <1>2, TypeCorrect, PTL DEF Spec

(* With the dict, MAX_INLINE_JOBS is a ceiling, whatever the interleaving. *)
THEOREM MemoryCeiling == Spec => []MemoryCeilingHolds
<1>1. TypeOK /\ CapacityInv => MemoryCeilingHolds
  <2> SUFFICES ASSUME CapacityInv, store = "memory"
               PROVE  Cardinality(Alive) <= MaxInlineJobs
    BY DEF MemoryCeilingHolds
  <2>1. /\ IsFiniteSet(Alive)
        /\ Cardinality(Alive) <= Cardinality(inline_tasks)
    BY FS_Subset DEF CapacityInv
  <2>2. Cardinality(Alive) \in Nat /\ Cardinality(inline_tasks) \in Nat
    BY <2>1, FS_CardinalityType DEF CapacityInv
  <2> QED
    BY <2>1, <2>2, MaxInlineJobsAssumption DEF CapacityInv
<1> QED
  BY <1>1, TypeCorrect, CapacityInvariant, PTL

(* JobInv and FeedInv are inductive: a job's own steps keep its row, its   *)
(* task and its request in agreement, and no other job's step reaches them.*)
THEOREM JobInvariant == Spec => [](\A k \in Jobs : JobInv(k) /\ FeedInv(k))
<1> DEFINE Agree == \A k \in Jobs : JobInv(k) /\ FeedInv(k)
<1>1. Init => Agree
  BY DEF Init, JobInv, FeedInv, NoRow, Working
<1>2. TypeOK /\ Agree /\ [Next]_vars => Agree'
  <2> SUFFICES ASSUME TypeOK, Agree, [Next]_vars PROVE Agree'
    OBVIOUS
  <2>a. ASSUME NEW j \in Jobs, JobInv(j)' /\ FeedInv(j)',
               \A k \in Jobs \ {j} :
                 /\ row'[k] = row[k] /\ task'[k] = task[k]
                 /\ request'[k] = request[k] /\ nodes'[k] = nodes[k]
                 /\ broke'[k] = broke[k],
               store' = store, restarts' = restarts, abandoned \subseteq abandoned'
        PROVE  Agree'
    <3> SUFFICES ASSUME NEW k \in Jobs PROVE (JobInv(k) /\ FeedInv(k))'
      OBVIOUS
    <3>1. CASE k = j
      BY <3>1, <2>a
    <3>2. CASE k # j
      BY <3>2, <2>a, Undisturbed
    <3> QED
      BY <3>1, <3>2
  <2>b. NoRow.status = "absent" /\ NoRow.feed = 0
    BY DEF NoRow
  <2>c. ASSUME NEW j \in Jobs
        PROVE  row[j].feed \in Nat /\ nodes[j] \in Nat
    BY DEF TypeOK, Row
  <2>d. "running" \in Statuses /\ "failed" \in Statuses
    BY DEF Statuses
  <2> USE DEF TypeOK, Stages, Working
  <2>1. ASSUME NEW j \in Jobs, Refuse(j) PROVE Agree'
    <3>1. JobInv(j)' /\ FeedInv(j)'
      BY <2>1, <2>b DEF Refuse, JobInv, FeedInv, Stored, Open
    <3> QED
      BY <2>1, <2>a, <3>1 DEF Refuse
  <2>2. ASSUME NEW j \in Jobs, Admit(j) PROVE Agree'
    <3>1. CASE store = "memory"
      <4>1. /\ row'[j].status = "queued" /\ row'[j].feed = 0
            /\ \A k \in Jobs \ {j} : row'[k] = row[k]
        BY <2>2, <3>1, WriteNew DEF Admit
      <4>2. /\ request'[j] = "accepted" /\ task'[j] = "created"
            /\ \A k \in Jobs \ {j} :
                 task'[k] = task[k] /\ request'[k] = request[k]
        BY <2>2, <3>1 DEF Admit, Dispatch, GoTo
      <4>3. nodes[j] = 0 /\ nodes' = nodes /\ store' = store
            /\ restarts' = restarts /\ abandoned' = abandoned /\ broke' = broke
        BY <2>2 DEF Admit, JobInv
      <4>4. JobInv(j)' /\ FeedInv(j)'
        BY <3>1, <4>1, <4>2, <4>3 DEF JobInv, FeedInv, Stored, Open
      <4> QED
        BY <2>a, <4>1, <4>2, <4>3, <4>4
    <3>2. CASE store # "memory"
      <4>1. JobInv(j)' /\ FeedInv(j)'
        BY <2>2, <3>2, <2>b DEF Admit, JobInv, FeedInv, Stored, Open
      <4> QED
        BY <2>2, <3>2, <2>a, <4>1 DEF Admit
    <3> QED
      BY <3>1, <3>2
  <2>3. ASSUME NEW j \in Jobs, CreateJob(j) PROVE Agree'
    <3>1. PICK o \in Outcomes :
            /\ Write(j, [NoRow EXCEPT !.status = "queued"], o)
            /\ request' = [request EXCEPT
                             ![j] = IF o = "ok" THEN "created" ELSE "errored"]
      BY <2>3 DEF CreateJob
    <3>2. /\ o # "lost" => row'[j].status = "queued" /\ row'[j].feed = 0
          /\ o = "lost" => row'[j] = NoRow
          /\ \A k \in Jobs \ {j} : row'[k] = row[k]
      BY <2>3, <3>1, WriteNew DEF CreateJob, JobInv
    <3>3. task[j] = "none" /\ nodes[j] = 0
      BY <2>3 DEF CreateJob, JobInv
    <3>4. JobInv(j)' /\ FeedInv(j)'
      BY <2>3, <2>b, <3>1, <3>2, <3>3
      DEF CreateJob, JobInv, FeedInv, Stored, Open
    <3> QED
      BY <2>3, <2>a, <3>1, <3>2, <3>4 DEF CreateJob
  <2>4. ASSUME NEW j \in Jobs, StartTask(j) PROVE Agree'
    <3>1. /\ row[j].status = "queued" /\ nodes[j] = 0 /\ row[j].feed <= 0
          /\ UNCHANGED <<store, row, nodes, restarts, abandoned, broke>>
      BY <2>4 DEF StartTask, JobInv
    <3>2. /\ request'[j] = "accepted" /\ task'[j] = "created"
          /\ \A k \in Jobs \ {j} :
               task'[k] = task[k] /\ request'[k] = request[k]
      BY <2>4 DEF StartTask, Dispatch, GoTo
    <3>3. JobInv(j)' /\ FeedInv(j)'
      BY <2>c, <3>1, <3>2 DEF JobInv, FeedInv, Stored, Open
    <3> QED
      BY <2>a, <3>1, <3>2, <3>3
  <2>5. ASSUME NEW j \in Jobs, BeginJob(j) PROVE Agree'
    <3>1. request[j] = "accepted" /\ row[j].status = "queued"
      BY <2>5 DEF BeginJob, JobInv
    <3>2. PICK o \in Outcomes :
            /\ Write(j, [row[j] EXCEPT !.status = "running"], o)
            /\ GoTo(j, IF o = "ok" THEN "running" ELSE "failing")
      BY <2>5 DEF BeginJob
    <3>3. store = "memory" => o = "ok"
      BY MemoryNeverFails
    <3>4. /\ row'[j].status = IF o = "lost" THEN row[j].status ELSE "running"
          /\ row'[j].feed = row[j].feed
          /\ \A k \in Jobs \ {j} : row'[k] = row[k]
      BY <2>d, <3>2, WriteStatus
    <3>5. /\ task'[j] = IF o = "ok" THEN "running" ELSE "failing"
          /\ \A k \in Jobs \ {j} : task'[k] = task[k]
      BY <2>5, <3>2 DEF BeginJob, GoTo
    <3>6. JobInv(j)' /\ FeedInv(j)'
      BY <2>5, <2>c, <3>1, <3>2, <3>3, <3>4, <3>5
      DEF BeginJob, JobInv, FeedInv, Stored, Open
    <3> QED
      BY <2>5, <2>a, <3>2, <3>4, <3>5, <3>6 DEF BeginJob
  <2>6. ASSUME NEW j \in Jobs, PersistProgress(j) PROVE Agree'
    <3>1. request[j] = "accepted" /\ row[j].status = "running"
      BY <2>6 DEF PersistProgress, JobInv
    <3>2. PICK o \in Outcomes :
            Write(j, [row[j] EXCEPT !.feed = nodes[j] + 1], o)
      BY <2>6 DEF PersistProgress
    <3>3. store = "memory" => o = "ok"
      BY MemoryNeverFails
    <3>4. nodes[j] + 1 \in Nat
      BY <2>c
    <3>6. /\ row'[j].status = "running"
          /\ row'[j].feed = IF o = "lost" THEN row[j].feed ELSE nodes[j] + 1
          /\ \A k \in Jobs \ {j} : row'[k] = row[k]
      BY <3>1, <3>2, <3>4, WriteFeed
    <3>7. /\ nodes'[j] = nodes[j] + 1
          /\ \A k \in Jobs \ {j} : nodes'[k] = nodes[k]
      BY <2>6 DEF PersistProgress
    <3>8. JobInv(j)' /\ FeedInv(j)'
      BY <2>6, <2>c, <3>1, <3>3, <3>6, <3>7
      DEF PersistProgress, JobInv, FeedInv, Stored, Open
    <3> QED
      BY <2>6, <2>a, <3>6, <3>7, <3>8 DEF PersistProgress
  <2>7. ASSUME NEW j \in Jobs, PipelineDelivers(j) PROVE Agree'
    <3>1. /\ task'[j] = "completing"
          /\ \A k \in Jobs \ {j} : task'[k] = task[k]
      BY <2>7 DEF PipelineDelivers, GoTo
    <3>2. JobInv(j)' /\ FeedInv(j)'
      BY <2>7, <3>1 DEF PipelineDelivers, JobInv, FeedInv, Stored, Open
    <3> QED
      BY <2>7, <2>a, <3>1, <3>2 DEF PipelineDelivers
  <2>8. ASSUME NEW j \in Jobs, PipelineFails(j) PROVE Agree'
    <3>1. /\ task'[j] = "reporting" /\ nodes'[j] \in Nat
          /\ nodes'[j] >= nodes[j]
          /\ \A k \in Jobs \ {j} :
               task'[k] = task[k] /\ nodes'[k] = nodes[k] /\ broke'[k] = broke[k]
          /\ broke'[j] # "none"
      BY <2>8 DEF PipelineFails, GoTo, TypeOK
    <3>2. request[j] = "accepted" /\ row[j].status = "running"
          /\ row[j].feed <= nodes[j]
      BY <2>8 DEF PipelineFails, JobInv
    <3>3. JobInv(j)' /\ FeedInv(j)'
      BY <2>8, <2>c, <3>1, <3>2
      DEF PipelineFails, JobInv, FeedInv, Stored, Open
    <3> QED
      BY <2>8, <2>a, <3>1, <3>3 DEF PipelineFails
  <2>9. ASSUME NEW j \in Jobs, ReportFatal(j) PROVE Agree'
    <3>1. request[j] = "accepted" /\ row[j].status = "running"
      BY <2>9 DEF ReportFatal, JobInv
    <3>2. PICK o \in Outcomes :
            /\ Write(j, [row[j] EXCEPT !.feed = nodes[j]], o)
      BY <2>9 DEF ReportFatal
    <3>3. store = "memory" => o = "ok"
      BY MemoryNeverFails
    <3>4. /\ row'[j].status = row[j].status
          /\ row'[j].feed = IF o = "lost" THEN row[j].feed ELSE nodes[j]
          /\ \A k \in Jobs \ {j} : row'[k] = row[k]
      BY <2>c, <3>2, WriteFeed
    <3>5. /\ task'[j] = "failing"
          /\ \A k \in Jobs \ {j} : task'[k] = task[k]
      BY <2>9, <3>2 DEF ReportFatal, GoTo
    <3>6. JobInv(j)' /\ FeedInv(j)'
      BY <2>9, <2>c, <3>1, <3>2, <3>3, <3>4, <3>5
      DEF ReportFatal, JobInv, FeedInv, Stored, Open
    <3> QED
      BY <2>9, <2>a, <3>2, <3>4, <3>5, <3>6 DEF ReportFatal
  <2>10. ASSUME NEW j \in Jobs, CompleteJob(j) PROVE Agree'
    <3>1. request[j] = "accepted" /\ row[j].status = "running"
      BY <2>10 DEF CompleteJob, JobInv
    <3>2. PICK o \in Outcomes :
            /\ Write(j, [status |-> "completed", report |-> TRUE,
                         feed |-> nodes[j]], o)
            /\ GoTo(j, IF o = "ok" THEN "returned" ELSE "failing")
      BY <2>10 DEF CompleteJob
    <3>3. store = "memory" => o = "ok"
      BY MemoryNeverFails
    <3>4. /\ row'[j].status = IF o = "lost" THEN row[j].status ELSE "completed"
          /\ row'[j].feed = IF o = "lost" THEN row[j].feed ELSE nodes[j]
          /\ \A k \in Jobs \ {j} : row'[k] = row[k]
      BY <2>c, <3>2, WriteReport
    <3>5. /\ task'[j] = IF o = "ok" THEN "returned" ELSE "failing"
          /\ \A k \in Jobs \ {j} : task'[k] = task[k]
      BY <2>10, <3>2 DEF CompleteJob, GoTo
    <3>6. JobInv(j)' /\ FeedInv(j)'
      BY <2>10, <2>c, <3>1, <3>2, <3>3, <3>4, <3>5
      DEF CompleteJob, JobInv, FeedInv, Stored, Open
    <3> QED
      BY <2>10, <2>a, <3>2, <3>4, <3>5, <3>6 DEF CompleteJob
  <2>11. ASSUME NEW j \in Jobs, FailJob(j) PROVE Agree'
    <3>1. /\ request[j] = "accepted"
          /\ row[j].status \in {"queued", "running", "completed"}
      BY <2>11 DEF FailJob, JobInv
    <3>2. PICK o \in Outcomes :
            /\ Write(j, [row[j] EXCEPT !.status = "failed"], o)
            /\ abandoned' = IF o = "lost" THEN abandoned \cup {j} ELSE abandoned
      BY <2>11 DEF FailJob
    <3>3. store = "memory" => o = "ok"
      BY MemoryNeverFails
    <3>4. /\ row'[j].status = IF o = "lost" THEN row[j].status ELSE "failed"
          /\ row'[j].feed = row[j].feed
          /\ \A k \in Jobs \ {j} : row'[k] = row[k]
      BY <2>d, <3>2, WriteStatus
    <3>5. /\ task'[j] = "returned"
          /\ \A k \in Jobs \ {j} : task'[k] = task[k]
      BY <2>11, <3>2 DEF FailJob, GoTo
    <3>6. JobInv(j)' /\ FeedInv(j)'
      BY <2>11, <2>c, <3>1, <3>2, <3>3, <3>4, <3>5
      DEF FailJob, JobInv, FeedInv, Stored, Open
    <3> QED
      BY <2>11, <2>a, <3>2, <3>4, <3>5, <3>6 DEF FailJob
  <2>12. ASSUME NEW j \in Jobs, DiscardTask(j) PROVE Agree'
    BY <2>12, Undisturbed DEF DiscardTask
  <2>13. CASE Restart
    <3> SUFFICES ASSUME NEW k \in Jobs PROVE (JobInv(k) /\ FeedInv(k))'
      OBVIOUS
    <3>1. /\ task'[k] = "none" /\ nodes' = nodes /\ store' = store
          /\ restarts' > 0
          /\ request'[k] # "accepted" => request[k] # "accepted"
          /\ request'[k] \notin {"creating", "created"}
          /\ request'[k] = "none" => request[k] = "none"
          /\ request'[k] = "accepted" <=> request[k] = "accepted"
          /\ row'[k] = IF store = "memory" THEN NoRow ELSE row[k]
          /\ Alive \subseteq abandoned' /\ abandoned \subseteq abandoned'
      BY <2>13 DEF Restart
    <3>2. request[k] # "accepted" => nodes[k] = 0
      BY DEF JobInv
    <3>3. request[k] = "none" => row[k] = NoRow
      BY DEF JobInv
    <3>4. store # "memory" /\ request[k] = "accepted" =>
            k \in Stored /\ (~Open(k) \/ k \in abandoned \cup Alive)
      BY DEF JobInv, Stores, Alive
    <3>5. JobInv(k)'
      BY <2>b, <2>c, <3>1, <3>2, <3>3, <3>4
      DEF JobInv, Stored, Open, Stores
    <3>6. FeedInv(k)'
      BY <2>b, <3>1 DEF FeedInv
    <3> QED
      BY <3>5, <3>6
  <2>14. CASE UNCHANGED vars
    BY <2>14, Undisturbed DEF vars
  <2> QED
    BY <2>1, <2>2, <2>3, <2>4, <2>5, <2>6, <2>7, <2>8, <2>9, <2>10, <2>11,
       <2>12, <2>13, <2>14 DEF Next, Handler, TaskStep
<1> QED
  BY <1>1, <1>2, TypeCorrect, PTL DEF Spec

(* Whoever was told a job_id can poll it, until the dict is lost.          *)
THEOREM AcceptedJobsArePollable == Spec => []AcceptedIsPollable
<1>1. TypeOK /\ (\A k \in Jobs : JobInv(k) /\ FeedInv(k)) => AcceptedIsPollable
  <2> SUFFICES ASSUME TypeOK, NEW j \in Jobs, JobInv(j),
                      request[j] = "accepted"
               PROVE  j \in Stored \/ (store = "memory" /\ restarts > 0)
    BY DEF AcceptedIsPollable
  <2>1. CASE task[j] = "none"
    BY <2>1 DEF JobInv, TypeOK, Stores
  <2>2. CASE task[j] # "none"
    BY <2>2 DEF JobInv, TypeOK, Stages, Working, Stored
  <2> QED
    BY <2>1, <2>2
<1> QED
  BY <1>1, TypeCorrect, JobInvariant, PTL

(* No client polls a job that nobody works on, but after a restart or the  *)
(* loss of the failure's own write.                                        *)
THEOREM NoJobIsLeftOpen == Spec => []OpenJobsAreAttended
<1>1. TypeOK /\ (\A k \in Jobs : JobInv(k) /\ FeedInv(k)) => OpenJobsAreAttended
  BY DEF OpenJobsAreAttended, JobInv, TypeOK, Stages, Alive
<1> QED
  BY <1>1, TypeCorrect, JobInvariant, PTL

(* With the dict a job fails only by a node, and the feed it keeps names   *)
(* that agent last, unless it raised.                                      *)
THEOREM FailedJobsFeed == Spec => []ReportedFailureIsNamed
<1>1. TypeOK /\ (\A k \in Jobs : JobInv(k) /\ FeedInv(k))
        => ReportedFailureIsNamed
  BY DEF ReportedFailureIsNamed, Named, FeedInv, TypeOK
<1> QED
  BY <1>1, TypeCorrect, JobInvariant, PTL

(* A step on one row, seen by a client.                                    *)
LEMMA OneRow ==
  ASSUME NEW j \in Jobs, \A k \in Jobs \ {j} : row'[k] = row[k]
  PROVE  /\ [k \in Jobs |-> row'[k].status] =
              [[k \in Jobs |-> row[k].status] EXCEPT ![j] = row'[j].status]
         /\ [k \in Jobs |-> row'[k].report] =
              [[k \in Jobs |-> row[k].report] EXCEPT ![j] = row'[j].report]
         /\ [k \in Jobs |-> row'[k].feed] =
              [[k \in Jobs |-> row[k].feed] EXCEPT ![j] = row'[j].feed]
OBVIOUS

(* The service implements JobLifecycle: rows that fail and restarts        *)
(* included, a client sees a job move forward only.                        *)
THEOREM ServiceKeepsLifecycle == Spec => KeepsLifecycle
<1> DEFINE Agree == \A k \in Jobs : JobInv(k) /\ FeedInv(k)
           seen == <<[j \in Jobs |-> row[j].status],
                     [j \in Jobs |-> row[j].report],
                     [j \in Jobs |-> row[j].feed], store = "memory">>
<1>1. Init => Lifecycle!Init
  BY DEF Init, NoRow, Lifecycle!Init
<1>2. TypeOK /\ TypeOK' /\ Agree /\ [Next]_vars
        => [Lifecycle!Next]_(Lifecycle!lifecycle)
  <2> SUFFICES ASSUME TypeOK, TypeOK', Agree, [Next]_vars
               PROVE  Lifecycle!Next \/ UNCHANGED seen
    BY DEF Lifecycle!lifecycle
  <2>a. ASSUME row' = row, store' = store PROVE UNCHANGED seen
    BY <2>a
  <2>b. ASSUME NEW j \in Jobs
        PROVE  /\ row[j].feed \in Nat /\ row'[j].feed \in Nat
               /\ row[j].report \in BOOLEAN /\ row'[j].report \in BOOLEAN
               /\ row[j].feed <= nodes[j] /\ nodes[j] \in Nat
    BY DEF TypeOK, Row, JobInv
  <2>c. ASSUME NEW j \in Jobs, store' = store,
               \A k \in Jobs \ {j} : row'[k] = row[k],
               row'[j].status = row[j].status, row'[j].report = row[j].report,
               row'[j].feed >= row[j].feed,
               row[j].status = "running" \/ row'[j].feed = row[j].feed
        PROVE  Lifecycle!Next \/ UNCHANGED seen
    <3>1. CASE row[j].status = "running"
      <4>1. Lifecycle!Progress(j)
        BY <2>b, <2>c, <3>1, OneRow DEF Lifecycle!Progress, Lifecycle!FeedGrows
      <4> QED
        BY <4>1 DEF Lifecycle!Next
    <3>2. CASE row[j].status # "running"
      BY <2>c, <3>2, OneRow
    <3> QED
      BY <3>1, <3>2
  <2>d. ASSUME NEW j \in Jobs, store' = store,
               \A k \in Jobs \ {j} : row'[k] = row[k],
               row'[j].report = row[j].report, row'[j].feed = row[j].feed,
               \/ row[j].status = "absent" /\ row'[j].status = "queued"
               \/ row[j].status = "queued" /\ row'[j].status = "running"
               \/ /\ row[j].status \in {"queued", "running", "completed"}
                  /\ row'[j].status = "failed"
        PROVE  Lifecycle!Next \/ UNCHANGED seen
    <3>1. Lifecycle!Submit(j) \/ Lifecycle!Begin(j) \/ Lifecycle!Fail(j)
      BY <2>d, OneRow DEF Lifecycle!Submit, Lifecycle!Begin, Lifecycle!Fail
    <3> QED
      BY <3>1 DEF Lifecycle!Next
  <2>e. "running" \in Statuses /\ "failed" \in Statuses
    BY DEF Statuses
  <2>f. ASSUME NEW j \in Jobs, NEW o, request[j] \in {"none", "creating"},
               Write(j, [NoRow EXCEPT !.status = "queued"], o), store' = store
        PROVE  Lifecycle!Next \/ UNCHANGED seen
    <3>1. row[j].status = "absent" /\ row[j].feed = 0 /\ ~row[j].report
      BY <2>f DEF JobInv, NoRow
    <3>2. CASE o = "lost"
      BY <2>a, <2>f, <3>2 DEF Write
    <3>3. CASE o # "lost"
      <4>1. /\ row'[j].status = "queued" /\ row'[j].feed = 0 /\ ~row'[j].report
            /\ \A k \in Jobs \ {j} : row'[k] = row[k]
        BY <2>f, <3>3, WriteNew DEF TypeOK
      <4> QED
        BY <2>b, <2>d, <2>f, <3>1, <4>1
    <3> QED
      BY <3>2, <3>3
  <2>1. ASSUME NEW j \in Jobs, Refuse(j) PROVE Lifecycle!Next \/ UNCHANGED seen
    BY <2>1, <2>a DEF Refuse
  <2>2. ASSUME NEW j \in Jobs, Admit(j) PROVE Lifecycle!Next \/ UNCHANGED seen
    BY <2>2, <2>a, <2>f DEF Admit
  <2>3. ASSUME NEW j \in Jobs, CreateJob(j)
        PROVE  Lifecycle!Next \/ UNCHANGED seen
    BY <2>3, <2>f DEF CreateJob
  <2>4. ASSUME NEW j \in Jobs, StartTask(j)
        PROVE  Lifecycle!Next \/ UNCHANGED seen
    BY <2>4, <2>a DEF StartTask
  <2>5. ASSUME NEW j \in Jobs, BeginJob(j)
        PROVE  Lifecycle!Next \/ UNCHANGED seen
    <3>1. row[j].status = "queued" /\ store' = store
      BY <2>5 DEF BeginJob, JobInv
    <3>2. PICK o \in Outcomes : Write(j, [row[j] EXCEPT !.status = "running"], o)
      BY <2>5 DEF BeginJob
    <3>3. CASE o = "lost"
      BY <2>a, <3>1, <3>2, <3>3 DEF Write
    <3>4. CASE o # "lost"
      BY <2>d, <2>e, <3>1, <3>2, <3>4, WriteStatus DEF TypeOK
    <3> QED
      BY <3>3, <3>4
  <2>6. ASSUME NEW j \in Jobs, PersistProgress(j)
        PROVE  Lifecycle!Next \/ UNCHANGED seen
    <3>1. row[j].status = "running" /\ store' = store /\ nodes[j] + 1 \in Nat
      BY <2>6, <2>b DEF PersistProgress, JobInv
    <3>2. PICK o \in Outcomes :
            Write(j, [row[j] EXCEPT !.feed = nodes[j] + 1], o)
      BY <2>6 DEF PersistProgress
    <3>3. /\ row'[j].status = row[j].status /\ row'[j].report = row[j].report
          /\ row'[j].feed = IF o = "lost" THEN row[j].feed ELSE nodes[j] + 1
          /\ \A k \in Jobs \ {j} : row'[k] = row[k]
      BY <3>1, <3>2, WriteFeed DEF TypeOK
    <3> QED
      BY <2>b, <2>c, <3>1, <3>3
  <2>7. ASSUME NEW j \in Jobs, PipelineDelivers(j)
        PROVE  Lifecycle!Next \/ UNCHANGED seen
    BY <2>7, <2>a DEF PipelineDelivers
  <2>8. ASSUME NEW j \in Jobs, PipelineFails(j)
        PROVE  Lifecycle!Next \/ UNCHANGED seen
    BY <2>8, <2>a DEF PipelineFails
  <2>9. ASSUME NEW j \in Jobs, ReportFatal(j)
        PROVE  Lifecycle!Next \/ UNCHANGED seen
    <3>1. row[j].status = "running" /\ store' = store
      BY <2>9 DEF ReportFatal, JobInv
    <3>2. PICK o \in Outcomes : Write(j, [row[j] EXCEPT !.feed = nodes[j]], o)
      BY <2>9 DEF ReportFatal
    <3>3. /\ row'[j].status = row[j].status /\ row'[j].report = row[j].report
          /\ row'[j].feed = IF o = "lost" THEN row[j].feed ELSE nodes[j]
          /\ \A k \in Jobs \ {j} : row'[k] = row[k]
      BY <2>b, <3>2, WriteFeed DEF TypeOK
    <3> QED
      BY <2>b, <2>c, <3>1, <3>3
  <2>10. ASSUME NEW j \in Jobs, CompleteJob(j)
         PROVE  Lifecycle!Next \/ UNCHANGED seen
    <3>1. row[j].status = "running" /\ store' = store
      BY <2>10 DEF CompleteJob, JobInv
    <3>2. PICK o \in Outcomes :
            Write(j, [status |-> "completed", report |-> TRUE,
                      feed |-> nodes[j]], o)
      BY <2>10 DEF CompleteJob
    <3>3. CASE o = "lost"
      BY <2>a, <3>1, <3>2, <3>3 DEF Write
    <3>4. CASE o # "lost"
      <4>1. /\ row'[j].status = "completed" /\ row'[j].report = TRUE
            /\ row'[j].feed = nodes[j]
            /\ \A k \in Jobs \ {j} : row'[k] = row[k]
        BY <2>b, <3>2, <3>4, WriteReport DEF TypeOK
      <4>2. Lifecycle!Complete(j)
        BY <2>b, <3>1, <4>1, OneRow
        DEF Lifecycle!Complete, Lifecycle!FeedGrows
      <4> QED
        BY <4>2 DEF Lifecycle!Next
    <3> QED
      BY <3>3, <3>4
  <2>11. ASSUME NEW j \in Jobs, FailJob(j)
         PROVE  Lifecycle!Next \/ UNCHANGED seen
    <3>1. /\ row[j].status \in {"queued", "running", "completed"}
          /\ store' = store
      BY <2>11 DEF FailJob, JobInv
    <3>2. PICK o \in Outcomes : Write(j, [row[j] EXCEPT !.status = "failed"], o)
      BY <2>11 DEF FailJob
    <3>3. CASE o = "lost"
      BY <2>a, <3>1, <3>2, <3>3 DEF Write
    <3>4. CASE o # "lost"
      BY <2>d, <2>e, <3>1, <3>2, <3>4, WriteStatus DEF TypeOK
    <3> QED
      BY <3>3, <3>4
  <2>12. ASSUME NEW j \in Jobs, DiscardTask(j)
         PROVE  Lifecycle!Next \/ UNCHANGED seen
    BY <2>12, <2>a DEF DiscardTask
  <2>13. CASE Restart
    <3>1. CASE store = "memory"
      <4>1. Lifecycle!Forget
        BY <2>13, <3>1 DEF Restart, NoRow, Lifecycle!Forget
      <4> QED
        BY <4>1 DEF Lifecycle!Next
    <3>2. CASE store # "memory"
      BY <2>13, <2>a, <3>2 DEF Restart
    <3> QED
      BY <3>1, <3>2
  <2>14. CASE UNCHANGED vars
    BY <2>14, <2>a DEF vars
  <2> QED
    BY <2>1, <2>2, <2>3, <2>4, <2>5, <2>6, <2>7, <2>8, <2>9, <2>10, <2>11,
       <2>12, <2>13, <2>14 DEF Next, Handler, TaskStep
<1> QED
  BY <1>1, <1>2, TypeCorrect, JobInvariant, PTL
  DEF Spec, KeepsLifecycle, Lifecycle!Spec

(* What a page sees of a job depends on its request and its status.        *)
LEMMA SeenIs ==
  ASSUME NEW j \in Jobs
  PROVE  /\ request[j] # "accepted" => Seen(j) = "none"
         /\ request[j] = "accepted" =>
              Seen(j) = IF row[j].status = "absent" THEN "lost"
                        ELSE IF row[j].status \in {"queued", "running"}
                        THEN "running" ELSE row[j].status
         /\ request'[j] # "accepted" => Seen(j)' = "none"
         /\ request'[j] = "accepted" =>
              Seen(j)' = IF row'[j].status = "absent" THEN "lost"
                         ELSE IF row'[j].status \in {"queued", "running"}
                         THEN "running" ELSE row'[j].status
BY DEF Seen, Open

(* Each job is served to its page as ServedJob says, with either store,    *)
(* however writes fail and whenever the server restarts.                   *)
THEOREM ServiceServesPages == Spec => ServesPages
<1> DEFINE Agree == \A k \in Jobs : JobInv(k) /\ FeedInv(k)
           Steps == \A j \in Jobs : [Served(j)!Next]_(Seen(j))
           Begins == \A j \in Jobs : Served(j)!Init
<1>1. Init => Begins
  BY DEF Init, Seen, Served!Init
<1>2. TypeOK /\ Agree /\ [Next]_vars => Steps
  <2> SUFFICES ASSUME TypeOK, Agree, [Next]_vars, NEW j \in Jobs
               PROVE  Served(j)!Next \/ Seen(j)' = Seen(j)
    OBVIOUS
  <2> DEFINE Goal == Served(j)!Next \/ Seen(j)' = Seen(j)
  <2>a. ASSUME row'[j].status = row[j].status, request'[j] = request[j] PROVE Goal
    BY <2>a, SeenIs
  <2>b. ASSUME request[j] # "accepted", request'[j] # "accepted" PROVE Goal
    BY <2>b, SeenIs
  <2>c. ASSUME request[j] # "accepted", request'[j] = "accepted",
               row'[j].status = "queued"
        PROVE  Goal
    BY <2>c, SeenIs DEF Served!Next, Served!Accept
  <2>d. ASSUME request[j] = "accepted", request'[j] = "accepted",
               row[j].status \in {"queued", "running"},
               row'[j].status \in {"queued", "running", "completed", "failed"}
        PROVE  Goal
    BY <2>d, SeenIs DEF Served!Next, Served!End, Served!Terminal
  <2>e. ASSUME request[j] = "accepted", request'[j] = "accepted",
               row[j].status = "completed", row'[j].status = "failed"
        PROVE  Goal
    BY <2>e, SeenIs DEF Served!Next, Served!Reopen, Served!Terminal
  <2> HIDE DEF Goal
  <2>1. ASSUME NEW k \in Jobs \ {j},
               Refuse(k) \/ Admit(k) \/ Handler(k) \/ TaskStep(k)
        PROVE  Goal
    <3>1. ASSUME NEW new, NEW o, Write(k, new, o) PROVE row'[j] = row[j]
      BY <3>1 DEF Write, TypeOK
    <3>2. ASSUME Refuse(k) \/ Admit(k) \/ Handler(k)
          PROVE  row'[j] = row[j] /\ request'[j] = request[j]
      BY <3>1, <3>2 DEF Refuse, Admit, Handler, CreateJob, StartTask, Dispatch,
         TypeOK
    <3>3. ASSUME TaskStep(k)
          PROVE  row'[j] = row[j] /\ request'[j] = request[j]
      <4>1. request' = request
        BY <3>3 DEF TaskStep, BeginJob, PersistProgress, PipelineDelivers,
           PipelineFails, ReportFatal, CompleteJob, FailJob, DiscardTask
      <4>2. ASSUME BeginJob(k) \/ PersistProgress(k) \/ ReportFatal(k)
            PROVE  row'[j] = row[j]
        BY <3>1, <4>2 DEF BeginJob, PersistProgress, ReportFatal
      <4>3. ASSUME CompleteJob(k) \/ FailJob(k) PROVE row'[j] = row[j]
        BY <3>1, <4>3 DEF CompleteJob, FailJob
      <4>4. ASSUME PipelineDelivers(k) \/ PipelineFails(k) \/ DiscardTask(k)
            PROVE  row'[j] = row[j]
        BY <4>4 DEF PipelineDelivers, PipelineFails, DiscardTask
      <4> QED
        BY <3>3, <4>1, <4>2, <4>3, <4>4 DEF TaskStep
    <3> QED
      BY <2>1, <2>a, <3>2, <3>3
  <2>2. ASSUME Refuse(j) \/ CreateJob(j) \/ (Admit(j) /\ store # "memory")
        PROVE  Goal
    BY <2>2, <2>b DEF Refuse, CreateJob, Admit, TypeOK
  <2>3. ASSUME StartTask(j) \/ (Admit(j) /\ store = "memory") PROVE Goal
    <3>1. request[j] # "accepted" /\ request'[j] = "accepted"
      BY <2>3 DEF StartTask, Admit, Dispatch, TypeOK
    <3>2. CASE StartTask(j)
      <4>1. row'[j].status = "queued"
        BY <3>2 DEF StartTask, JobInv
      <4> QED
        BY <2>c, <3>1, <4>1
    <3>3. CASE Admit(j) /\ store = "memory"
      <4>1. row'[j].status = "queued"
        BY <3>3, WriteNew DEF Admit, TypeOK
      <4> QED
        BY <2>c, <3>1, <4>1
    <3> QED
      BY <2>3, <3>2, <3>3
  (* the steps of the job's own task *)
  <2>f. ASSUME TaskStep(j)
        PROVE  /\ request' = request
               /\ task[j] # "none" => request[j] = "accepted"
    BY <2>f DEF TaskStep, BeginJob, PersistProgress, PipelineDelivers,
       PipelineFails, ReportFatal, CompleteJob, FailJob, DiscardTask, JobInv
  <2>g. "running" \in Statuses /\ "failed" \in Statuses
    BY DEF Statuses
  <2>h. nodes[j] \in Nat /\ row \in [Jobs -> Row]
    BY DEF TypeOK
  <2>4. ASSUME BeginJob(j) PROVE Goal
    <3>1. /\ request[j] = "accepted" /\ request'[j] = "accepted"
          /\ row[j].status = "queued"
      BY <2>4, <2>f DEF BeginJob, TaskStep, JobInv
    <3>2. row'[j].status \in {"queued", "running"}
      BY <2>4, <2>g, <2>h, <3>1, WriteStatus DEF BeginJob
    <3> QED
      BY <2>d, <3>1, <3>2
  <2>5. ASSUME PersistProgress(j) \/ ReportFatal(j) PROVE Goal
    <3>1. nodes[j] + 1 \in Nat
      BY <2>h
    <3>2. row'[j].status = row[j].status /\ request'[j] = request[j]
      BY <2>5, <2>h, <3>1, WriteFeed DEF PersistProgress, ReportFatal
    <3> QED
      BY <2>a, <3>2
  <2>6. ASSUME PipelineDelivers(j) \/ PipelineFails(j) \/ DiscardTask(j) PROVE Goal
    BY <2>6, <2>a DEF PipelineDelivers, PipelineFails, DiscardTask
  <2>7. ASSUME CompleteJob(j) PROVE Goal
    <3>1. /\ request[j] = "accepted" /\ request'[j] = "accepted"
          /\ row[j].status = "running"
      BY <2>7, <2>f DEF CompleteJob, TaskStep, JobInv
    <3>2. row'[j].status \in {"running", "completed"}
      BY <2>7, <2>h, <3>1, WriteReport DEF CompleteJob
    <3> QED
      BY <2>d, <3>1, <3>2
  <2>8. ASSUME FailJob(j) PROVE Goal
    <3>1. /\ request[j] = "accepted" /\ request'[j] = request[j]
          /\ row[j].status \in {"queued", "running", "completed"}
      BY <2>8, <2>f DEF FailJob, TaskStep, JobInv
    <3>2. row'[j].status \in {row[j].status, "failed"}
      BY <2>8, <2>g, <2>h, WriteStatus DEF FailJob
    <3> QED
      BY <2>a, <2>d, <2>e, <3>1, <3>2
  <2>9. ASSUME Restart PROVE Goal
    <3>1. /\ request[j] # "accepted" => request'[j] # "accepted"
          /\ request[j] = "accepted" => request'[j] = "accepted"
          /\ store = "memory" => row'[j] = NoRow
          /\ store # "memory" => row'[j] = row[j]
      BY <2>9 DEF Restart
    <3>2. CASE request[j] # "accepted"
      BY <2>b, <3>1, <3>2
    <3>3. CASE request[j] = "accepted" /\ store # "memory"
      BY <2>a, <3>1, <3>3
    <3>4. CASE request[j] = "accepted" /\ store = "memory"
      <4>1. Seen(j)' = "lost"
        BY <3>1, <3>4, SeenIs DEF NoRow
      <4>2. row[j].status \in Statuses
        BY <2>h DEF Row
      <4>3. Seen(j) \in {"lost", "running", "completed", "failed"}
        BY <3>4, <4>2, SeenIs DEF Statuses
      <4> QED
        BY <4>1, <4>3 DEF Goal, Served!Next, Served!Lose, Served!Terminal
    <3> QED
      BY <3>2, <3>3, <3>4
  <2>10. ASSUME UNCHANGED vars PROVE Goal
    BY <2>10, <2>a DEF vars
  <2>11. Goal
    BY <2>1, <2>2, <2>3, <2>4, <2>5, <2>6, <2>7, <2>8, <2>9, <2>10
    DEF Next, Handler, TaskStep
  <2> QED
    BY <2>11 DEF Goal
<1> HIDE DEF Agree, Steps, Begins
<1>3. Spec => Begins /\ [][Steps]_vars
  BY <1>1, <1>2, TypeCorrect, JobInvariant, PTL DEF Spec, Agree
<1> QED
  BY <1>3 DEF ServesPages, Steps, Begins

-----------------------------------------------------------------------------
(* Slots come back *)

(* A slot belongs to a task until the task's callback gives it back.       *)
THEOREM SlotInvariant == Spec => []SlotInv
<1> DEFINE Agree == \A k \in Jobs : JobInv(k) /\ FeedInv(k)
<1>1. Init => SlotInv
  BY DEF Init, SlotInv
<1>2. TypeOK /\ Agree /\ SlotInv /\ [Next]_vars => SlotInv'
  <2> SUFFICES ASSUME TypeOK, Agree, SlotInv, [Next]_vars PROVE SlotInv'
    OBVIOUS
  <2> USE BoundsAssumption DEF SlotInv, TypeOK
  <2>1. ASSUME NEW j \in Jobs, Refuse(j) \/ CreateJob(j) \/ DiscardTask(j)
        PROVE  SlotInv'
    BY <2>1 DEF Refuse, CreateJob, DiscardTask
  <2>2. ASSUME NEW j \in Jobs, Admit(j) \/ StartTask(j) PROVE SlotInv'
    <3>1. nodes[j] = 0 /\ nodes' = nodes
      BY <2>2 DEF Admit, StartTask, JobInv
    <3>2. \/ /\ task' = [task EXCEPT ![j] = "created"]
             /\ inline_tasks' = inline_tasks \cup {j}
          \/ UNCHANGED <<task, inline_tasks>>
      BY <2>2 DEF Admit, StartTask, Dispatch, GoTo
    <3> QED
      BY <3>1, <3>2
  <2>3. ASSUME NEW j \in Jobs, BeginJob(j) PROVE SlotInv'
    BY <2>3 DEF BeginJob, GoTo
  <2>4. ASSUME NEW j \in Jobs, PersistProgress(j) PROVE SlotInv'
    BY <2>4 DEF PersistProgress
  <2>5. ASSUME NEW j \in Jobs, PipelineDelivers(j) \/ PipelineFails(j)
        PROVE  SlotInv'
    BY <2>5 DEF PipelineDelivers, PipelineFails, GoTo
  <2>6. ASSUME NEW j \in Jobs, ReportFatal(j) \/ CompleteJob(j) \/ FailJob(j)
        PROVE  SlotInv'
    BY <2>6 DEF ReportFatal, CompleteJob, FailJob, GoTo
  <2>7. CASE Restart
    BY <2>7 DEF Restart
  <2>8. CASE UNCHANGED vars
    BY <2>8 DEF vars
  <2> QED
    BY <2>1, <2>2, <2>3, <2>4, <2>5, <2>6, <2>7, <2>8
    DEF Next, Handler, TaskStep
<1> QED
  BY <1>1, <1>2, TypeCorrect, JobInvariant, PTL DEF Spec

(* What is left to a task is a number.                                     *)
LEMMA RankType ==
  ASSUME TypeOK, SlotInv, NEW j \in Jobs
  PROVE  /\ Rank(j) \in Nat
         /\ Rank(j) = 0 => j \notin inline_tasks
<1>1. StageRank[task[j]] \in Nat
  BY DEF TypeOK, Stages, Working, StageRank
<1>2. task[j] \in {"created", "running"} => MaxNodes - nodes[j] \in Nat
  BY BoundsAssumption DEF TypeOK, SlotInv
<1> QED
  BY <1>1, <1>2 DEF Rank

(* Only what the rank looks at can change it.                              *)
LEMMA SameRank ==
  ASSUME NEW j \in Jobs, task'[j] = task[j], nodes'[j] = nodes[j],
         j \in inline_tasks' <=> j \in inline_tasks
  PROVE  Rank(j)' = Rank(j)
BY DEF Rank

(* A task of another job, whatever it does, has nothing to do with j.      *)
LEMMA OtherTasks ==
  ASSUME TypeOK, NEW j \in Jobs, NEW k \in Jobs \ {j},
         Refuse(k) \/ Admit(k) \/ Handler(k) \/ TaskStep(k)
  PROVE  Rank(j)' = Rank(j)
<1>1. task'[j] = task[j] /\ nodes'[j] = nodes[j]
      /\ (j \in inline_tasks' <=> j \in inline_tasks)
  <2> USE DEF GoTo, Dispatch, TypeOK
  <2>1. ASSUME Refuse(k) \/ Admit(k) \/ Handler(k)
        PROVE  task'[j] = task[j] /\ nodes'[j] = nodes[j]
               /\ (j \in inline_tasks' <=> j \in inline_tasks)
    BY <2>1 DEF Refuse, Admit, Handler, CreateJob, StartTask
  <2>2. ASSUME BeginJob(k) \/ PersistProgress(k) \/ PipelineDelivers(k)
               \/ PipelineFails(k)
        PROVE  task'[j] = task[j] /\ nodes'[j] = nodes[j]
               /\ (j \in inline_tasks' <=> j \in inline_tasks)
    BY <2>2 DEF BeginJob, PersistProgress, PipelineDelivers, PipelineFails
  <2>3. ASSUME ReportFatal(k) \/ CompleteJob(k) \/ FailJob(k) \/ DiscardTask(k)
        PROVE  task'[j] = task[j] /\ nodes'[j] = nodes[j]
               /\ (j \in inline_tasks' <=> j \in inline_tasks)
    BY <2>3 DEF ReportFatal, CompleteJob, FailJob, DiscardTask
  <2> QED
    BY <2>1, <2>2, <2>3 DEF TaskStep
<1> QED
  BY <1>1, SameRank

(* A task's own step is one step nearer to its end, and its callback the   *)
(* last.                                                                   *)
LEMMA TaskStepsDown ==
  ASSUME TypeOK, SlotInv, NEW j \in Jobs, TaskStep(j)
  PROVE  Rank(j)' < Rank(j)
<1>a. /\ nodes[j] \in Nat /\ MaxNodes \in Nat
      /\ task[j] \in {"created", "running"} => MaxNodes - nodes[j] \in Nat
  BY BoundsAssumption DEF TypeOK, SlotInv
<1>b. /\ StageRank["none"] = 0      /\ StageRank["returned"] = 0
      /\ StageRank["failing"] = 1   /\ StageRank["completing"] = 2
      /\ StageRank["reporting"] = 2 /\ StageRank["running"] = 3
      /\ StageRank["created"] = 4
  BY DEF StageRank
<1> USE DEF TypeOK, GoTo
<1>1. CASE BeginJob(j)
  <2>1. /\ task[j] = "created" /\ task'[j] \in {"running", "failing"}
        /\ UNCHANGED <<nodes, inline_tasks>>
    BY <1>1 DEF BeginJob
  <2> QED
    BY <1>a, <1>b, <2>1 DEF Rank
<1>2. CASE PersistProgress(j)
  <2>1. /\ task[j] = "running" /\ nodes[j] < MaxNodes
        /\ nodes'[j] = nodes[j] + 1 /\ UNCHANGED <<task, inline_tasks>>
    BY <1>2 DEF PersistProgress
  <2> QED
    BY <1>a, <1>b, <2>1 DEF Rank
<1>3. CASE PipelineDelivers(j) \/ PipelineFails(j)
  <2>1. /\ task[j] = "running" /\ task'[j] \in {"completing", "reporting"}
        /\ UNCHANGED inline_tasks
    BY <1>3 DEF PipelineDelivers, PipelineFails
  <2> QED
    BY <1>a, <1>b, <2>1 DEF Rank
<1>4. CASE ReportFatal(j) \/ CompleteJob(j)
  <2>1. /\ task[j] \in {"reporting", "completing"}
        /\ task'[j] \in {"failing", "returned"} /\ UNCHANGED inline_tasks
    BY <1>4 DEF ReportFatal, CompleteJob
  <2> QED
    BY <1>b, <2>1 DEF Rank
<1>5. CASE FailJob(j)
  <2>1. task[j] = "failing" /\ task'[j] = "returned" /\ UNCHANGED inline_tasks
    BY <1>5 DEF FailJob
  <2> QED
    BY <1>b, <2>1 DEF Rank
<1>6. CASE DiscardTask(j)
  <2>1. /\ task[j] = "returned" /\ task' = task
        /\ j \in inline_tasks /\ j \notin inline_tasks'
    BY <1>6 DEF DiscardTask
  <2> QED
    BY <1>b, <2>1 DEF Rank
<1> QED
  BY <1>1, <1>2, <1>3, <1>4, <1>5, <1>6 DEF TaskStep

(* However its writes end, a task moves towards giving its slot back, and  *)
(* no other step keeps it from it: with fairness, SlotsComeBack.           *)
THEOREM TasksRunDown == Spec => SlotsRunDown
<1> DEFINE Down == \A j \in Jobs :
             /\ TaskStep(j) => Rank(j)' < Rank(j)
             /\ Rank(j)' > Rank(j) => Admit(j) \/ StartTask(j)
             /\ Rank(j) = 0 => j \notin inline_tasks
           Ranked == \A j \in Jobs : Rank(j) \in Nat
<1>a. TypeOK /\ SlotInv => Ranked
  BY RankType
<1>b. TypeOK' /\ SlotInv' => Ranked'
  <2> HIDE DEF Ranked
  <2> QED
    BY <1>a, PTL
<1>1. TypeOK /\ SlotInv /\ TypeOK' /\ SlotInv' /\ [Next]_vars => Down
  <2> SUFFICES ASSUME TypeOK, SlotInv, TypeOK', SlotInv', [Next]_vars,
                      NEW j \in Jobs
               PROVE  /\ TaskStep(j) => Rank(j)' < Rank(j)
                      /\ Rank(j)' > Rank(j) => Admit(j) \/ StartTask(j)
                      /\ Rank(j) = 0 => j \notin inline_tasks
    OBVIOUS
  <2>a. Rank(j) \in Nat /\ Rank(j)' \in Nat
    BY <1>a, <1>b
  <2>1. ASSUME NEW k \in Jobs,
               Refuse(k) \/ Admit(k) \/ Handler(k) \/ TaskStep(k)
        PROVE  Rank(j)' <= Rank(j) \/ Admit(j) \/ StartTask(j)
    <3>1. CASE k # j
      <4>1. Rank(j)' = Rank(j)
        BY <2>1, <3>1, OtherTasks
      <4> QED
        BY <2>a, <4>1
    <3>2. CASE k = j
      <4>1. ASSUME Refuse(j) \/ CreateJob(j) PROVE Rank(j)' <= Rank(j)
        <5>1. Rank(j)' = Rank(j)
          BY <4>1, SameRank DEF Refuse, CreateJob
        <5> QED
          BY <2>a, <5>1
      <4>2. ASSUME TaskStep(j) PROVE Rank(j)' <= Rank(j)
        <5>1. Rank(j)' < Rank(j)
          BY <4>2, TaskStepsDown
        <5> QED
          BY <2>a, <5>1
      <4> QED
        BY <2>1, <3>2, <4>1, <4>2 DEF Handler
    <3> QED
      BY <3>1, <3>2
  <2>2. ASSUME Restart PROVE Rank(j)' <= Rank(j)
    <3>1. Rank(j)' = 0
      BY <2>2 DEF Restart, Rank, StageRank
    <3> QED
      BY <2>a, <3>1
  <2>3. ASSUME UNCHANGED vars PROVE Rank(j)' <= Rank(j)
    <3>1. Rank(j)' = Rank(j)
      BY <2>3, SameRank DEF vars
    <3> QED
      BY <2>a, <3>1
  <2>4. Rank(j)' <= Rank(j) \/ Admit(j) \/ StartTask(j)
    BY <2>1, <2>2, <2>3 DEF Next
  <2>5. ~(Rank(j)' <= Rank(j) /\ Rank(j)' > Rank(j))
    BY <2>a
  <2> QED
    BY <2>4, <2>5, RankType, TaskStepsDown
<1> QED
  BY <1>1, TypeCorrect, SlotInvariant, PTL DEF Spec, SlotsRunDown
=============================================================================
