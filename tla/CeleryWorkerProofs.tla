-------------------------- MODULE CeleryWorkerProofs --------------------------
(***************************************************************************)
(* The safety properties of CeleryWorker, for any number of requests, any  *)
(* worker, any number of retries and of lost workers, and that it          *)
(* implements the at-least-once form of JobLifecycle.                      *)
(***************************************************************************)
EXTENDS CeleryWorker, FiniteSetTheorems, TLAPS

(* A write of the status leaves the report alone, and other rows.          *)
LEMMA WriteStatus ==
  ASSUME NEW j \in Jobs, NEW s \in Statuses, NEW o,
         row \in [Jobs -> Row], Write(j, [row[j] EXCEPT !.status = s], o)
  PROVE  /\ row' \in [Jobs -> Row]
         /\ row'[j].status = IF o = "lost" THEN row[j].status ELSE s
         /\ row'[j].report = row[j].report
         /\ \A k \in Jobs \ {j} : row'[k] = row[k]
BY DEF Write, Row

(* The insert of a row, where there was none.                              *)
LEMMA WriteNew ==
  ASSUME NEW j \in Jobs, NEW o, row \in [Jobs -> Row],
         Write(j, [NoRow EXCEPT !.status = "queued"], o)
  PROVE  /\ row' \in [Jobs -> Row]
         /\ o = "lost" => row'[j] = row[j]
         /\ o # "lost" => row'[j].status = "queued" /\ ~row'[j].report
         /\ \A k \in Jobs \ {j} : row'[k] = row[k]
BY DEF Write, Row, NoRow, Statuses

(* The write that completes a job.                                         *)
LEMMA WriteReport ==
  ASSUME NEW j \in Jobs, NEW o, row \in [Jobs -> Row],
         Write(j, [status |-> "completed", report |-> TRUE], o)
  PROVE  /\ row' \in [Jobs -> Row]
         /\ row'[j].status = IF o = "lost" THEN row[j].status ELSE "completed"
         /\ row'[j].report = (o # "lost" \/ row[j].report)
         /\ \A k \in Jobs \ {j} : row'[k] = row[k]
BY DEF Write, Row, Statuses

(* Publishing adds copies of one message, and counts those beyond one.     *)
LEMMA EnqueueAdds ==
  ASSUME TypeOK, NEW j \in Jobs, NEW r \in 0..MaxRetries, NEW n \in Nat,
         Enqueue(j, r, n)
  PROVE  /\ queue' \in [Messages -> Nat]
         /\ <<j, r>> \in Messages /\ queue'[<<j, r>>] = queue[<<j, r>>] + n
         /\ \A m \in Messages \ {<<j, r>>} : queue'[m] = queue[m]
         /\ repeats' \in [Jobs -> 0..MaxRepeats]
         /\ repeats'[j] = repeats[j] + Beyond(n) /\ Beyond(n) \in Nat
         /\ n \in {0, 1} => repeats' = repeats
         /\ n > 1 => repeats'[j] = repeats[j] + n - 1
         /\ \A k \in Jobs \ {j} : repeats'[k] = repeats[k]
<1>1. <<j, r>> \in Messages /\ Beyond(n) \in Nat
  BY DEF Messages, Beyond
<1>2. /\ repeats \in [Jobs -> 0..MaxRepeats] /\ repeats[j] \in 0..MaxRepeats
      /\ repeats' = [repeats EXCEPT ![j] = @ + Beyond(n)]
      /\ Beyond(n) <= MaxRepeats - repeats[j]
  BY DEF Enqueue, TypeOK
<1>3. repeats[j] + Beyond(n) \in 0..MaxRepeats
  BY <1>1, <1>2, RepeatsAssumption
<1>4. n \in {0, 1} => Beyond(n) = 0
  BY DEF Beyond
<1>5. repeats' \in [Jobs -> 0..MaxRepeats]
  BY <1>2, <1>3
<1>6. repeats'[j] = repeats[j] + Beyond(n)
  BY <1>2
<1>7. n \in {0, 1} => repeats' = repeats
  BY <1>2, <1>4, <1>5, <1>6
<1>8. n > 1 => repeats'[j] = repeats[j] + n - 1
  BY <1>2, <1>6 DEF Beyond
<1> QED
  BY <1>1, <1>2, <1>5, <1>6, <1>7, <1>8 DEF Enqueue, TypeOK

(* How many copies a publication may leave.                                *)
LEMMA CopiesAreNumbers == 0..(MaxRepeats + 1) \subseteq Nat
BY RepeatsAssumption

(* A busy slot holds a message.                                            *)
LEMMA BusyHolds ==
  ASSUME TypeOK, NEW w \in Slots, stage[w] # "idle"
  PROVE  /\ holds[w] \in Messages
         /\ holds[w] # Nothing
         /\ JobOf(w) \in Jobs
         /\ RetriesOf(w) \in 0..MaxRetries
         /\ holds[w] = <<JobOf(w), RetriesOf(w)>>
BY DEF TypeOK, Messages, JobOf, RetriesOf

(* No message is nothing.                                                  *)
LEMMA MessagesAreSomething == \A m \in Messages : m # Nothing
BY DEF Messages, Nothing

(* Every variable holds what its declaration says.                         *)
THEOREM TypeCorrect == Spec => []TypeOK
<1> USE RetriesAssumption, RepeatsAssumption DEF Stages, AtWork
<1>1. Init => TypeOK
  BY DEF Init, TypeOK, Requests, Row, NoRow, Statuses, Errors, Messages
<1>2. TypeOK /\ [Next]_vars => TypeOK'
  <2> SUFFICES ASSUME TypeOK, [Next]_vars PROVE TypeOK'
    OBVIOUS
  <2>a. {"queued", "running", "completed", "failed"} \subseteq Statuses
    BY DEF Statuses
  <2>b. ASSUME NEW j \in Jobs, Dispatch(j)
        PROVE  /\ request' \in [Jobs -> Requests]
               /\ queue' \in [Messages -> Nat]
               /\ repeats' \in [Jobs -> 0..MaxRepeats]
    <3>1. PICK copies \in 0..(MaxRepeats + 1) : Enqueue(j, 0, copies)
      BY <2>b DEF Dispatch
    <3>2. request' \in [Jobs -> Requests]
      BY <2>b DEF Dispatch, TypeOK, Requests
    <3>3. 0 \in 0..MaxRetries /\ copies \in Nat
      BY CopiesAreNumbers
    <3> QED
      BY <3>1, <3>2, <3>3, EnqueueAdds
  <2>1. ASSUME NEW j \in Jobs, Refuse(j) PROVE TypeOK'
    BY <2>1 DEF Refuse, TypeOK, Requests
  <2>2. ASSUME NEW j \in Jobs, Admit(j) PROVE TypeOK'
    <3>1. CASE store = "memory"
      <4>1. Write(j, [NoRow EXCEPT !.status = "queued"], "ok") /\ Dispatch(j)
        BY <2>2, <3>1 DEF Admit
      <4>2. row' \in [Jobs -> Row]
        BY <4>1, WriteNew DEF TypeOK
      <4> QED
        BY <2>2, <4>1, <4>2, <2>b DEF Admit, TypeOK
    <3>2. CASE store # "memory"
      BY <2>2, <3>2 DEF Admit, TypeOK, Requests
    <3> QED
      BY <3>1, <3>2
  <2>3. ASSUME NEW j \in Jobs, CreateJob(j) PROVE TypeOK'
    <3>1. row' \in [Jobs -> Row]
      BY <2>3, WriteNew DEF CreateJob, TypeOK
    <3> QED
      BY <2>3, <3>1 DEF CreateJob, TypeOK, Requests
  <2>4. ASSUME NEW j \in Jobs, Publish(j) PROVE TypeOK'
    BY <2>4, <2>b DEF Publish, TypeOK
  <2>5. ASSUME NEW w \in Slots, NEW m \in Messages, Deliver(w, m) PROVE TypeOK'
    BY <2>5, MessagesAreSomething DEF Deliver, GoTo, TypeOK
  <2>6. ASSUME NEW w \in Slots, MarkRunning(w) PROVE TypeOK'
    <3>1. JobOf(w) \in Jobs
      BY <2>6, BusyHolds DEF MarkRunning
    <3>2. row' \in [Jobs -> Row]
      BY <2>6, <2>a, <3>1, WriteStatus DEF MarkRunning, TypeOK
    <3>3. /\ stage' \in [Slots -> Stages] /\ error' \in [Slots -> Errors]
          /\ starts' \in [Jobs -> Nat]
          /\ stage'[w] # "idle" /\ \A v \in Slots \ {w} : stage'[v] = stage[v]
      BY <2>6, <3>1 DEF MarkRunning, GoTo, Raise, TypeOK, Errors
    <3> QED
      BY <2>6, <3>2, <3>3 DEF MarkRunning, TypeOK
  <2>7. ASSUME NEW w \in Slots, RunPipeline(w) PROVE TypeOK'
    BY <2>7 DEF RunPipeline, GoTo, Raise, TypeOK, Errors
  <2>8. ASSUME NEW w \in Slots, CompleteJob(w) PROVE TypeOK'
    <3>1. JobOf(w) \in Jobs
      BY <2>8, BusyHolds DEF CompleteJob
    <3>2. row' \in [Jobs -> Row]
      BY <2>8, <3>1, WriteReport DEF CompleteJob, TypeOK
    <3> QED
      BY <2>8, <3>2 DEF CompleteJob, GoTo, Raise, TypeOK, Errors
  <2>9. ASSUME NEW w \in Slots, FailJob(w) PROVE TypeOK'
    <3>1. JobOf(w) \in Jobs
      BY <2>9, BusyHolds DEF FailJob
    <3>2. row' \in [Jobs -> Row]
      BY <2>9, <2>a, <3>1, WriteStatus DEF FailJob, TypeOK
    <3>3. /\ error' \in [Slots -> Errors] /\ abandoned' \subseteq Jobs
          /\ UNCHANGED <<store, request, queue, holds, unacked, crashes, starts,
                         repeats>>
      BY <2>9, <3>1 DEF FailJob, OpenAmong, TypeOK, Errors
    <3>4. stage[w] = "failing" /\ \E s \in {"retrying", "finished"} :
            stage' = [stage EXCEPT ![w] = s]
      BY <2>9 DEF FailJob, GoTo
    <3>5. /\ stage' \in [Slots -> Stages]
          /\ stage'[w] # "idle" /\ \A v \in Slots \ {w} : stage'[v] = stage[v]
      BY <3>4 DEF TypeOK
    <3> QED
      BY <3>2, <3>3, <3>4, <3>5 DEF TypeOK
  <2>10. ASSUME NEW w \in Slots, Retry(w) PROVE TypeOK'
    <3>1. queue' \in [Messages -> Nat] /\ repeats' \in [Jobs -> 0..MaxRepeats]
      <4>1. CASE RetriesOf(w) < MaxRetries
        <5>1. JobOf(w) \in Jobs /\ RetriesOf(w) + 1 \in 0..MaxRetries
          BY <2>10, <4>1, BusyHolds DEF Retry
        <5>2. PICK copies \in 0..(MaxRepeats + 1) :
                Enqueue(JobOf(w), RetriesOf(w) + 1, copies)
          BY <2>10, <4>1 DEF Retry
        <5> QED
          BY <5>1, <5>2, EnqueueAdds, CopiesAreNumbers
      <4>2. CASE ~(RetriesOf(w) < MaxRetries)
        BY <2>10, <4>2 DEF Retry, TypeOK
      <4> QED
        BY <4>1, <4>2
    <3> QED
      BY <2>10, <3>1 DEF Retry, GoTo, TypeOK
  <2>11. ASSUME NEW w \in Slots, Acknowledge(w) PROVE TypeOK'
    BY <2>11 DEF Acknowledge, Release, GoTo, TypeOK, Errors
  <2>12. ASSUME NEW w \in Slots, KillProcess(w) PROVE TypeOK'
    BY <2>12, BusyHolds DEF KillProcess, Release, GoTo, OpenAmong, TypeOK, Errors
  <2>13. ASSUME CrashWorker PROVE TypeOK'
    <3>1. \A m \in Messages : Cardinality({w \in unacked : holds[w] = m}) \in Nat
      <4>1. IsFiniteSet(unacked)
        BY SlotsAssumption, FS_Subset DEF TypeOK
      <4> QED
        BY <4>1, FS_Subset, FS_CardinalityType
    <3> QED
      BY <2>13, <3>1 DEF CrashWorker, OpenAmong, TypeOK, Errors
  <2>14. ASSUME EvictQueue PROVE TypeOK'
    BY <2>14 DEF EvictQueue, OpenAmong, TypeOK
  <2>16. ASSUME EvictUnacked PROVE TypeOK'
    BY <2>16 DEF EvictUnacked, TypeOK
  <2>15. CASE UNCHANGED vars
    BY <2>15 DEF vars, TypeOK
  <2> QED
    BY <2>1, <2>2, <2>3, <2>4, <2>5, <2>6, <2>7, <2>8, <2>9, <2>10, <2>11,
       <2>12, <2>13, <2>14, <2>15, <2>16 DEF Next, Handler, TaskStep, Take
<1> QED
  BY <1>1, <1>2, PTL DEF Spec

-----------------------------------------------------------------------------
(* A step that touches nothing of a job: its row, its request, its waiting *)
(* copies and the slots that work on it.                                   *)
Untouched(k) ==
  /\ row'[k] = row[k] /\ request'[k] = request[k] /\ repeats'[k] = repeats[k]
  /\ \A r \in 0..MaxRetries : queue'[<<k, r>>] = queue[<<k, r>>]
  /\ \A w \in Slots :
       \/ stage'[w] = stage[w] /\ holds'[w] = holds[w]
       \/ ~About(w, k) /\ ~About(w, k)'

(* What is known of a job outlives a step that does not touch it.          *)
LEMMA Undisturbed ==
  ASSUME NEW k \in Jobs, JobInv(k), LoneInv(k), Untouched(k),
         crashes' = crashes, abandoned \subseteq abandoned'
  PROVE  JobInv(k)' /\ LoneInv(k)'
<1> USE DEF Untouched, About, JobOf, AtWork
<1>1. Waits(k)' <=> Waits(k)
  BY DEF Waits
<1>2. \A w \in Slots : About(w, k)' <=> About(w, k)
  OBVIOUS
<1>3. Attended(k) => Attended(k)'
  BY <1>1 DEF Attended
<1>4. \A w \in Slots : Engaged(w, k)' <=> Engaged(w, k)
  BY DEF Engaged
<1>5. JobInv(k)'
  BY <1>1, <1>2, <1>3 DEF JobInv, Open
<1>6. \A w \in Slots : stage'[w] = "started" /\ holds'[w] = <<k, 0>> =>
        stage[w] = "started" /\ holds[w] = <<k, 0>>
  OBVIOUS
<1>7. LoneInv(k)'
  <2> SUFFICES ASSUME crashes = 0, repeats[k] = 0, Alone(k) PROVE Alone(k)'
    BY DEF LoneInv
  <2>1. \A r \in 0..MaxRetries : queue'[<<k, r>>] = queue[<<k, r>>]
    OBVIOUS
  <2>2. 0 \in 0..MaxRetries
    BY RetriesAssumption
  <2> QED
    BY <1>1, <1>4, <1>6, <2>1, <2>2 DEF Alone
<1> QED
  BY <1>5, <1>7

(* A job of which there is no copy is alone.                               *)
LEMMA NoCopies ==
  ASSUME NEW j \in Jobs, \A r \in 0..MaxRetries : queue'[<<j, r>>] \in Nat,
         ~Waits(j)', \A w \in Slots : ~About(w, j)'
  PROVE  LoneInv(j)' /\ \A w \in Slots : ~Engaged(w, j)'
<1>1. \A w \in Slots : ~Engaged(w, j)'
  BY DEF Engaged, About, AtWork
<1>2. \A r \in 0..MaxRetries : queue'[<<j, r>>] = 0
  BY DEF Waits
<1>3. \A w \in Slots : ~(stage'[w] = "started" /\ holds'[w] = <<j, 0>>)
  BY DEF About, JobOf
<1>4. 0 \in 0..MaxRetries
  BY RetriesAssumption
<1> QED
  BY <1>1, <1>2, <1>3, <1>4 DEF LoneInv, Alone

(* A job stays alone while the one slot that works on it moves on.         *)
LEMMA StaysAlone ==
  ASSUME NEW j \in Jobs, NEW w \in Slots, LoneInv(j), Engaged(w, j),
         stage'[w] # "started",
         \A v \in Slots \ {w} : stage'[v] = stage[v],
         UNCHANGED <<queue, holds, crashes, repeats>>
  PROVE  LoneInv(j)'
<1> SUFFICES ASSUME crashes = 0, repeats[j] = 0, Alone(j) PROVE Alone(j)'
  BY DEF LoneInv
<1>1. ~Waits(j) /\ ~Waits(j)'
  BY DEF Alone, Waits
<1>2. \A v \in Slots : Engaged(v, j)' => v = w
  BY DEF Alone, Engaged, JobOf
<1>3. 0 \in 0..MaxRetries
  BY RetriesAssumption
<1>4. ~(queue'[<<j, 0>>] > 0)
  BY <1>1, <1>3 DEF Waits
<1>5. \A v \in Slots : ~(stage'[v] = "started" /\ holds'[v] = <<j, 0>>)
  BY <1>2 DEF Engaged, JobOf, AtWork
<1> QED
  BY <1>1, <1>2, <1>4, <1>5 DEF Alone

(* A slot that works on one job does not touch another.                    *)
LEMMA OtherJobs ==
  ASSUME TypeOK, NEW w \in Slots, stage[w] # "idle",
         NEW k \in Jobs \ {JobOf(w)},
         row'[k] = row[k], request' = request, repeats'[k] = repeats[k],
         \A r \in 0..MaxRetries : queue'[<<k, r>>] = queue[<<k, r>>],
         \A v \in Slots \ {w} : stage'[v] = stage[v] /\ holds'[v] = holds[v],
         holds'[w] = holds[w] \/ stage'[w] = "idle"
  PROVE  Untouched(k)
BY DEF Untouched, About, JobOf

(* A slot drops its message.                                               *)
Leaves(w, j) ==
  /\ About(w, j) /\ stage'[w] = "idle"
  /\ \A v \in Slots \ {w} : stage'[v] = stage[v] /\ holds'[v] = holds[v]
  /\ UNCHANGED <<row, request, queue, crashes, repeats>>

(* Then there is a copy less; that the job is attended is shown elsewhere. *)
LEMMA SlotFreed ==
  ASSUME NEW j \in Jobs, NEW w \in Slots, JobInv(j), LoneInv(j), Leaves(w, j),
         \/ Open(j)' => j \in abandoned'
         \/ (Attended(j) => Attended(j)') /\ abandoned \subseteq abandoned'
  PROVE  JobInv(j)' /\ LoneInv(j)'
<1> USE DEF Leaves
<1>1. \A v \in Slots : About(v, j)' =>
        About(v, j) /\ stage'[v] = stage[v] /\ holds'[v] = holds[v]
  BY DEF About, JobOf
<1>2. Waits(j)' <=> Waits(j)
  BY DEF Waits
<1>3. JobInv(j)'
  BY <1>1, <1>2 DEF JobInv, Open
<1>4. \A v \in Slots : Engaged(v, j)' => Engaged(v, j)
  BY <1>1 DEF Engaged, About, AtWork, JobOf
<1>5. \A v \in Slots : stage'[v] = "started" /\ holds'[v] = <<j, 0>> =>
        stage[v] = "started" /\ holds[v] = <<j, 0>>
  BY <1>1 DEF About, JobOf
<1>6. LoneInv(j)'
  BY <1>2, <1>4, <1>5 DEF LoneInv, Alone
<1> QED
  BY <1>3, <1>6

(* JobInv and LoneInv are inductive: a step examines one job, and leaves   *)
(* the others untouched.                                                   *)
THEOREM JobInvariant == Spec => [](\A k \in Jobs : JobInv(k) /\ LoneInv(k))
<1> DEFINE Agree == \A k \in Jobs : JobInv(k) /\ LoneInv(k)
<1> USE RetriesAssumption
<1>1. Init => Agree
  <2> SUFFICES ASSUME Init, NEW j \in Jobs PROVE JobInv(j) /\ LoneInv(j)
    OBVIOUS
  <2>1. /\ request[j] = "none" /\ row[j] = NoRow
        /\ \A r \in 0..MaxRetries : queue[<<j, r>>] = 0
        /\ \A w \in Slots : stage[w] = "idle"
    BY DEF Init, Messages
  <2>2. \A w \in Slots : ~About(w, j) /\ ~Engaged(w, j)
    BY <2>1 DEF About, Engaged, AtWork
  <2>4. ~Waits(j)
    <3> SUFFICES ASSUME NEW r \in 0..MaxRetries, queue[<<j, r>>] > 0 PROVE FALSE
      BY DEF Waits
    <3> QED
      BY <2>1
  <2>3. 0 \in 0..MaxRetries
    OBVIOUS
  <2> QED
    BY <2>1, <2>2, <2>3, <2>4 DEF JobInv, LoneInv, Alone
<1>2. TypeOK /\ Agree /\ [Next]_vars => Agree'
  <2> SUFFICES ASSUME TypeOK, Agree, [Next]_vars PROVE Agree'
    OBVIOUS
  <2>a. ASSUME NEW j \in Jobs, JobInv(j)', LoneInv(j)',
               \A k \in Jobs \ {j} : Untouched(k),
               crashes' = crashes, abandoned \subseteq abandoned'
        PROVE  Agree'
    <3> SUFFICES ASSUME NEW k \in Jobs PROVE (JobInv(k) /\ LoneInv(k))'
      OBVIOUS
    <3>1. CASE k = j
      BY <3>1, <2>a
    <3>2. CASE k # j
      BY <3>2, <2>a, Undisturbed
    <3> QED
      BY <3>1, <3>2
  <2>b. NoRow.status = "absent"
    BY DEF NoRow
  <2>e. \A j \in Jobs, r \in 0..MaxRetries : queue[<<j, r>>] \in Nat
    BY DEF TypeOK, Messages
  <2>c. 0 \in 0..MaxRetries /\ \A j \in Jobs : <<j, 0>> \in Messages
    BY DEF Messages
  <2>d. ASSUME NEW j \in Jobs, Dispatch(j), request[j] \in {"none", "created"},
               row'[j].status = "queued", \A k \in Jobs \ {j} : row'[k] = row[k],
               UNCHANGED <<stage, holds, crashes, abandoned>>
        PROVE  Agree'
    <3>1. PICK copies \in 0..(MaxRepeats + 1) :
            /\ Enqueue(j, 0, copies)
            /\ \/ copies > 0 /\ request' = [request EXCEPT ![j] = "accepted"]
               \/ request' = [request EXCEPT ![j] = "errored"]
      BY <2>d DEF Dispatch
    <3>2. /\ \/ copies > 0 /\ request'[j] = "accepted"
             \/ request'[j] = "errored"
          /\ \A k \in Jobs \ {j} : request'[k] = request[k]
      BY <3>1 DEF TypeOK
    <3>3. /\ \A r \in 0..MaxRetries : queue[<<j, r>>] = 0
          /\ \A w \in Slots : ~About(w, j)
      BY <2>d, <2>e DEF JobInv, Waits
    <3>a. /\ queue'[<<j, 0>>] = queue[<<j, 0>>] + copies
          /\ \A m \in Messages \ {<<j, 0>>} : queue'[m] = queue[m]
          /\ copies > 1 => repeats'[j] = repeats[j] + copies - 1
          /\ \A k \in Jobs \ {j} : repeats'[k] = repeats[k]
      BY <2>c, <3>1, EnqueueAdds, CopiesAreNumbers
    <3>4. /\ queue'[<<j, 0>>] = copies
          /\ \A r \in (0..MaxRetries) \ {0} : queue'[<<j, r>>] = 0
          /\ \A k \in Jobs \ {j}, r \in 0..MaxRetries :
               queue'[<<k, r>>] = queue[<<k, r>>]
      BY <2>c, <3>a, <3>3, CopiesAreNumbers DEF Messages
    <3>b. repeats'[j] = 0 => copies <= 1
      BY <3>a, RepeatsAssumption DEF TypeOK
    <3>5. copies > 0 => Waits(j)'
      BY <2>c, <3>4 DEF Waits
    <3>6. \A w \in Slots : ~About(w, j)' /\ ~Engaged(w, j)'
      BY <2>d, <3>3 DEF About, Engaged, AtWork, JobOf
    <3>7. JobInv(j)'
      BY <2>d, <3>2, <3>5, <3>6 DEF JobInv, Attended
    <3>8. \A w \in Slots : ~(stage'[w] = "started" /\ holds'[w] = <<j, 0>>)
      BY <3>6 DEF About, JobOf
    <3>9. LoneInv(j)'
      BY <2>c, <2>d, <3>4, <3>b, <3>6, <3>8 DEF LoneInv, Alone
    <3>10. \A k \in Jobs \ {j} : Untouched(k)
      BY <2>d, <3>2, <3>a, <3>4 DEF Untouched
    <3> QED
      BY <2>a, <2>d, <3>7, <3>9, <3>10
  <2>1. ASSUME NEW j \in Jobs, Refuse(j) PROVE Agree'
    <3>1. /\ request'[j] = "refused"
          /\ UNCHANGED <<row, queue, stage, holds, crashes, repeats, abandoned>>
      BY <2>1 DEF Refuse, TypeOK
    <3>2. ~Waits(j) /\ \A w \in Slots : ~About(w, j)
      BY <2>1 DEF Refuse, JobInv
    <3>3. ~Waits(j)' /\ \A w \in Slots : ~About(w, j)'
      BY <3>1, <3>2 DEF Waits, About, JobOf
    <3>4. JobInv(j)' /\ LoneInv(j)'
      BY <2>e, <3>1, <3>3, NoCopies DEF JobInv
    <3>5. \A k \in Jobs \ {j} : Untouched(k)
      BY <2>1, <3>1 DEF Refuse, Untouched, TypeOK
    <3> QED
      BY <2>a, <3>1, <3>4, <3>5
  <2>2. ASSUME NEW j \in Jobs, Admit(j) PROVE Agree'
    <3>1. CASE store = "memory"
      <4>1. Write(j, [NoRow EXCEPT !.status = "queued"], "ok") /\ Dispatch(j)
            /\ request[j] = "none"
            /\ UNCHANGED <<stage, holds, crashes, abandoned>>
        BY <2>2, <3>1 DEF Admit
      <4>2. row'[j].status = "queued" /\ \A k \in Jobs \ {j} : row'[k] = row[k]
        BY <4>1, WriteNew DEF TypeOK
      <4> QED
        BY <2>d, <4>1, <4>2
    <3>2. CASE store # "memory"
      <4>1. /\ request'[j] = "creating" /\ request[j] = "none"
            /\ UNCHANGED <<row, queue, stage, holds, crashes, repeats, abandoned>>
        BY <2>2, <3>2 DEF Admit, TypeOK
      <4>2. ~Waits(j) /\ (\A w \in Slots : ~About(w, j)) /\ row[j] = NoRow
        BY <4>1 DEF JobInv
      <4>3. ~Waits(j)' /\ \A w \in Slots : ~About(w, j)'
        BY <4>1, <4>2 DEF Waits, About, JobOf
      <4>4. JobInv(j)' /\ LoneInv(j)'
        BY <2>e, <4>1, <4>2, <4>3, NoCopies DEF JobInv
      <4>5. \A k \in Jobs \ {j} : request'[k] = request[k]
        BY <2>2, <3>2 DEF Admit, TypeOK
      <4>6. \A k \in Jobs \ {j} : Untouched(k)
        BY <4>1, <4>5 DEF Untouched
      <4> QED
        BY <2>a, <4>1, <4>4, <4>6
    <3> QED
      BY <3>1, <3>2
  <2>3. ASSUME NEW j \in Jobs, CreateJob(j) PROVE Agree'
    <3>1. PICK o \in Outcomes :
            /\ Write(j, [NoRow EXCEPT !.status = "queued"], o)
            /\ request' = [request EXCEPT
                             ![j] = IF o = "ok" THEN "created" ELSE "errored"]
      BY <2>3 DEF CreateJob
    <3>2. /\ request'[j] = IF o = "ok" THEN "created" ELSE "errored"
          /\ o = "ok" => row'[j].status = "queued"
          /\ \A k \in Jobs \ {j} : row'[k] = row[k] /\ request'[k] = request[k]
          /\ UNCHANGED <<queue, stage, holds, crashes, repeats, abandoned>>
      BY <2>3, <3>1, WriteNew DEF CreateJob, TypeOK
    <3>3. ~Waits(j) /\ \A w \in Slots : ~About(w, j)
      BY <2>3 DEF CreateJob, JobInv
    <3>4. ~Waits(j)' /\ \A w \in Slots : ~About(w, j)'
      BY <3>2, <3>3 DEF Waits, About, JobOf
    <3>5. JobInv(j)' /\ LoneInv(j)'
      BY <2>e, <3>2, <3>4, NoCopies DEF JobInv
    <3>6. \A k \in Jobs \ {j} : Untouched(k)
      BY <3>2 DEF Untouched
    <3> QED
      BY <2>a, <3>2, <3>5, <3>6
  <2>4. ASSUME NEW j \in Jobs, Publish(j) PROVE Agree'
    BY <2>4, <2>d DEF Publish, JobInv
  <2>f. ASSUME NEW w \in Slots, stage[w] # "idle"
        PROVE  /\ JobOf(w) \in Jobs /\ RetriesOf(w) \in 0..MaxRetries
               /\ holds[w] = <<JobOf(w), RetriesOf(w)>>
               /\ About(w, JobOf(w))
               /\ row[JobOf(w)].status \in Statuses \ {"absent"}
               /\ request[JobOf(w)] \in {"accepted", "errored"}
    <3>1. /\ JobOf(w) \in Jobs /\ RetriesOf(w) \in 0..MaxRetries
          /\ holds[w] = <<JobOf(w), RetriesOf(w)>>
          /\ About(w, JobOf(w))
      BY <2>f, BusyHolds DEF About
    <3> QED
      BY <3>1 DEF JobInv, TypeOK, Row, Requests
  <2>g. {"running", "failed"} \subseteq Statuses
    BY DEF Statuses
  <2>5. ASSUME NEW w \in Slots, NEW m \in Messages, Deliver(w, m) PROVE Agree'
    <3> PICK j \in Jobs, r \in 0..MaxRetries : m = <<j, r>>
      BY DEF Messages
    <3>1. /\ stage[w] = "idle" /\ stage'[w] = "started" /\ holds'[w] = <<j, r>>
          /\ \A v \in Slots \ {w} : stage'[v] = stage[v] /\ holds'[v] = holds[v]
          /\ UNCHANGED <<row, request, crashes, repeats, abandoned>>
      BY <2>5 DEF Deliver, GoTo, TypeOK
    <3>2. /\ queue[<<j, r>>] > 0 /\ queue'[<<j, r>>] = queue[<<j, r>>] - 1
          /\ \A n \in Messages \ {<<j, r>>} : queue'[n] = queue[n]
      BY <2>5 DEF Deliver, TypeOK
    <3>3. Waits(j) /\ (Waits(j)' => Waits(j))
      BY <3>2 DEF Waits
    <3>4. About(w, j)' /\ Attended(j)'
      BY <3>1 DEF About, Attended, JobOf, AtWork
    <3>5. \A v \in Slots \ {w} : About(v, j)' <=> About(v, j)
      BY <3>1 DEF About, JobOf
    <3>6. JobInv(j)'
      BY <3>1, <3>3, <3>4, <3>5 DEF JobInv
    <3>7. LoneInv(j)'
      <4> SUFFICES ASSUME crashes = 0, repeats[j] = 0 PROVE Alone(j)'
        BY <3>1 DEF LoneInv
      <4>1. Alone(j)
        BY DEF LoneInv
      <4>2. \A v \in Slots : Engaged(v, j)' => v = w
        BY <3>1, <3>3, <4>1 DEF Alone, Engaged, JobOf
      <4>3. \A s \in 0..MaxRetries : queue'[<<j, s>>] = 0
        <5> SUFFICES ASSUME NEW s \in 0..MaxRetries PROVE queue'[<<j, s>>] = 0
          OBVIOUS
        <5>1. CASE s = r
          BY <2>e, <3>2, <4>1, <5>1 DEF Alone
        <5>2. CASE s # r
          <6>1. queue'[<<j, s>>] = queue[<<j, s>>]
            BY <3>2, <5>2 DEF Messages
          <6>2. ~(queue[<<j, s>>] > 0)
            BY <3>2, <4>1, <5>2 DEF Alone
          <6> QED
            BY <2>e, <6>1, <6>2
        <5> QED
          BY <5>1, <5>2
      <4>4. ~Waits(j)'
        <5> SUFFICES ASSUME NEW s \in 0..MaxRetries, queue'[<<j, s>>] > 0
                     PROVE FALSE
          BY DEF Waits
        <5> QED
          BY <4>3
      <4>5. r = 0 => row[j].status = "queued"
        BY <3>2, <4>1 DEF Alone
      <4>6. \A v \in Slots : stage'[v] = "started" /\ holds'[v] = <<j, 0>> =>
              row'[j].status = "queued"
        BY <3>1, <4>2, <4>5 DEF Engaged, JobOf, AtWork
      <4> QED
        BY <2>c, <4>2, <4>3, <4>4, <4>6 DEF Alone
    <3>8. \A k \in Jobs \ {j} : Untouched(k)
      BY <3>1, <3>2 DEF Untouched, About, JobOf, Messages
    <3> QED
      BY <2>a, <3>1, <3>6, <3>7, <3>8
  <2>6. ASSUME NEW w \in Slots, MarkRunning(w) PROVE Agree'
    <3> PICK j \in Jobs : j = JobOf(w)
      BY <2>6, <2>f DEF MarkRunning
    <3>1. /\ stage[w] = "started" /\ j \in Jobs
          /\ row[j].status # "absent" /\ request[j] \in {"accepted", "errored"}
          /\ UNCHANGED <<request, queue, holds, crashes, repeats, abandoned>>
      BY <2>6, <2>f DEF MarkRunning
    <3>2. PICK o \in WorkerOutcomes :
            /\ Write(j, [row[j] EXCEPT !.status = "running"], o)
            /\ stage'[w] = IF o = "ok" THEN "running" ELSE "failing"
            /\ \A v \in Slots \ {w} : stage'[v] = stage[v]
      BY <2>6 DEF MarkRunning, GoTo, Raise, TypeOK
    <3>3. /\ row'[j].status = IF o = "lost" THEN row[j].status ELSE "running"
          /\ \A k \in Jobs \ {j} : row'[k] = row[k]
      BY <2>g, <3>1, <3>2, WriteStatus DEF TypeOK
    <3>4. JobInv(j)'
      <4>1. Attended(j)'
        BY <3>1, <3>2 DEF Attended, AtWork, JobOf
      <4>2. \A v \in Slots \ {w} : About(v, j)' <=> About(v, j)
        BY <3>1, <3>2 DEF About, JobOf
      <4> QED
        BY <3>1, <3>2, <3>3, <4>1, <4>2 DEF JobInv
    <3>5. LoneInv(j)'
      BY <3>1, <3>2, StaysAlone DEF Engaged, AtWork
    <3>6. \A k \in Jobs \ {j} : Untouched(k)
      BY <3>1, <3>2, <3>3, OtherJobs
    <3> QED
      BY <2>a, <3>1, <3>4, <3>5, <3>6
  <2>7. ASSUME NEW w \in Slots, RunPipeline(w) PROVE Agree'
    <3> PICK j \in Jobs : j = JobOf(w)
      BY <2>7, <2>f DEF RunPipeline
    <3>1. /\ stage[w] = "running" /\ j \in Jobs /\ About(w, j)
          /\ row[j].status # "absent" /\ request[j] \in {"accepted", "errored"}
          /\ stage'[w] \in {"completing", "failing"}
          /\ \A v \in Slots \ {w} : stage'[v] = stage[v]
          /\ UNCHANGED <<row, request, queue, holds, crashes, repeats, abandoned>>
      BY <2>7, <2>f DEF RunPipeline, GoTo, Raise, TypeOK
    <3>2. JobInv(j)'
      <4>1. Attended(j)'
        BY <3>1 DEF Attended, AtWork, JobOf
      <4>2. \A v \in Slots \ {w} : About(v, j)' <=> About(v, j)
        BY <3>1 DEF About, JobOf
      <4> QED
        BY <3>1, <4>1, <4>2 DEF JobInv
    <3>3. LoneInv(j)'
      BY <3>1, StaysAlone DEF Engaged, AtWork
    <3>4. \A k \in Jobs \ {j} : Untouched(k)
      BY <3>1, OtherJobs
    <3> QED
      BY <2>a, <3>1, <3>2, <3>3, <3>4
  <2>8. ASSUME NEW w \in Slots, CompleteJob(w) PROVE Agree'
    <3> PICK j \in Jobs : j = JobOf(w)
      BY <2>8, <2>f DEF CompleteJob
    <3>1. /\ stage[w] = "completing" /\ j \in Jobs
          /\ row[j].status # "absent" /\ request[j] \in {"accepted", "errored"}
          /\ UNCHANGED <<request, queue, holds, crashes, repeats, abandoned>>
      BY <2>8, <2>f DEF CompleteJob
    <3>2. PICK o \in WorkerOutcomes :
            /\ Write(j, [status |-> "completed", report |-> TRUE], o)
            /\ stage'[w] = IF o = "ok" THEN "finished" ELSE "failing"
            /\ \A v \in Slots \ {w} : stage'[v] = stage[v]
      BY <2>8 DEF CompleteJob, GoTo, Raise, TypeOK
    <3>3. /\ row'[j].status = IF o = "lost" THEN row[j].status ELSE "completed"
          /\ \A k \in Jobs \ {j} : row'[k] = row[k]
      BY <3>1, <3>2, WriteReport DEF TypeOK
    <3>4. JobInv(j)'
      <4>1. Attended(j)' \/ ~Open(j)'
        BY <3>1, <3>2, <3>3 DEF Attended, AtWork, JobOf, Open
      <4>2. \A v \in Slots \ {w} : About(v, j)' <=> About(v, j)
        BY <3>1, <3>2 DEF About, JobOf
      <4> QED
        BY <3>1, <3>2, <3>3, <4>1, <4>2 DEF JobInv
    <3>5. LoneInv(j)'
      BY <3>1, <3>2, StaysAlone DEF Engaged, AtWork
    <3>6. \A k \in Jobs \ {j} : Untouched(k)
      BY <3>1, <3>2, <3>3, OtherJobs
    <3> QED
      BY <2>a, <3>1, <3>4, <3>5, <3>6
  <2>9. ASSUME NEW w \in Slots, FailJob(w) PROVE Agree'
    <3> PICK j \in Jobs : j = JobOf(w)
      BY <2>9, <2>f DEF FailJob
    <3>1. /\ stage[w] = "failing" /\ j \in Jobs
          /\ row[j].status # "absent" /\ request[j] \in {"accepted", "errored"}
          /\ UNCHANGED <<request, queue, holds, crashes, repeats>>
      BY <2>9, <2>f DEF FailJob
    <3>2. PICK o \in WorkerOutcomes :
            /\ Write(j, [row[j] EXCEPT !.status = "failed"], o)
            /\ stage'[w] \in {"retrying", "finished"}
            /\ \A v \in Slots \ {w} : stage'[v] = stage[v]
            /\ abandoned' = abandoned \cup
                              IF o = "lost" THEN OpenAmong({j}) ELSE {}
      BY <2>9 DEF FailJob, GoTo, TypeOK
    <3>3. /\ row'[j].status = IF o = "lost" THEN row[j].status ELSE "failed"
          /\ \A k \in Jobs \ {j} : row'[k] = row[k]
      BY <2>g, <3>1, <3>2, WriteStatus DEF TypeOK
    <3>4. JobInv(j)'
      <4>1. Open(j)' => j \in abandoned'
        BY <3>2, <3>3 DEF Open, OpenAmong
      <4>2. \A v \in Slots \ {w} : About(v, j)' <=> About(v, j)
        BY <3>1, <3>2 DEF About, JobOf
      <4> QED
        BY <3>1, <3>2, <3>3, <4>1, <4>2 DEF JobInv
    <3>5. LoneInv(j)'
      BY <3>1, <3>2, StaysAlone DEF Engaged, AtWork
    <3>6. \A k \in Jobs \ {j} : Untouched(k)
      BY <3>1, <3>2, <3>3, OtherJobs
    <3> QED
      BY <2>a, <3>1, <3>2, <3>4, <3>5, <3>6
  <2>10. ASSUME NEW w \in Slots, Retry(w) PROVE Agree'
    <3> PICK j \in Jobs : j = JobOf(w)
      BY <2>10, <2>f DEF Retry
    <3> DEFINE r == RetriesOf(w)
    <3>1. /\ stage[w] = "retrying" /\ About(w, j) /\ r \in 0..MaxRetries
          /\ row[j].status # "absent" /\ request[j] \in {"accepted", "errored"}
          /\ stage'[w] = "finished"
          /\ \A v \in Slots \ {w} : stage'[v] = stage[v]
          /\ UNCHANGED <<row, request, holds, crashes, abandoned>>
      BY <2>10, <2>f DEF Retry, GoTo, TypeOK
    <3>2. \/ UNCHANGED <<queue, repeats>>
          \/ /\ r + 1 \in 0..MaxRetries
             /\ \E n \in Nat :
                  /\ queue'[<<j, r + 1>>] = queue[<<j, r + 1>>] + n
                  /\ n > 1 => repeats'[j] = repeats[j] + n - 1
                  /\ n \in {0, 1} => repeats' = repeats
             /\ \A m \in Messages \ {<<j, r + 1>>} : queue'[m] = queue[m]
             /\ \A k \in Jobs \ {j} : repeats'[k] = repeats[k]
      <4>1. CASE r < MaxRetries
        <5>1. r + 1 \in 0..MaxRetries
          BY <3>1, <4>1
        <5>2. PICK copies \in 0..(MaxRepeats + 1) : Enqueue(j, r + 1, copies)
          BY <2>10, <4>1 DEF Retry
        <5>3. copies \in Nat
          BY CopiesAreNumbers
        <5> QED
          BY <5>1, <5>2, <5>3, EnqueueAdds
      <4>2. CASE ~(r < MaxRetries)
        BY <2>10, <4>2 DEF Retry
      <4> QED
        BY <4>1, <4>2
    <3> HIDE DEF r
    <3>3. \A s \in 0..MaxRetries : queue'[<<j, s>>] >= queue[<<j, s>>]
      BY <2>e, <3>2 DEF Messages
    <3>4. Waits(j) => Waits(j)'
      <4> SUFFICES ASSUME NEW s \in 0..MaxRetries, queue[<<j, s>>] > 0
                   PROVE  Waits(j)'
        BY DEF Waits
      <4>1. queue'[<<j, s>>] \in Nat
        BY <2>e, <3>1, <3>2 DEF Messages
      <4>2. queue'[<<j, s>>] > 0
        BY <2>e, <3>3, <4>1
      <4> QED
        BY <4>2 DEF Waits
    <3>5. JobInv(j)'
      <4>1. Attended(j) => Attended(j)'
        BY <3>1, <3>4 DEF Attended, AtWork, JobOf
      <4>2. \A v \in Slots : About(v, j)' <=> About(v, j)
        BY <3>1 DEF About, JobOf
      <4> QED
        BY <3>1, <4>1, <4>2 DEF JobInv, Open
    <3>6. LoneInv(j)'
      <4> SUFFICES ASSUME crashes = 0, repeats'[j] = 0 PROVE Alone(j)'
        BY <3>1 DEF LoneInv
      <4>a. repeats[j] = 0 /\ repeats[j] \in Nat
        BY <3>2, RepeatsAssumption DEF TypeOK
      <4>1. Alone(j) /\ Engaged(w, j)
        BY <3>1, <4>a DEF LoneInv, Engaged, About
      <4>2. \A v \in Slots : ~Engaged(v, j)'
        BY <3>1, <4>1 DEF Alone, Engaged, JobOf, AtWork
      <4>3. \A s \in 0..MaxRetries : queue[<<j, s>>] = 0
        BY <2>e, <4>1 DEF Alone, Waits
      <4>4. \A s \in 0..MaxRetries :
              queue'[<<j, s>>] <= 1 /\ (queue'[<<j, s>>] > 0 => s = r + 1)
        BY <3>2, <4>3, <4>a DEF Messages
      <4>5. ~(queue'[<<j, 0>>] > 0)
        BY <2>c, <3>1, <4>4
      <4>6. \A v \in Slots : ~(stage'[v] = "started" /\ holds'[v] = <<j, 0>>)
        BY <4>2 DEF Engaged, JobOf, AtWork
      <4> QED
        BY <4>2, <4>4, <4>5, <4>6 DEF Alone
    <3>7. \A k \in Jobs \ {j}, s \in 0..MaxRetries :
            queue'[<<k, s>>] = queue[<<k, s>>]
      BY <3>2 DEF Messages
    <3>8. \A k \in Jobs \ {j} : Untouched(k)
      BY <3>1, <3>2, <3>7, OtherJobs
    <3> QED
      BY <2>a, <3>1, <3>5, <3>6, <3>8
  <2>11. ASSUME NEW w \in Slots, Acknowledge(w) PROVE Agree'
    <3> PICK j \in Jobs : j = JobOf(w)
      BY <2>11, <2>f DEF Acknowledge
    <3>1. /\ stage[w] = "finished" /\ About(w, j) /\ stage'[w] = "idle"
          /\ \A v \in Slots \ {w} : stage'[v] = stage[v] /\ holds'[v] = holds[v]
          /\ UNCHANGED <<row, request, queue, crashes, repeats, abandoned>>
      BY <2>11, <2>f DEF Acknowledge, Release, GoTo, TypeOK
    <3>2. Leaves(w, j)
      BY <3>1 DEF Leaves
    <3>3. Attended(j) => Attended(j)'
      BY <3>1 DEF Attended, Waits, AtWork, JobOf
    <3>4. JobInv(j)' /\ LoneInv(j)'
      BY <3>1, <3>2, <3>3, SlotFreed DEF Open
    <3>5. \A k \in Jobs \ {j} : Untouched(k)
      BY <3>1, OtherJobs
    <3> QED
      BY <2>a, <3>1, <3>4, <3>5
  <2>12. ASSUME NEW w \in Slots, KillProcess(w) PROVE Agree'
    <3> PICK j \in Jobs : j = JobOf(w)
      BY <2>12, <2>f DEF KillProcess
    <3>1. /\ stage[w] # "idle" /\ About(w, j) /\ stage'[w] = "idle"
          /\ \A v \in Slots \ {w} : stage'[v] = stage[v] /\ holds'[v] = holds[v]
          /\ UNCHANGED <<row, request, queue, crashes, repeats>>
          /\ abandoned' = abandoned \cup OpenAmong({j})
      BY <2>12, <2>f DEF KillProcess, Release, GoTo, TypeOK
    <3>2. Leaves(w, j)
      BY <3>1 DEF Leaves
    <3>3. Open(j)' => j \in abandoned'
      BY <3>1 DEF Open, OpenAmong
    <3>4. JobInv(j)' /\ LoneInv(j)'
      BY <3>1, <3>2, <3>3, SlotFreed
    <3>5. \A k \in Jobs \ {j} : Untouched(k)
      BY <3>1, OtherJobs
    <3> QED
      BY <2>a, <3>1, <3>4, <3>5
  <2>13. ASSUME CrashWorker PROVE Agree'
    <3> SUFFICES ASSUME NEW j \in Jobs PROVE JobInv(j)' /\ LoneInv(j)'
      OBVIOUS
    <3> DEFINE Held(m) == {w \in unacked : holds[w] = m}
    <3>1. /\ \A m \in Messages : queue'[m] = queue[m] + Cardinality(Held(m))
          /\ \A w \in Slots : stage'[w] = "idle"
          /\ crashes' = crashes + 1 /\ UNCHANGED <<row, request>>
          /\ abandoned \subseteq abandoned'
      BY <2>13 DEF CrashWorker
    <3>2. \A m \in Messages :
            /\ Cardinality(Held(m)) \in Nat
            /\ Cardinality(Held(m)) = 0 <=> Held(m) = {}
      <4> TAKE m \in Messages
      <4>1. IsFiniteSet(Held(m))
        BY SlotsAssumption, FS_Subset DEF TypeOK
      <4> QED
        BY <4>1, FS_CardinalityType, FS_EmptySet
    <3> HIDE DEF Held
    <3>3. Waits(j)' <=> Waits(j) \/ \E w \in unacked : About(w, j)
      <4>1. ASSUME NEW r \in 0..MaxRetries
            PROVE  queue'[<<j, r>>] > 0 <=>
                     queue[<<j, r>>] > 0 \/ Held(<<j, r>>) # {}
        <5>1. <<j, r>> \in Messages
          BY DEF Messages
        <5> QED
          BY <2>e, <3>1, <3>2, <5>1
      <4>2. ASSUME NEW r \in 0..MaxRetries, NEW w \in Held(<<j, r>>)
            PROVE  w \in unacked /\ About(w, j)
        <5>1. w \in unacked /\ w \in Slots /\ holds[w] = <<j, r>>
          BY <4>2 DEF Held, TypeOK
        <5>2. <<j, r>> # Nothing
          BY MessagesAreSomething DEF Messages
        <5> QED
          BY <5>1, <5>2 DEF About, JobOf, TypeOK
      <4>3. ASSUME NEW w \in unacked, About(w, j)
            PROVE  \E r \in 0..MaxRetries : w \in Held(<<j, r>>)
        <5>1. w \in Slots
          BY DEF TypeOK
        <5> QED
          BY <2>f, <4>3, <5>1 DEF Held, About
      <4> QED
        BY <4>1, <4>2, <4>3 DEF Waits
    <3>4. \A w \in Slots : ~About(w, j)'
      BY <3>1 DEF About
    <3>5. Attended(j) /\ Open(j) => Attended(j)' \/ j \in abandoned'
      <4>1. CASE \E w \in Slots \ unacked : stage[w] # "idle" /\ JobOf(w) = j
        BY <2>13, <4>1 DEF CrashWorker, OpenAmong
      <4>2. CASE ~\E w \in Slots \ unacked : stage[w] # "idle" /\ JobOf(w) = j
        BY <3>3, <4>2 DEF Attended, About, AtWork
      <4> QED
        BY <4>1, <4>2
    <3>6. JobInv(j)'
      <4>1. Waits(j)' => Waits(j) \/ \E w \in Slots : About(w, j)
        BY <3>3 DEF TypeOK
      <4> QED
        BY <3>1, <4>1, <3>4, <3>5 DEF JobInv, Open
    <3>7. LoneInv(j)'
      BY <3>1 DEF LoneInv, TypeOK
    <3> QED
      BY <3>6, <3>7
  <2>14. ASSUME EvictQueue PROVE Agree'
    <3> SUFFICES ASSUME NEW j \in Jobs PROVE JobInv(j)' /\ LoneInv(j)'
      OBVIOUS
    <3>1. /\ \A r \in 0..MaxRetries : queue'[<<j, r>>] = 0
          /\ Waits(j) /\ Open(j) => j \in abandoned'
          /\ abandoned \subseteq abandoned'
          /\ UNCHANGED <<row, request, stage, holds, crashes, repeats>>
      BY <2>14 DEF EvictQueue, OpenAmong, Waits, Messages
    <3>2. ~Waits(j)'
      <4> SUFFICES ASSUME NEW r \in 0..MaxRetries, queue'[<<j, r>>] > 0
                   PROVE  FALSE
        BY DEF Waits
      <4> QED
        BY <3>1
    <3>3. \A w \in Slots : About(w, j)' <=> About(w, j)
      BY <3>1 DEF About, JobOf
    <3>4. Attended(j) => Waits(j) \/ Attended(j)'
      BY <3>1 DEF Attended, JobOf
    <3>5. JobInv(j)'
      BY <3>1, <3>2, <3>3, <3>4 DEF JobInv, Open
    <3>6. LoneInv(j)'
      BY <2>c, <3>1, <3>2 DEF LoneInv, Alone, Engaged, JobOf
    <3> QED
      BY <3>5, <3>6
  <2>16. ASSUME EvictUnacked PROVE Agree'
    <3>1. \A k \in Jobs : Untouched(k)
      BY <2>16 DEF EvictUnacked, Untouched
    <3> QED
      BY <2>16, <3>1, Undisturbed DEF EvictUnacked
  <2>15. ASSUME UNCHANGED vars PROVE Agree'
    <3>1. \A k \in Jobs : Untouched(k)
      BY <2>15 DEF vars, Untouched
    <3> QED
      BY <2>15, <3>1, Undisturbed DEF vars
  <2> QED
    BY <2>1, <2>2, <2>3, <2>4, <2>5, <2>6, <2>7, <2>8, <2>9, <2>10, <2>11,
       <2>12, <2>13, <2>14, <2>15, <2>16 DEF Next, Handler, TaskStep, Take
<1> QED
  BY <1>1, <1>2, TypeCorrect, PTL DEF Spec

-----------------------------------------------------------------------------
(* An open job that a client was told about is in the broker or in a slot, *)
(* unless its message or its last write was lost.                          *)
THEOREM NoJobIsLeftOpen == Spec => []OpenJobsAreAttended
<1>1. (\A k \in Jobs : JobInv(k) /\ LoneInv(k)) => OpenJobsAreAttended
  BY DEF JobInv, OpenJobsAreAttended
<1> QED
  BY <1>1, JobInvariant, PTL

(* Without a lost worker, a job of which no publication left a copy too    *)
(* many is never run twice at once, whatever the number of slots and of    *)
(* retries.                                                                *)
THEOREM NoJobRunsTwice == Spec => []OneRunAtATime
<1>1. (\A k \in Jobs : JobInv(k) /\ LoneInv(k)) => OneRunAtATime
  BY DEF LoneInv, Alone, OneRunAtATime
<1> QED
  BY <1>1, JobInvariant, PTL

-----------------------------------------------------------------------------
(* Counting *)

(* The pairs that Units consists of.                                       *)
LEMMA UnitsMember ==
  ASSUME NEW S, NEW f, NEW p
  PROVE  p \in Units(S, f) <=> \E x \in S : \E k \in 1..f[x] : p = <<x, k>>
<1>1. ASSUME NEW x \in S
      PROVE  p \in {x} \X (1..f[x]) <=> \E k \in 1..f[x] : p = <<x, k>>
  OBVIOUS
<1> QED
  BY <1>1 DEF Units

(* Only the values of f on S count.                                        *)
LEMMA UnitsSame ==
  ASSUME NEW S, NEW f, NEW g, \A x \in S : f[x] = g[x]
  PROVE  Units(S, f) = Units(S, g)
<1>1. ASSUME NEW p PROVE p \in Units(S, f) <=> p \in Units(S, g)
  BY UnitsMember
<1> QED
  BY <1>1

(* Each block of pairs has as many as f says.                              *)
LEMMA UnitsBlock ==
  ASSUME NEW x, NEW n \in Nat
  PROVE  IsFiniteSet({x} \X (1..n)) /\ Cardinality({x} \X (1..n)) = n
<1>1. IsFiniteSet(1..n) /\ Cardinality(1..n) = n
  BY FS_Interval
<1>2. IsFiniteSet({x}) /\ Cardinality({x}) = 1
  BY FS_Singleton
<1>3. 1 * n = n
  OBVIOUS
<1> QED
  BY <1>1, <1>2, <1>3, FS_Product

(* Finitely many elements have finitely many units.                        *)
LEMMA UnitsFinite ==
  ASSUME NEW S, IsFiniteSet(S), NEW f, \A x \in S : f[x] \in Nat
  PROVE  IsFiniteSet(Units(S, f)) /\ Cardinality(Units(S, f)) \in Nat
<1> DEFINE B == {{x} \X (1..f[x]) : x \in S}
           h == [x \in S |-> {x} \X (1..f[x])]
<1>1. h \in Surjection(S, B)
  BY DEF Surjection
<1>2. IsFiniteSet(B)
  <2> HIDE DEF B, h
  <2> QED
    BY <1>1, FS_Surjection
<1>3. ASSUME NEW T \in B PROVE IsFiniteSet(T)
  <2>1. PICK x \in S : T = {x} \X (1..f[x])
    OBVIOUS
  <2>2. IsFiniteSet({x} \X (1..f[x]))
    BY UnitsBlock
  <2> QED
    BY <2>1, <2>2
<1>4. IsFiniteSet(UNION B)
  <2> HIDE DEF B
  <2> QED
    BY <1>2, <1>3, FS_UNION
<1>5. IsFiniteSet(Units(S, f))
  BY <1>4 DEF Units
<1> QED
  BY <1>5, FS_CardinalityType

(* Of two sets without a common element the cardinalities add up.          *)
LEMMA DisjointUnion ==
  ASSUME NEW A, IsFiniteSet(A), NEW B, IsFiniteSet(B), A \cap B = {}
  PROVE  Cardinality(A \cup B) = Cardinality(A) + Cardinality(B)
<1>1. Cardinality(A) \in Nat /\ Cardinality(B) \in Nat
  BY FS_CardinalityType
<1>2. Cardinality({}) = 0
  BY FS_EmptySet
<1>3. Cardinality(A \cup B) = Cardinality(A) + Cardinality(B) - Cardinality({})
  BY FS_Union
<1> QED
  BY <1>1, <1>2, <1>3

(* One more element adds its own units, and no others.                     *)
LEMMA UnitsAdd ==
  ASSUME NEW S, IsFiniteSet(S), NEW x, x \notin S,
         NEW f, \A y \in S \cup {x} : f[y] \in Nat
  PROVE  Cardinality(Units(S \cup {x}, f)) = Cardinality(Units(S, f)) + f[x]
<1> DEFINE A == Units(S, f)
           B == {x} \X (1..f[x])
<1>1. IsFiniteSet(A) /\ Cardinality(A) \in Nat
  BY UnitsFinite
<1>2. IsFiniteSet(B) /\ Cardinality(B) = f[x] /\ f[x] \in Nat
  BY UnitsBlock
<1>3. Units(S \cup {x}, f) = A \cup B
  BY DEF Units
<1>4. A \cap B = {}
  <2> SUFFICES ASSUME NEW p \in A, p \in B PROVE FALSE
    OBVIOUS
  <2>1. PICK y \in S : \E k \in 1..f[y] : p = <<y, k>>
    BY UnitsMember
  <2>2. p[1] = x /\ p[1] = y
    BY <2>1
  <2> QED
    BY <2>2
<1> HIDE DEF B
<1>5. Cardinality(A \cup B) = Cardinality(A) + Cardinality(B)
  BY <1>1, <1>2, <1>4, DisjointUnion
<1> QED
  BY <1>2, <1>3, <1>5

(* A change at one element shows in the number of units.                   *)
LEMMA UnitsChange ==
  ASSUME NEW S, IsFiniteSet(S), NEW x \in S, NEW f, NEW g,
         \A y \in S : f[y] \in Nat /\ g[y] \in Nat,
         \A y \in S \ {x} : g[y] = f[y]
  PROVE  Cardinality(Units(S, g)) + f[x] = Cardinality(Units(S, f)) + g[x]
<1> DEFINE R == S \ {x}
<1>1. IsFiniteSet(R) /\ x \notin R /\ S = R \cup {x}
  BY FS_RemoveElement
<1>2. Units(R, f) = Units(R, g)
  BY UnitsSame
<1>3. Cardinality(Units(R, f)) \in Nat
  BY <1>1, UnitsFinite
<1> HIDE DEF R
<1>4. /\ Cardinality(Units(S, f)) = Cardinality(Units(R, f)) + f[x]
      /\ Cardinality(Units(S, g)) = Cardinality(Units(R, g)) + g[x]
  BY <1>1, UnitsAdd
<1>5. f[x] \in Nat /\ g[x] \in Nat
  OBVIOUS
<1> QED
  BY <1>2, <1>3, <1>4, <1>5

(* Nothing counts for nothing.                                             *)
LEMMA UnitsNone ==
  ASSUME NEW S, NEW f, \A x \in S : f[x] = 0
  PROVE  Cardinality(Units(S, f)) = 0
<1>1. Units(S, f) = {}
  <2> SUFFICES ASSUME NEW p \in Units(S, f) PROVE FALSE
    OBVIOUS
  <2>1. PICK x \in S : \E k \in 1..f[x] : p = <<x, k>>
    BY UnitsMember
  <2> QED
    BY <2>1
<1> QED
  BY <1>1, FS_EmptySet

(* Two sets of elements have at most the units of both.                    *)
LEMMA UnitsUnion ==
  ASSUME NEW S, IsFiniteSet(S), NEW T, IsFiniteSet(T),
         NEW f, \A x \in S \cup T : f[x] \in Nat
  PROVE  Cardinality(Units(S \cup T, f))
           <= Cardinality(Units(S, f)) + Cardinality(Units(T, f))
<1>1. /\ IsFiniteSet(Units(S, f)) /\ Cardinality(Units(S, f)) \in Nat
      /\ IsFiniteSet(Units(T, f)) /\ Cardinality(Units(T, f)) \in Nat
  BY UnitsFinite
<1>2. Units(S \cup T, f) = Units(S, f) \cup Units(T, f)
  BY DEF Units
<1>3. IsFiniteSet(Units(S, f) \cap Units(T, f))
  BY <1>1, FS_Intersection
<1>4. Cardinality(Units(S, f) \cap Units(T, f)) \in Nat
  BY <1>3, FS_CardinalityType
<1> HIDE DEF Units
<1>5. Cardinality(Units(S, f) \cup Units(T, f)) =
        Cardinality(Units(S, f)) + Cardinality(Units(T, f))
          - Cardinality(Units(S, f) \cap Units(T, f))
  BY <1>1, FS_Union
<1>6. \A a, b, c \in Nat : a + b - c <= a + b
  OBVIOUS
<1> QED
  BY <1>1, <1>2, <1>4, <1>5, <1>6

(* No more units than the largest count for each element.                  *)
LEMMA UnitsBound ==
  ASSUME NEW S, IsFiniteSet(S), NEW n \in Nat, NEW f, \A x \in S : f[x] \in 0..n
  PROVE  Cardinality(Units(S, f)) <= Cardinality(S) * n
<1>1. IsFiniteSet(1..n) /\ Cardinality(1..n) = n
  BY FS_Interval
<1>2. IsFiniteSet(S \X (1..n)) /\ Cardinality(S \X (1..n)) = Cardinality(S) * n
  BY <1>1, FS_Product
<1>3. Units(S, f) \subseteq S \X (1..n)
  <2> SUFFICES ASSUME NEW p \in Units(S, f) PROVE p \in S \X (1..n)
    OBVIOUS
  <2>1. PICK x \in S : \E k \in 1..f[x] : p = <<x, k>>
    BY UnitsMember
  <2> QED
    BY <2>1
<1> QED
  BY <1>2, <1>3, FS_Subset
-----------------------------------------------------------------------------
(* The copies of a job *)

(* A copy is known by how often it was retried and a number.               *)
LEMMA CopiesMember ==
  ASSUME NEW q \in [Attempts -> Nat], NEW c
  PROVE  c \in Units(Attempts, q) <=>
           \E r \in Attempts : \E i \in 1..q[r] : c = <<r, i>>
BY UnitsMember

(* There are finitely many, and each is good for a bounded number of       *)
(* starts, the fewer the more often it was retried.                        *)
LEMMA CopiesOf ==
  ASSUME NEW q \in [Attempts -> Nat]
  PROVE  /\ IsFiniteSet(Units(Attempts, q))
         /\ \A c \in Units(Attempts, q) :
              Tries[c] \in 0..(MaxRetries + 1)
         /\ \A r \in Attempts, i \in Nat :
              Tries[<<r, i>>] = MaxRetries + 1 - r
<1> USE RetriesAssumption
<1>1. IsFiniteSet(Attempts)
  BY FS_Interval DEF Attempts
<1>2. \A r \in Attempts, i \in Nat : Tries[<<r, i>>] = MaxRetries + 1 - r
  BY DEF Tries
<1>3. ASSUME NEW c \in Units(Attempts, q)
      PROVE  Tries[c] \in 0..(MaxRetries + 1)
  <2>1. PICK r \in Attempts : \E i \in 1..q[r] : c = <<r, i>>
    BY CopiesMember
  <2>2. PICK i \in Nat : c = <<r, i>>
    BY <2>1
  <2>3. Tries[c] = MaxRetries + 1 - r
    BY <1>2, <2>2
  <2> QED
    BY <2>3 DEF Attempts
<1>4. IsFiniteSet(Units(Attempts, q))
  BY <1>1, UnitsFinite
<1> QED
  BY <1>2, <1>3, <1>4

(* What the copies of a job are good for is a number.                      *)
LEMMA TriesType ==
  ASSUME NEW q \in [Attempts -> Nat]
  PROVE  Cardinality(Units(Units(Attempts, q), Tries)) \in Nat
<1>1. \A c \in Units(Attempts, q) : Tries[c] \in Nat
  BY CopiesOf
<1> QED
  BY <1>1, CopiesOf, UnitsFinite

(* One more copy is good for the starts its retries leave it.              *)
LEMMA OneMoreCopy ==
  ASSUME NEW q \in [Attempts -> Nat], NEW p \in [Attempts -> Nat],
         NEW r \in Attempts, p[r] = q[r] + 1,
         \A s \in Attempts \ {r} : p[s] = q[s]
  PROVE  Cardinality(Units(Units(Attempts, p), Tries)) =
           Cardinality(Units(Units(Attempts, q), Tries))
             + (MaxRetries + 1 - r)
<1> DEFINE Q == Units(Attempts, q)
           P == Units(Attempts, p)
           new == <<r, q[r] + 1>>
<1>1. P = Q \cup {new}
  <2>1. ASSUME NEW c \in P PROVE c \in Q \cup {new}
    <3>1. PICK s \in Attempts : \E i \in 1..p[s] : c = <<s, i>>
      BY CopiesMember
    <3>2. PICK i \in 1..p[s] : c = <<s, i>>
      BY <3>1
    <3>3. CASE i \in 1..q[s]
      BY <3>2, <3>3, CopiesMember
    <3>4. CASE i \notin 1..q[s]
      <4>1. s = r /\ i = q[r] + 1
        BY <3>4
      <4> QED
        BY <3>2, <4>1
    <3> QED
      BY <3>3, <3>4
  <2>2. ASSUME NEW c \in Q PROVE c \in P
    <3>1. PICK s \in Attempts : \E i \in 1..q[s] : c = <<s, i>>
      BY CopiesMember
    <3>2. PICK i \in 1..q[s] : c = <<s, i>>
      BY <3>1
    <3>3. i \in 1..p[s]
      BY <3>2
    <3> QED
      BY <3>2, <3>3, CopiesMember
  <2>3. new \in P
    <3>1. q[r] + 1 \in 1..p[r]
      OBVIOUS
    <3> QED
      BY <3>1, CopiesMember
  <2> QED
    BY <2>1, <2>2, <2>3
<1>2. new \notin Q
  <2> SUFFICES ASSUME new \in Q PROVE FALSE
    OBVIOUS
  <2>1. PICK s \in Attempts : \E i \in 1..q[s] : new = <<s, i>>
    BY CopiesMember
  <2> QED
    BY <2>1
<1>3. IsFiniteSet(Q) /\ \A c \in Q : Tries[c] \in Nat
  BY CopiesOf
<1>4. Tries[new] = MaxRetries + 1 - r /\ Tries[new] \in Nat
  <2>1. q[r] + 1 \in Nat
    OBVIOUS
  <2>2. Tries[<<r, q[r] + 1>>] = MaxRetries + 1 - r
    BY <2>1, CopiesOf
  <2> QED
    BY <2>2, RetriesAssumption DEF Attempts
<1> HIDE DEF P, Q, new
<1>5. Cardinality(Units(Q \cup {new}, Tries))
        = Cardinality(Units(Q, Tries)) + Tries[new]
  BY <1>2, <1>3, <1>4, UnitsAdd
<1> QED
  BY <1>1, <1>4, <1>5 DEF P, Q

(* Copies that come, one for each element of a set, are good for at most   *)
(* what each element may cost.                                             *)
LEMMA CopiesFrom ==
  ASSUME NEW q \in [Attempts -> Nat], NEW p \in [Attempts -> Nat],
         NEW S, IsFiniteSet(S),
         NEW held, \A r \in Attempts : held[r] \subseteq S,
         \A r, s \in Attempts : r # s => held[r] \cap held[s] = {},
         \A r \in Attempts : p[r] = q[r] + Cardinality(held[r])
  PROVE  Cardinality(Units(Units(Attempts, p), Tries)) <=
           Cardinality(Units(Units(Attempts, q), Tries))
             + Cardinality(S) * (MaxRetries + 1)
<1> DEFINE Q == Units(Attempts, q)
           P == Units(Attempts, p)
           N == P \ Q
           many == [r \in Attempts |-> Cardinality(held[r])]
           nth == [r \in Attempts |->
                     CHOOSE b \in Bijection(1..many[r], held[r]) : TRUE]
           from == [c \in N |-> nth[c[1]][c[2] - q[c[1]]]]
<1>1. \A r \in Attempts :
        /\ many[r] \in Nat /\ p[r] = q[r] + many[r]
        /\ nth[r] \in Bijection(1..many[r], held[r])
  <2> TAKE r \in Attempts
  <2>1. IsFiniteSet(held[r])
    BY FS_Subset
  <2>2. Cardinality(held[r]) \in Nat
        /\ ExistsBijection(1..Cardinality(held[r]), held[r])
    BY <2>1, FS_CardinalityType
  <2> QED
    BY <2>2 DEF ExistsBijection
<1> HIDE DEF many, nth
<1>2. ASSUME NEW c \in N
      PROVE  /\ c[1] \in Attempts /\ c[2] \in Nat /\ c = <<c[1], c[2]>>
             /\ c[2] - q[c[1]] \in 1..many[c[1]]
  <2>1. PICK r \in Attempts : \E i \in 1..p[r] : c = <<r, i>>
    BY CopiesMember
  <2>2. PICK i \in 1..p[r] : c = <<r, i>>
    BY <2>1
  <2>3. i \notin 1..q[r]
    BY <2>2, CopiesMember
  <2>4. i - q[r] \in 1..many[r]
    BY <1>1, <2>3
  <2> QED
    BY <2>2, <2>4
<1>3. \A r \in Attempts :
        /\ \A i \in 1..many[r] : nth[r][i] \in held[r]
        /\ \A i, k \in 1..many[r] : nth[r][i] = nth[r][k] => i = k
  BY <1>1 DEF Bijection, Injection, IsInjective
<1>4. \A c \in N : from[c] \in held[c[1]] /\ from[c] \in S
  BY <1>2, <1>3
<1>5. ASSUME NEW c \in N, NEW d \in N, from[c] = from[d] PROVE c = d
  <2>1. c[1] = d[1]
    BY <1>2, <1>4, <1>5
  <2>2. c[2] - q[c[1]] = d[2] - q[d[1]]
    BY <1>2, <1>3, <1>5, <2>1
  <2>3. c[2] = d[2]
    <3>1. q[c[1]] \in Nat /\ c[2] \in Nat /\ d[2] \in Nat
      BY <1>2
    <3> QED
      BY <2>1, <2>2, <3>1
  <2> QED
    BY <1>2, <2>1, <2>3
<1>6. from \in Injection(N, S)
  <2>1. from \in [N -> S]
    BY <1>4
  <2> QED
    BY <1>5, <2>1 DEF Injection, IsInjective
<1>7. IsFiniteSet(N) /\ Cardinality(N) <= Cardinality(S)
  <2> HIDE DEF N, from
  <2> QED
    BY <1>6, FS_Injection
<1>8. /\ IsFiniteSet(Q) /\ IsFiniteSet(P)
      /\ \A c \in Q \cup P : Tries[c] \in 0..(MaxRetries + 1)
  BY CopiesOf
<1>9. Q \subseteq P
  <2> SUFFICES ASSUME NEW c \in Q PROVE c \in P
    OBVIOUS
  <2>1. PICK s \in Attempts : \E i \in 1..q[s] : c = <<s, i>>
    BY CopiesMember
  <2>2. PICK i \in 1..q[s] : c = <<s, i>>
    BY <2>1
  <2>3. i \in 1..p[s]
    BY <1>1, <2>2
  <2> QED
    BY <2>2, <2>3, CopiesMember
<1>10. P = Q \cup N
  BY <1>9
<1> HIDE DEF P, Q, N
<1>11. Cardinality(Units(P, Tries))
         <= Cardinality(Units(Q, Tries)) + Cardinality(Units(N, Tries))
  BY <1>7, <1>8, <1>10, UnitsUnion
<1>12. Cardinality(Units(N, Tries)) <= Cardinality(N) * (MaxRetries + 1)
  BY <1>7, <1>8, <1>10, RetriesAssumption, UnitsBound
<1>13. /\ Cardinality(S) \in Nat /\ Cardinality(N) \in Nat
       /\ Cardinality(Units(N, Tries)) \in Nat
       /\ Cardinality(Units(Q, Tries)) \in Nat
       /\ Cardinality(Units(P, Tries)) \in Nat
  BY <1>7, <1>8, <1>10, FS_CardinalityType, UnitsFinite
<1>14. Cardinality(N) * (MaxRetries + 1) <= Cardinality(S) * (MaxRetries + 1)
  <2>1. PICK d \in Nat : Cardinality(S) = Cardinality(N) + d
    <3>1. \A a, b \in Nat : a <= b => b - a \in Nat /\ b = a + (b - a)
      OBVIOUS
    <3> QED
      BY <1>7, <1>13, <3>1
  <2>2. \A a, b, m \in Nat : (a + b) * m = a * m + b * m /\ b * m \in Nat
                             /\ a * m \in Nat
    OBVIOUS
  <2>3. MaxRetries + 1 \in Nat
    BY RetriesAssumption
  <2>4. \A a, b \in Nat : a <= a + b
    OBVIOUS
  <2> QED
    BY <1>13, <2>1, <2>2, <2>3, <2>4
<1>15. Cardinality(Units(P, Tries)) <=
         Cardinality(Units(Q, Tries)) + Cardinality(S) * (MaxRetries + 1)
  <2>1. Cardinality(S) * (MaxRetries + 1) \in Nat
        /\ Cardinality(N) * (MaxRetries + 1) \in Nat
    BY <1>13, RetriesAssumption
  <2> QED
    BY <1>11, <1>12, <1>13, <1>14, <2>1
<1> QED
  BY <1>15 DEF P, Q

-----------------------------------------------------------------------------
(* What a job may cost *)

(* The number of waiting copies of a job, by how often they were retried.  *)
CopyCount(j) == [r \in Attempts |-> queue[<<j, r>>]]

(* What a slot owes is at most a task's starts.                            *)
LEMMA OwedIs ==
  ASSUME TypeOK, NEW j \in Jobs, NEW w \in Slots
  PROVE  /\ Owed(j)[w] \in 0..(MaxRetries + 1)
         /\ ~About(w, j) \/ stage[w] = "finished" => Owed(j)[w] = 0
         /\ About(w, j) /\ stage[w] = "started" =>
              Owed(j)[w] = MaxRetries + 1 - RetriesOf(w)
         /\ About(w, j) /\ stage[w] \notin {"started", "finished"} =>
              Owed(j)[w] = MaxRetries - RetriesOf(w)
<1>1. About(w, j) => RetriesOf(w) \in 0..MaxRetries
  BY BusyHolds DEF About
<1> QED
  BY <1>1, RetriesAssumption DEF Owed

(* What slots owe and copies are good for are numbers.                     *)
LEMMA WorkType ==
  ASSUME TypeOK, NEW j \in Jobs
  PROVE  /\ Underway(j) \in Nat /\ Waiting(j) \in Nat
         /\ CopyCount(j) \in [Attempts -> Nat]
<1>1. Underway(j) \in Nat
  <2>1. \A w \in Slots : Owed(j)[w] \in Nat
    BY OwedIs, RetriesAssumption
  <2> QED
    BY <2>1, SlotsAssumption, UnitsFinite DEF Underway
<1>2. CopyCount(j) \in [Attempts -> Nat]
  BY DEF CopyCount, TypeOK, Messages, Attempts
<1>3. Waiting(j) \in Nat
  BY <1>2, TriesType DEF Waiting, Copies, CopyCount
<1> QED
  BY <1>1, <1>2, <1>3

(* When one slot moves, what is underway changes by what it owes.          *)
LEMMA SlotMoves ==
  ASSUME TypeOK, NEW j \in Jobs, NEW w \in Slots, NEW n \in Nat,
         \A v \in Slots \ {w} : stage'[v] = stage[v] /\ holds'[v] = holds[v],
         Owed(j)'[w] = n
  PROVE  /\ Underway(j)' + Owed(j)[w] = Underway(j) + n
         /\ Underway(j)' \in Nat
<1>1. \A v \in Slots : Owed(j)[v] \in Nat
  BY OwedIs, RetriesAssumption
<1>2. \A v \in Slots \ {w} : Owed(j)'[v] = Owed(j)[v]
  BY DEF Owed, About, JobOf, RetriesOf
<1>3. \A v \in Slots : Owed(j)[v] \in Nat /\ Owed(j)'[v] \in Nat
  BY <1>1, <1>2
<1> HIDE DEF Owed
<1>4. Cardinality(Units(Slots, Owed(j)')) + Owed(j)[w]
        = Cardinality(Units(Slots, Owed(j))) + Owed(j)'[w]
  BY <1>2, <1>3, SlotsAssumption, UnitsChange
<1>5. Cardinality(Units(Slots, Owed(j)')) \in Nat
  BY <1>3, SlotsAssumption, UnitsFinite
<1> QED
  BY <1>4, <1>5 DEF Underway

(* A copy that comes or goes changes what waits by what it is good for.    *)
LEMMA CopyComes ==
  ASSUME TypeOK, NEW j \in Jobs, NEW r \in Attempts,
         \A s \in Attempts \ {r} : queue'[<<j, s>>] = queue[<<j, s>>]
  PROVE  /\ queue'[<<j, r>>] = queue[<<j, r>>] + 1 =>
              /\ Waiting(j)' = Waiting(j) + (MaxRetries + 1 - r)
              /\ Waiting(j)' \in Nat
         /\ queue[<<j, r>>] > 0 /\ queue'[<<j, r>>] = queue[<<j, r>>] - 1 =>
              /\ Waiting(j) = Waiting(j)' + (MaxRetries + 1 - r)
              /\ Waiting(j)' \in Nat
<1> DEFINE q == CopyCount(j)
           p == [s \in Attempts |-> queue'[<<j, s>>]]
<1>1. q \in [Attempts -> Nat]
  BY WorkType
<1>2. \A s \in Attempts : q[s] = queue[<<j, s>>] /\ p[s] = queue'[<<j, s>>]
  BY DEF CopyCount
<1>3. /\ Waiting(j) = Cardinality(Units(Units(Attempts, q), Tries))
      /\ Waiting(j)' = Cardinality(Units(Units(Attempts, p), Tries))
  BY DEF Waiting, Copies, CopyCount
<1>4. ASSUME queue'[<<j, r>>] = queue[<<j, r>>] + 1
      PROVE  /\ Waiting(j)' = Waiting(j) + (MaxRetries + 1 - r)
             /\ Waiting(j)' \in Nat
  <2>1. p[r] = q[r] + 1 /\ \A s \in Attempts \ {r} : p[s] = q[s]
    BY <1>2, <1>4
  <2>2. p \in [Attempts -> Nat]
    BY <1>1, <2>1
  <2> HIDE DEF p, q
  <2> QED
    BY <1>1, <1>3, <2>1, <2>2, OneMoreCopy, TriesType
<1>5. ASSUME queue[<<j, r>>] > 0, queue'[<<j, r>>] = queue[<<j, r>>] - 1
      PROVE  /\ Waiting(j) = Waiting(j)' + (MaxRetries + 1 - r)
             /\ Waiting(j)' \in Nat
  <2>1. q[r] \in Nat /\ q[r] > 0 /\ p[r] = q[r] - 1
    BY <1>1, <1>2, <1>5
  <2>2. q[r] = p[r] + 1 /\ p[r] \in Nat
    BY <2>1
  <2>3. \A s \in Attempts \ {r} : q[s] = p[s]
    BY <1>2
  <2>4. p \in [Attempts -> Nat]
    BY <1>1, <2>2, <2>3
  <2> HIDE DEF p, q
  <2> QED
    BY <1>1, <1>3, <2>2, <2>3, <2>4, OneMoreCopy, TriesType
<1> QED
  BY <1>4, <1>5

(* A publication adds what its first copy is good for, and at most a       *)
(* submission for each copy too many.                                      *)
LEMMA CopiesCome ==
  ASSUME TypeOK, NEW j \in Jobs, NEW r \in Attempts, NEW n \in Nat,
         queue'[<<j, r>>] = queue[<<j, r>>] + n,
         \A s \in Attempts \ {r} : queue'[<<j, s>>] = queue[<<j, s>>]
  PROVE  /\ Waiting(j)' \in Nat
         /\ Waiting(j)' <= Waiting(j) + (MaxRetries + 1 - r)
                              + Beyond(n) * (MaxRetries + 1)
<1> DEFINE q == CopyCount(j)
           p == [s \in Attempts |-> queue'[<<j, s>>]]
           one == [q EXCEPT ![r] = @ + 1]
           rest == 1..Beyond(n)
           held == [s \in Attempts |-> IF s = r THEN rest ELSE {}]
<1>1. q \in [Attempts -> Nat] /\ Waiting(j) \in Nat
  BY WorkType
<1>2. \A s \in Attempts : q[s] = queue[<<j, s>>] /\ p[s] = queue'[<<j, s>>]
  BY DEF CopyCount
<1>3. /\ Waiting(j) = Cardinality(Units(Units(Attempts, q), Tries))
      /\ Waiting(j)' = Cardinality(Units(Units(Attempts, p), Tries))
  BY DEF Waiting, Copies, CopyCount
<1>4. p[r] = q[r] + n /\ \A s \in Attempts \ {r} : p[s] = q[s]
  BY <1>2
<1>5. p \in [Attempts -> Nat]
  BY <1>1, <1>4
<1>6. Waiting(j)' \in Nat
  <2> HIDE DEF p
  <2> QED
    BY <1>3, <1>5, TriesType
<1>7. /\ Beyond(n) \in Nat /\ MaxRetries + 1 \in Nat /\ MaxRetries + 1 - r \in Nat
      /\ Beyond(n) * (MaxRetries + 1) \in Nat
  <2>1. Beyond(n) \in Nat /\ MaxRetries + 1 \in Nat /\ MaxRetries + 1 - r \in Nat
    BY RetriesAssumption DEF Beyond, Attempts
  <2>2. \A a, b \in Nat : a * b \in Nat
    OBVIOUS
  <2> QED
    BY <2>1, <2>2
<1>8. CASE n = 0
  <2>1. p = q
    BY <1>1, <1>4, <1>5, <1>8
  <2> HIDE DEF p, q
  <2> QED
    BY <1>1, <1>3, <1>6, <1>7, <2>1
<1>9. CASE n # 0
  <2>1. /\ one \in [Attempts -> Nat] /\ one[r] = q[r] + 1
        /\ \A s \in Attempts \ {r} : one[s] = q[s]
    BY <1>1
  <2>2. n = Beyond(n) + 1
    BY <1>9 DEF Beyond
  <2>3. IsFiniteSet(rest) /\ Cardinality(rest) = Beyond(n)
    <3>1. \A b \in Nat : IsFiniteSet(1..b) /\ Cardinality(1..b) = b
      BY FS_Interval
    <3> QED
      BY <1>7, <3>1
  <2>4. Cardinality({}) = 0
    BY FS_EmptySet
  <2>5. /\ \A s \in Attempts : held[s] \subseteq rest
        /\ \A s, t \in Attempts : s # t => held[s] \cap held[t] = {}
    OBVIOUS
  <2>6. /\ held[r] = rest
        /\ \A s \in Attempts \ {r} : held[s] = {}
    OBVIOUS
  <2> HIDE DEF p, q, one, held, rest
  <2>7. \A s \in Attempts : p[s] = one[s] + Cardinality(held[s])
    <3>1. p[r] = one[r] + Cardinality(held[r])
      BY <1>1, <1>4, <1>7, <2>1, <2>2, <2>3, <2>6
    <3>2. ASSUME NEW s \in Attempts \ {r}
          PROVE  p[s] = one[s] + Cardinality(held[s])
      <4>1. p[s] = one[s] /\ one[s] \in Nat
        BY <1>4, <2>1
      <4>2. held[s] = {}
        BY <2>6
      <4> QED
        BY <2>4, <4>1, <4>2
    <3> QED
      BY <3>1, <3>2
  <2>8. Cardinality(Units(Units(Attempts, one), Tries))
          = Waiting(j) + (MaxRetries + 1 - r)
    BY <1>1, <1>3, <2>1, OneMoreCopy
  <2>9. Waiting(j)' <= Cardinality(Units(Units(Attempts, one), Tries))
                         + Beyond(n) * (MaxRetries + 1)
    BY <1>3, <1>5, <2>1, <2>3, <2>5, <2>7, CopiesFrom
  <2> QED
    BY <1>6, <2>8, <2>9
<1> QED
  BY <1>8, <1>9

(* Copies of other jobs, and slots that work on other jobs, do not count.  *)
LEMMA SameCopies ==
  ASSUME NEW j \in Jobs, \A r \in Attempts : queue'[<<j, r>>] = queue[<<j, r>>]
  PROVE  Waiting(j)' = Waiting(j)
<1>1. [r \in Attempts |-> queue'[<<j, r>>]] = [r \in Attempts |-> queue[<<j, r>>]]
  OBVIOUS
<1> QED
  BY <1>1 DEF Waiting, Copies

LEMMA SameSlots ==
  ASSUME NEW j \in Jobs, UNCHANGED <<stage, holds>>
  PROVE  Underway(j)' = Underway(j)
BY DEF Underway, Owed, About, JobOf, RetriesOf

(* The bound grows with every lost worker by what its slots may cost, and  *)
(* with every copy too many by what a submission may.                      *)
LEMMA BudgetIs ==
  ASSUME TypeOK, NEW j \in Jobs
  PROVE  /\ Budget(j) \in Nat /\ MaxRetries + 1 <= Budget(j)
         /\ \A b \in Nat : crashes' = crashes /\ repeats'[j] = repeats[j] + b =>
              Budget(j)' = Budget(j) + b * (MaxRetries + 1)
         /\ crashes' = crashes /\ repeats'[j] = repeats[j] => Budget(j)' = Budget(j)
         /\ crashes' = crashes + 1 /\ repeats'[j] = repeats[j] =>
              Budget(j)' = Budget(j) + Cardinality(Slots) * (MaxRetries + 1)
<1>1. /\ crashes \in Nat /\ Cardinality(Slots) \in Nat /\ MaxRetries + 1 \in Nat
      /\ repeats[j] \in Nat
  BY SlotsAssumption, FS_CardinalityType, RetriesAssumption, RepeatsAssumption
  DEF TypeOK
<1>2. \A m, d, c, n, b \in Nat :
        /\ m * (1 + d + c * n) \in Nat
        /\ m * (1 + d + c * n) = m + m * (d + c * n) /\ m * (d + c * n) \in Nat
        /\ m * (1 + d + (c + 1) * n) = m * (1 + d + c * n) + n * m
        /\ m * (1 + (d + b) + c * n) = m * (1 + d + c * n) + b * m
  <2> TAKE m, d, c, n, b \in Nat
  <2>1. c * n \in Nat
    OBVIOUS
  <2>2. PICK x \in Nat : x = c * n
    BY <2>1
  <2>3. \A y \in Nat : m * (y + n) = m * y + n * m /\ m * (y + b) = m * y + b * m
                       /\ m * (1 + y) = m + m * y /\ m * y \in Nat
    OBVIOUS
  <2>4. (c + 1) * n = x + n
    BY <2>2
  <2>5. 1 + d + (c + 1) * n = (1 + d + x) + n
    BY <2>4
  <2>6. 1 + (d + b) + x = (1 + d + x) + b /\ 1 + d + x = 1 + (d + x)
    OBVIOUS
  <2>7. 1 + d + x \in Nat /\ d + x \in Nat
    OBVIOUS
  <2> QED
    BY <2>2, <2>3, <2>5, <2>6, <2>7
<1>3. Budget(j) \in Nat /\ MaxRetries + 1 <= Budget(j)
  <2>1. \A a, b \in Nat : a <= a + b
    OBVIOUS
  <2> QED
    BY <1>1, <1>2, <2>1 DEF Budget
<1>4. crashes' = crashes + 1 /\ repeats'[j] = repeats[j] =>
        Budget(j)' = Budget(j) + Cardinality(Slots) * (MaxRetries + 1)
  BY <1>1, <1>2 DEF Budget
<1>5. ASSUME NEW b \in Nat, crashes' = crashes, repeats'[j] = repeats[j] + b
      PROVE  Budget(j)' = Budget(j) + b * (MaxRetries + 1)
  BY <1>1, <1>2, <1>5 DEF Budget
<1> QED
  BY <1>3, <1>4, <1>5 DEF Budget

(* A step that adds no more than it takes, or than the copies too many     *)
(* that it publishes, keeps a job within the bound.                        *)
LEMMA WorkPaid ==
  ASSUME TypeOK, NEW j \in Jobs, WorkInv(j), crashes' = crashes,
         NEW b \in Nat, repeats'[j] = repeats[j] + b,
         starts'[j] + Waiting(j)' + Underway(j)'
           <= starts[j] + Waiting(j) + Underway(j) + b * (MaxRetries + 1),
         starts'[j] \in Nat, Waiting(j)' \in Nat, Underway(j)' \in Nat,
         request'[j] \in {"none", "creating", "created", "refused"} =>
           starts'[j] = 0
  PROVE  WorkInv(j)'
<1>1. Budget(j)' = Budget(j) + b * (MaxRetries + 1) /\ Budget(j) \in Nat
  BY BudgetIs
<1>2. starts[j] \in Nat /\ Waiting(j) \in Nat /\ Underway(j) \in Nat
  BY WorkType DEF TypeOK
<1>3. starts[j] + Waiting(j) + Underway(j) <= Budget(j)
  BY DEF WorkInv
<1>5. b * (MaxRetries + 1) \in Nat
  <2>1. MaxRetries + 1 \in Nat
    BY RetriesAssumption
  <2>2. \A a, c \in Nat : a * c \in Nat
    OBVIOUS
  <2> QED
    BY <2>1, <2>2
<1>4. starts'[j] + Waiting(j)' + Underway(j)' <= Budget(j)'
  BY <1>1, <1>2, <1>3, <1>5
<1> QED
  BY <1>4 DEF WorkInv

LEMMA WorkKept ==
  ASSUME TypeOK, NEW j \in Jobs, WorkInv(j),
         crashes' = crashes, repeats'[j] = repeats[j],
         starts'[j] + Waiting(j)' + Underway(j)'
           <= starts[j] + Waiting(j) + Underway(j),
         starts'[j] \in Nat, Waiting(j)' \in Nat, Underway(j)' \in Nat,
         request'[j] \in {"none", "creating", "created", "refused"} =>
           starts'[j] = 0
  PROVE  WorkInv(j)'
<1>1. Budget(j)' = Budget(j) /\ Budget(j) \in Nat
  BY BudgetIs
<1>2. starts[j] \in Nat /\ Waiting(j) \in Nat /\ Underway(j) \in Nat
  BY WorkType DEF TypeOK
<1>3. starts[j] + Waiting(j) + Underway(j) <= Budget(j)
  BY DEF WorkInv
<1>4. starts'[j] + Waiting(j)' + Underway(j)' <= Budget(j)'
  BY <1>1, <1>2, <1>3
<1> QED
  BY <1>4 DEF WorkInv

(* So does a slot that pays for a start with what it owes, or gives it up. *)
LEMMA SlotKeepsWork ==
  ASSUME TypeOK, NEW j \in Jobs, WorkInv(j), NEW w \in Slots, NEW n \in Nat,
         \A v \in Slots \ {w} : stage'[v] = stage[v] /\ holds'[v] = holds[v],
         \A r \in Attempts : queue'[<<j, r>>] = queue[<<j, r>>],
         UNCHANGED <<request, crashes>>, repeats'[j] = repeats[j],
         Owed(j)'[w] = n, starts'[j] \in Nat,
         starts'[j] + n <= starts[j] + Owed(j)[w],
         request[j] \in {"none", "creating", "created", "refused"} =>
           starts'[j] = 0
  PROVE  WorkInv(j)'
<1>1. Waiting(j)' = Waiting(j) /\ Waiting(j) \in Nat /\ Underway(j) \in Nat
  BY SameCopies, WorkType
<1>2. /\ Underway(j)' + Owed(j)[w] = Underway(j) + n
      /\ Underway(j)' \in Nat
  BY SlotMoves
<1>3. Owed(j)[w] \in Nat /\ starts[j] \in Nat
  BY OwedIs, RetriesAssumption DEF TypeOK
<1>4. starts'[j] + Waiting(j)' + Underway(j)'
        <= starts[j] + Waiting(j) + Underway(j)
  BY <1>1, <1>2, <1>3
<1> QED
  BY <1>1, <1>2, <1>4, WorkKept

Work == \A j \in Jobs : WorkInv(j)

(* Started, waiting and underway: a job's work never exceeds its bound.    *)
THEOREM WorkInvariant == Spec => []Work
<1> DEFINE Agree == \A k \in Jobs : JobInv(k) /\ LoneInv(k)
           Early == {"none", "creating", "created", "refused"}
<1> USE RetriesAssumption
<1>1. Init => Work
  <2> SUFFICES ASSUME Init, NEW j \in Jobs PROVE WorkInv(j)
    BY DEF Work
  <2>1. starts[j] = 0 /\ crashes = 0
    BY DEF Init
  <2>2. Waiting(j) = 0
    <3>1. \A r \in Attempts : CopyCount(j)[r] = 0
      BY DEF Init, CopyCount, Messages, Attempts
    <3>2. Cardinality(Units(Attempts, CopyCount(j))) = 0
            /\ IsFiniteSet(Units(Attempts, CopyCount(j)))
      <4>1. IsFiniteSet(Attempts)
        BY FS_Interval DEF Attempts
      <4> QED
        BY <3>1, <4>1, UnitsNone, UnitsFinite
    <3>3. Copies(j) = {}
      BY <3>2, FS_EmptySet DEF Copies, CopyCount
    <3> QED
      BY <3>3, UnitsNone DEF Waiting
  <2>3. Underway(j) = 0
    <3>1. \A w \in Slots : Owed(j)[w] = 0
      BY DEF Init, Owed, About
    <3> QED
      BY <3>1, UnitsNone DEF Underway
  <2>4. 0 <= Budget(j)
    <3>1. Cardinality(Slots) \in Nat
      BY SlotsAssumption, FS_CardinalityType
    <3>2. 0 * Cardinality(Slots) = 0
      BY <3>1
    <3>3. repeats[j] = 0
      BY DEF Init
    <3> QED
      BY <2>1, <3>2, <3>3 DEF Budget
  <2> QED
    BY <2>1, <2>2, <2>3, <2>4 DEF WorkInv
<1>2. TypeOK /\ Agree /\ Work /\ [Next]_vars => Work'
  <2> SUFFICES ASSUME TypeOK, Agree, Work, [Next]_vars, NEW j \in Jobs
               PROVE  WorkInv(j)'
    BY DEF Work
  <2>a. /\ starts[j] \in Nat /\ Waiting(j) \in Nat /\ Underway(j) \in Nat
        /\ WorkInv(j) /\ JobInv(j)
    BY WorkType DEF TypeOK, Work
  <2>b. request[j] \in Early => starts[j] = 0
    BY <2>a DEF WorkInv
  <2>c. ASSUME NEW w \in Slots, stage[w] # "idle"
        PROVE  /\ About(w, JobOf(w)) /\ JobOf(w) \in Jobs
               /\ request[JobOf(w)] \notin Early
               /\ RetriesOf(w) \in Attempts
               /\ holds[w] = <<JobOf(w), RetriesOf(w)>>
    <3>1. About(w, JobOf(w)) /\ JobOf(w) \in Jobs
      BY <2>c, BusyHolds DEF About
    <3>2. JobInv(JobOf(w))
      BY <3>1
    <3> QED
      BY <2>c, <3>1, <3>2, BusyHolds DEF JobInv, Attempts
  <2>d. Attempts = 0..MaxRetries /\ 0 \in Attempts
    BY DEF Attempts
  (* a step of the server that sends nothing *)
  <2>1. ASSUME NEW k \in Jobs,
               Refuse(k) \/ CreateJob(k) \/ (Admit(k) /\ store # "memory")
        PROVE  WorkInv(j)'
    <3>1. /\ UNCHANGED <<queue, stage, holds, crashes, starts, repeats>>
          /\ request'[j] \in Early => request[j] \in Early
      BY <2>1 DEF Refuse, CreateJob, Admit, TypeOK
    <3>2. Waiting(j)' = Waiting(j) /\ Underway(j)' = Underway(j)
      BY <3>1, SameCopies, SameSlots
    <3> QED
      BY <2>a, <2>b, <3>1, <3>2, WorkKept
  (* the message of a job is published: nothing was started yet *)
  <2>2. ASSUME NEW k \in Jobs, Publish(k) \/ (Admit(k) /\ store = "memory")
        PROVE  WorkInv(j)'
    <3>1. /\ Dispatch(k) /\ request[k] \in Early
          /\ UNCHANGED <<stage, holds, crashes, starts>>
      BY <2>2 DEF Publish, Admit
    <3>2. PICK copies \in 0..(MaxRepeats + 1) :
            /\ Enqueue(k, 0, copies)
            /\ \/ request' = [request EXCEPT ![k] = "accepted"]
               \/ request' = [request EXCEPT ![k] = "errored"]
      BY <3>1 DEF Dispatch
    <3>3. /\ \A l \in Jobs, r \in Attempts :
               <<l, r>> # <<k, 0>> => queue'[<<l, r>>] = queue[<<l, r>>]
          /\ queue'[<<k, 0>>] = queue[<<k, 0>>] + copies
          /\ repeats'[k] = repeats[k] + Beyond(copies)
          /\ Beyond(copies) \in Nat /\ copies \in Nat
          /\ \A l \in Jobs \ {k} : repeats'[l] = repeats[l]
      <4>1. \A l \in Jobs, r \in Attempts : <<l, r>> \in Messages
        BY <2>d DEF Messages
      <4> QED
        BY <2>d, <3>2, <4>1, EnqueueAdds, CopiesAreNumbers
    <3>4. Underway(j)' = Underway(j)
      BY <3>1, SameSlots
    <3>5. CASE j # k
      <4>1. Waiting(j)' = Waiting(j)
        BY <3>3, <3>5, SameCopies
      <4>2. request'[j] = request[j]
        BY <3>2, <3>5 DEF TypeOK
      <4> QED
        BY <2>a, <2>b, <3>1, <3>3, <3>4, <3>5, <4>1, <4>2, WorkKept
    <3>6. CASE j = k
      <4>1. /\ starts[j] = 0
            /\ \A w \in Slots : ~About(w, j)
            /\ \A r \in Attempts : queue[<<j, r>>] = 0
        <5>1. ~Waits(j) /\ \A w \in Slots : ~About(w, j)
          BY <2>a, <3>1, <3>6 DEF JobInv
        <5>2. \A r \in Attempts : queue[<<j, r>>] \in Nat
          BY <2>d DEF TypeOK, Messages
        <5>3. \A r \in Attempts : queue[<<j, r>>] = 0
          <6> TAKE r \in Attempts
          <6>1. ~(queue[<<j, r>>] > 0)
            BY <2>d, <5>1 DEF Waits
          <6> QED
            BY <5>2, <6>1
        <5> QED
          BY <2>b, <3>1, <3>6, <5>1, <5>3
      <4>2. Underway(j) = 0
        <5>1. \A w \in Slots : Owed(j)[w] = 0
          BY <4>1, OwedIs
        <5> QED
          BY <5>1, UnitsNone DEF Underway
      <4>3. Waiting(j) = 0
        <5>1. \A r \in Attempts : CopyCount(j)[r] = 0
          BY <4>1 DEF CopyCount
        <5>2. Units(Attempts, CopyCount(j)) = {}
          BY <5>1, WorkType, CopiesOf, UnitsNone, FS_EmptySet
        <5> QED
          BY <5>2, UnitsNone DEF Waiting, Copies, CopyCount
      <4>4. /\ Waiting(j)' \in Nat
            /\ Waiting(j)' <= Waiting(j) + (MaxRetries + 1 - 0)
                                + Beyond(copies) * (MaxRetries + 1)
        BY <2>d, <3>3, <3>6, CopiesCome
      <4>5. /\ Budget(j)' = Budget(j) + Beyond(copies) * (MaxRetries + 1)
            /\ Budget(j) \in Nat /\ MaxRetries + 1 <= Budget(j)
        BY <3>1, <3>3, <3>6, BudgetIs
      <4>8. Beyond(copies) * (MaxRetries + 1) \in Nat
        <5>1. \A a, b \in Nat : a * b \in Nat
          OBVIOUS
        <5> QED
          BY <3>3, <5>1
      <4>6. starts'[j] + Waiting(j)' + Underway(j)' <= Budget(j)'
        BY <3>1, <3>4, <4>1, <4>2, <4>3, <4>4, <4>5, <4>8
      <4>7. request'[j] \notin Early
        BY <3>2, <3>6 DEF TypeOK
      <4> QED
        BY <4>6, <4>7 DEF WorkInv
    <3> QED
      BY <3>5, <3>6
  (* a slot takes a copy, and owes from then on what the copy was good for *)
  <2>3. ASSUME NEW w \in Slots, NEW m \in Messages, Deliver(w, m)
        PROVE  WorkInv(j)'
    <3> PICK k \in Jobs, r \in Attempts : m = <<k, r>>
      BY <2>d DEF Messages
    <3>1. /\ stage[w] = "idle" /\ stage'[w] = "started" /\ holds'[w] = <<k, r>>
          /\ queue[<<k, r>>] > 0 /\ queue'[<<k, r>>] = queue[<<k, r>>] - 1
          /\ \A l \in Jobs, s \in Attempts :
               <<l, s>> # <<k, r>> => queue'[<<l, s>>] = queue[<<l, s>>]
          /\ \A v \in Slots \ {w} : stage'[v] = stage[v] /\ holds'[v] = holds[v]
          /\ UNCHANGED <<request, crashes, starts, repeats>>
      <4>1. \A l \in Jobs, s \in Attempts : <<l, s>> \in Messages
        BY <2>d DEF Messages
      <4> QED
        BY <2>3, <4>1 DEF Deliver, GoTo, TypeOK
    <3>2. Owed(j)[w] = 0
      BY <3>1, OwedIs DEF About
    <3>3. CASE j # k
      <4>1. Owed(j)'[w] = 0
        BY <3>1, <3>3 DEF Owed, About, JobOf
      <4> QED
        BY <2>a, <2>b, <3>1, <3>2, <3>3, <4>1, SlotKeepsWork
    <3>4. CASE j = k
      <4>1. Owed(j)'[w] = MaxRetries + 1 - r
        BY <3>1, <3>4 DEF Owed, About, JobOf, RetriesOf
      <4>2. MaxRetries + 1 - r \in Nat
        BY <2>d
      <4>3. /\ Underway(j)' + Owed(j)[w] = Underway(j) + (MaxRetries + 1 - r)
            /\ Underway(j)' \in Nat
        BY <3>1, <4>1, <4>2, SlotMoves
      <4>4. /\ Waiting(j) = Waiting(j)' + (MaxRetries + 1 - r)
            /\ Waiting(j)' \in Nat
        BY <3>1, <3>4, CopyComes
      <4>5. starts'[j] + Waiting(j)' + Underway(j)'
              <= starts[j] + Waiting(j) + Underway(j)
        BY <2>a, <3>1, <3>2, <4>2, <4>3, <4>4
      <4> QED
        BY <2>a, <2>b, <3>1, <4>3, <4>4, <4>5, WorkKept
    <3> QED
      BY <3>3, <3>4
  (* a pipeline that starts is paid for by the slot that starts it *)
  <2>4. ASSUME NEW w \in Slots, MarkRunning(w) PROVE WorkInv(j)'
    <3>1. /\ stage[w] = "started" /\ stage'[w] \in {"running", "failing"}
          /\ stage'[w] = "running" =>
               starts' = [starts EXCEPT ![JobOf(w)] = @ + 1]
          /\ stage'[w] = "failing" => starts' = starts
          /\ \A v \in Slots \ {w} : stage'[v] = stage[v]
          /\ UNCHANGED <<queue, holds, request, crashes, repeats>>
      BY <2>4 DEF MarkRunning, GoTo, Raise, TypeOK
    <3>2. CASE j # JobOf(w)
      <4>1. Owed(j)[w] = 0 /\ Owed(j)'[w] = 0
        BY <3>1, <3>2 DEF Owed, About, JobOf
      <4>2. starts'[j] = starts[j]
        BY <3>1, <3>2 DEF TypeOK
      <4> QED
        BY <2>a, <2>b, <3>1, <4>1, <4>2, SlotKeepsWork
    <3>3. CASE j = JobOf(w)
      <4>1. About(w, j) /\ request[j] \notin Early /\ RetriesOf(w) \in Attempts
        BY <2>c, <3>1, <3>3
      <4>2. /\ Owed(j)[w] = MaxRetries + 1 - RetriesOf(w)
            /\ Owed(j)'[w] = MaxRetries - RetriesOf(w)
        BY <3>1, <4>1 DEF Owed, About, JobOf, RetriesOf
      <4>3. starts'[j] \in {starts[j], starts[j] + 1}
        BY <3>1, <3>3 DEF TypeOK
      <4>4. MaxRetries - RetriesOf(w) \in Nat
        BY <2>d, <4>1
      <4>5. /\ starts'[j] \in Nat
            /\ starts'[j] + (MaxRetries - RetriesOf(w))
                 <= starts[j] + (MaxRetries + 1 - RetriesOf(w))
        BY <2>a, <2>d, <4>1, <4>3
      <4> QED
        BY <2>a, <3>1, <4>1, <4>2, <4>4, <4>5, SlotKeepsWork
    <3> QED
      BY <3>2, <3>3
  (* the rest of a task, but for a retry that is sent, only gives up work *)
  <2>5. ASSUME NEW w \in Slots,
               /\ stage[w] # "idle" /\ stage'[w] # "started"
               /\ stage[w] = "finished" => stage'[w] = "idle"
               /\ \A v \in Slots \ {w} : stage'[v] = stage[v] /\ holds'[v] = holds[v]
               /\ holds'[w] = holds[w] \/ stage'[w] = "idle"
               /\ UNCHANGED <<queue, request, crashes, starts, repeats>>
        PROVE  WorkInv(j)'
    <3>1. Owed(j)[w] \in Nat
      BY OwedIs
    <3>2. CASE j # JobOf(w)
      <4>1. Owed(j)[w] = 0 /\ Owed(j)'[w] = 0
        BY <2>5, <3>2 DEF Owed, About, JobOf
      <4> QED
        BY <2>a, <2>b, <2>5, <4>1, SlotKeepsWork
    <3>3. CASE j = JobOf(w)
      <4>1. About(w, j) /\ RetriesOf(w) \in Attempts
        BY <2>c, <2>5, <3>3
      <4>2. \/ Owed(j)'[w] = 0
            \/ /\ Owed(j)'[w] = MaxRetries - RetriesOf(w)
               /\ stage[w] # "finished"
        BY <2>5 DEF Owed, About, JobOf, RetriesOf
      <4>3. /\ Owed(j)'[w] \in Nat
            /\ starts[j] + Owed(j)'[w] <= starts[j] + Owed(j)[w]
        <5>1. CASE Owed(j)'[w] = 0
          BY <2>a, <3>1, <5>1
        <5>2. CASE /\ Owed(j)'[w] = MaxRetries - RetriesOf(w)
                   /\ stage[w] # "finished"
          <6>1. Owed(j)[w] \in {MaxRetries - RetriesOf(w),
                                MaxRetries + 1 - RetriesOf(w)}
            BY <4>1, <5>2, OwedIs
          <6> QED
            BY <2>a, <2>d, <4>1, <5>2, <6>1
        <5> QED
          BY <4>2, <5>1, <5>2
      <4> QED
        BY <2>a, <2>b, <2>5, <4>3, SlotKeepsWork
    <3> QED
      BY <3>2, <3>3
  <2>6. ASSUME NEW w \in Slots,
               \/ RunPipeline(w) \/ CompleteJob(w) \/ FailJob(w)
               \/ Acknowledge(w) \/ KillProcess(w)
               \/ (Retry(w) /\ ~(RetriesOf(w) < MaxRetries))
        PROVE  WorkInv(j)'
    BY <2>5, <2>6
    DEF RunPipeline, CompleteJob, FailJob, Acknowledge, KillProcess, Retry,
        GoTo, Raise, Release, TypeOK
  (* a retry that is sent takes over what its slot owed *)
  <2>7. ASSUME NEW w \in Slots, Retry(w), RetriesOf(w) < MaxRetries
        PROVE  WorkInv(j)'
    <3> DEFINE k == JobOf(w)
               r == RetriesOf(w) + 1
    <3>1. /\ stage[w] = "retrying" /\ stage'[w] = "finished"
          /\ \A v \in Slots \ {w} : stage'[v] = stage[v]
          /\ UNCHANGED <<holds, request, crashes, starts>>
      BY <2>7 DEF Retry, GoTo, TypeOK
    <3>2. k \in Jobs /\ RetriesOf(w) \in Attempts /\ r \in Attempts
      BY <2>c, <2>d, <2>7, <3>1
    <3>3. PICK copies \in 0..(MaxRepeats + 1) : Enqueue(k, r, copies)
      BY <2>7 DEF Retry
    <3> HIDE DEF r
    <3>5. /\ queue'[<<k, r>>] = queue[<<k, r>>] + copies
          /\ \A l \in Jobs, s \in Attempts :
               <<l, s>> # <<k, r>> => queue'[<<l, s>>] = queue[<<l, s>>]
          /\ repeats'[k] = repeats[k] + Beyond(copies)
          /\ Beyond(copies) \in Nat /\ copies \in Nat
          /\ \A l \in Jobs \ {k} : repeats'[l] = repeats[l]
      <4>1. \A l \in Jobs, s \in Attempts : <<l, s>> \in Messages
        BY <2>d DEF Messages
      <4> QED
        BY <2>d, <3>2, <3>3, <4>1, EnqueueAdds, CopiesAreNumbers
    <3>6. Owed(j)'[w] = 0
      BY <3>1 DEF Owed
    <3>7. CASE j # k
      <4>1. Owed(j)[w] = 0
        BY <3>7 DEF Owed, About
      <4>2. \A s \in Attempts : queue'[<<j, s>>] = queue[<<j, s>>]
        BY <3>5, <3>7
      <4> QED
        BY <2>a, <2>b, <3>1, <3>5, <3>6, <3>7, <4>1, <4>2, SlotKeepsWork
    <3>8. CASE j = k
      <4>1. Owed(j)[w] = MaxRetries - RetriesOf(w)
        BY <2>c, <3>1, <3>8, OwedIs
      <4>2. /\ Underway(j)' + Owed(j)[w] = Underway(j) + 0
            /\ Underway(j)' \in Nat
        BY <3>1, <3>6, SlotMoves
      <4>3. /\ Waiting(j)' \in Nat
            /\ Waiting(j)' <= Waiting(j) + (MaxRetries + 1 - r)
                                + Beyond(copies) * (MaxRetries + 1)
        BY <3>2, <3>5, <3>8, CopiesCome
      <4>4. MaxRetries + 1 - r = MaxRetries - RetriesOf(w)
        BY <2>d, <3>2 DEF r
      <4>5. MaxRetries - RetriesOf(w) \in Nat
        BY <2>d, <3>2
      <4>7. Beyond(copies) * (MaxRetries + 1) \in Nat
        <5>1. \A a, b \in Nat : a * b \in Nat
          OBVIOUS
        <5> QED
          BY <3>5, <5>1
      <4>6. starts'[j] + Waiting(j)' + Underway(j)'
              <= starts[j] + Waiting(j) + Underway(j)
                   + Beyond(copies) * (MaxRetries + 1)
        BY <2>a, <3>1, <4>1, <4>2, <4>3, <4>4, <4>5, <4>7
      <4>8. repeats'[j] = repeats[j] + Beyond(copies) /\ Beyond(copies) \in Nat
        BY <3>5, <3>8
      <4> QED
        BY <2>a, <2>b, <3>1, <4>2, <4>3, <4>6, <4>8, WorkPaid
    <3> QED
      BY <3>7, <3>8
  (* a lost worker: every slot owes nothing, and gives back its copy *)
  <2>8. ASSUME CrashWorker PROVE WorkInv(j)'
    <3> DEFINE q == CopyCount(j)
               p == [r \in Attempts |-> queue'[<<j, r>>]]
               held == [r \in Attempts |-> {w \in unacked : holds[w] = <<j, r>>}]
    <3>1. /\ \A r \in Attempts : queue'[<<j, r>>] =
               queue[<<j, r>>] + Cardinality({w \in unacked : holds[w] = <<j, r>>})
          /\ \A w \in Slots : stage'[w] = "idle"
          /\ crashes' = crashes + 1 /\ UNCHANGED <<request, starts, repeats>>
      BY <2>8, <2>d DEF CrashWorker, Messages
    <3>2. \A r \in Attempts :
            /\ held[r] \subseteq Slots /\ Cardinality(held[r]) \in Nat
            /\ p[r] = q[r] + Cardinality(held[r])
      <4> TAKE r \in Attempts
      <4>1. held[r] \subseteq Slots
        BY DEF TypeOK
      <4>2. IsFiniteSet(held[r])
        BY <4>1, SlotsAssumption, FS_Subset
      <4>3. Cardinality(held[r]) \in Nat
        BY <4>2, FS_CardinalityType
      <4> QED
        BY <3>1, <4>1, <4>3 DEF CopyCount
    <3>3. \A r, s \in Attempts : r # s => held[r] \cap held[s] = {}
      <4> SUFFICES ASSUME NEW r \in Attempts, NEW s \in Attempts, r # s,
                          NEW w \in held[r], w \in held[s]
                   PROVE  FALSE
        OBVIOUS
      <4>1. holds[w] = <<j, r>> /\ holds[w] = <<j, s>>
        OBVIOUS
      <4> QED
        BY <4>1
    <3>4. q \in [Attempts -> Nat] /\ p \in [Attempts -> Nat]
      <4>1. q \in [Attempts -> Nat]
        BY WorkType
      <4>2. \A r \in Attempts : q[r] \in Nat
        BY <4>1
      <4>3. \A r \in Attempts : p[r] \in Nat
        <5> HIDE DEF p, q, held
        <5> QED
          BY <3>2, <4>2
      <4> QED
        BY <4>1, <4>3
    <3>5. /\ Waiting(j) = Cardinality(Units(Units(Attempts, q), Tries))
          /\ Waiting(j)' = Cardinality(Units(Units(Attempts, p), Tries))
      BY DEF Waiting, Copies, CopyCount
    <3>6. Waiting(j)' <= Waiting(j) + Cardinality(Slots) * (MaxRetries + 1)
          /\ Waiting(j)' \in Nat
      <4> HIDE DEF p, q, held
      <4> QED
        BY <3>2, <3>3, <3>4, <3>5, SlotsAssumption, CopiesFrom, TriesType
    <3>7. Underway(j)' = 0
      <4>1. \A w \in Slots : Owed(j)'[w] = 0
        BY <3>1 DEF Owed, About
      <4> QED
        BY <4>1, UnitsNone DEF Underway
    <3>8. Budget(j)' = Budget(j) + Cardinality(Slots) * (MaxRetries + 1)
          /\ Budget(j) \in Nat
      BY <3>1, BudgetIs
    <3>9. Cardinality(Slots) * (MaxRetries + 1) \in Nat
      BY SlotsAssumption, FS_CardinalityType
    <3>10. starts[j] + Waiting(j) + Underway(j) <= Budget(j)
      BY <2>a DEF WorkInv
    <3>11. starts'[j] + Waiting(j)' + Underway(j)' <= Budget(j)'
      BY <2>a, <3>1, <3>6, <3>7, <3>8, <3>9, <3>10
    <3> QED
      BY <2>b, <3>1, <3>11 DEF WorkInv
  (* the broker drops what waits *)
  <2>9. ASSUME EvictQueue PROVE WorkInv(j)'
    <3>1. /\ \A r \in Attempts : queue'[<<j, r>>] = 0
          /\ UNCHANGED <<request, stage, holds, crashes, starts, repeats>>
      BY <2>9, <2>d DEF EvictQueue, Messages
    <3> DEFINE p == [r \in Attempts |-> queue'[<<j, r>>]]
    <3>2. \A r \in Attempts : p[r] = 0
      BY <3>1
    <3>3. p \in [Attempts -> Nat]
      BY <3>1
    <3>4. Waiting(j)' = Cardinality(Units(Units(Attempts, p), Tries))
      BY DEF Waiting, Copies
    <3>5. Waiting(j)' = 0
      <4> HIDE DEF p
      <4>1. Units(Attempts, p) = {}
        BY <3>2, <3>3, CopiesOf, UnitsNone, FS_EmptySet
      <4> QED
        BY <3>4, <4>1, UnitsNone
    <3>6. Underway(j)' = Underway(j)
      BY <3>1, SameSlots
    <3> QED
      BY <2>a, <2>b, <3>1, <3>5, <3>6, WorkKept
  <2>11. ASSUME EvictUnacked PROVE WorkInv(j)'
    <3>1. UNCHANGED <<queue, request, stage, holds, crashes, starts, repeats>>
      BY <2>11 DEF EvictUnacked
    <3>2. Waiting(j)' = Waiting(j) /\ Underway(j)' = Underway(j)
      BY <3>1, SameCopies, SameSlots
    <3> QED
      BY <2>a, <2>b, <3>1, <3>2, WorkKept
  <2>10. CASE UNCHANGED vars
    <3>1. Waiting(j)' = Waiting(j) /\ Underway(j)' = Underway(j)
      BY <2>10, SameCopies, SameSlots DEF vars
    <3> QED
      BY <2>a, <2>b, <2>10, <3>1, WorkKept DEF vars
  <2> QED
    BY <2>1, <2>2, <2>3, <2>4, <2>6, <2>7, <2>8, <2>9, <2>10, <2>11
    DEF Next, Handler, TaskStep, Take
<1> QED
  BY <1>1, <1>2, TypeCorrect, JobInvariant, PTL DEF Spec

(* However often a worker is lost and a message published too often, the   *)
(* pipelines that are started for a job stay within what its retries, the  *)
(* copies too many and the lost slots account for.                         *)
THEOREM NoWorkWithoutBound == Spec => []WorkIsBounded
<1>1. TypeOK /\ Work => WorkIsBounded
  <2> SUFFICES ASSUME TypeOK, NEW j \in Jobs, WorkInv(j)
               PROVE  starts[j] <= Budget(j)
    BY DEF WorkIsBounded, Work
  <2>1. starts[j] \in Nat /\ Waiting(j) \in Nat /\ Underway(j) \in Nat
    BY WorkType DEF TypeOK
  <2>2. Budget(j) \in Nat
    BY BudgetIs
  <2> QED
    BY <2>1, <2>2 DEF WorkInv
<1> QED
  BY <1>1, TypeCorrect, WorkInvariant, PTL

-----------------------------------------------------------------------------
(* How far a job is from rest *)

(* A slot's rank is a small number, and none if it does not work on j.     *)
LEMMA LeftIs ==
  ASSUME TypeOK, NEW j \in Jobs, NEW w \in Slots
  PROVE  /\ Left(j)[w] \in 0..7
         /\ ~About(w, j) => Left(j)[w] = 0
         /\ About(w, j) => Left(j)[w] = StageRank[stage[w]]
<1>1. StageRank[stage[w]] \in 0..7
  <2>1. stage[w] \in Stages
    BY DEF TypeOK
  <2> QED
    BY <2>1 DEF StageRank, Stages, AtWork
<1> HIDE DEF StageRank
<1> QED
  BY <1>1 DEF Left

(* The parts of a rank are numbers.                                        *)
LEMMA RankType ==
  ASSUME TypeOK, NEW j \in Jobs
  PROVE  /\ Waiting(j) \in Nat /\ Underway(j) \in Nat
         /\ Number(j) \in Nat /\ ToDo(j) \in Nat /\ Rank(j) \in Nat
<1>1. Waiting(j) \in Nat /\ Underway(j) \in Nat
  BY WorkType
<1>2. Number(j) \in Nat
  <2>1. IsFiniteSet(Copies(j))
    BY WorkType, CopiesOf DEF Copies, CopyCount
  <2> QED
    BY <2>1, FS_CardinalityType DEF Number
<1>3. ToDo(j) \in Nat
  <2>1. \A w \in Slots : Left(j)[w] \in Nat
    BY LeftIs
  <2> QED
    BY <2>1, SlotsAssumption, UnitsFinite DEF ToDo
<1> QED
  BY <1>1, <1>2, <1>3 DEF Rank

(* When one slot moves, what is left to do changes by its own rank.        *)
LEMMA LeftMoves ==
  ASSUME TypeOK, NEW j \in Jobs, NEW w \in Slots, NEW n \in Nat,
         \A v \in Slots \ {w} : stage'[v] = stage[v] /\ holds'[v] = holds[v],
         Left(j)'[w] = n
  PROVE  /\ ToDo(j)' + Left(j)[w] = ToDo(j) + n
         /\ ToDo(j)' \in Nat
<1>1. \A v \in Slots : Left(j)[v] \in Nat
  BY LeftIs
<1>2. \A v \in Slots \ {w} : Left(j)'[v] = Left(j)[v]
  BY DEF Left, About, JobOf
<1>3. \A v \in Slots : Left(j)[v] \in Nat /\ Left(j)'[v] \in Nat
  BY <1>1, <1>2
<1> HIDE DEF Left
<1>4. Cardinality(Units(Slots, Left(j)')) + Left(j)[w]
        = Cardinality(Units(Slots, Left(j))) + Left(j)'[w]
  BY <1>2, <1>3, SlotsAssumption, UnitsChange
<1>5. Cardinality(Units(Slots, Left(j)')) \in Nat
  BY <1>3, SlotsAssumption, UnitsFinite
<1> QED
  BY <1>4, <1>5 DEF ToDo

(* A copy that comes or goes is one copy.                                  *)
LEMMA NumberMoves ==
  ASSUME TypeOK, NEW j \in Jobs, NEW r \in Attempts, queue'[<<j, r>>] \in Nat,
         \A s \in Attempts \ {r} : queue'[<<j, s>>] = queue[<<j, s>>]
  PROVE  /\ Number(j)' + queue[<<j, r>>] = Number(j) + queue'[<<j, r>>]
         /\ Number(j)' \in Nat
<1> DEFINE q == CopyCount(j)
           p == [s \in Attempts |-> queue'[<<j, s>>]]
<1>1. q \in [Attempts -> Nat]
  BY WorkType
<1>2. \A s \in Attempts : q[s] = queue[<<j, s>>] /\ p[s] = queue'[<<j, s>>]
  BY DEF CopyCount
<1>3. /\ \A s \in Attempts \ {r} : p[s] = q[s]
      /\ \A s \in Attempts : q[s] \in Nat /\ p[s] \in Nat
  BY <1>1, <1>2
<1>4. IsFiniteSet(Attempts)
  BY FS_Interval, RetriesAssumption DEF Attempts
<1>5. /\ Number(j) = Cardinality(Units(Attempts, q))
      /\ Number(j)' = Cardinality(Units(Attempts, p))
  BY DEF Number, Copies, CopyCount
<1>6. q[r] = queue[<<j, r>>] /\ p[r] = queue'[<<j, r>>]
  BY <1>2
<1> HIDE DEF p, q
<1>7. Cardinality(Units(Attempts, p)) + q[r] = Cardinality(Units(Attempts, q)) + p[r]
  BY <1>3, <1>4, UnitsChange
<1>8. Cardinality(Units(Attempts, p)) \in Nat
  BY <1>3, <1>4, UnitsFinite
<1> QED
  BY <1>5, <1>6, <1>7, <1>8

(* Where no copy comes or goes the copies rank as before.                  *)
LEMMA SameNumber ==
  ASSUME NEW j \in Jobs, \A r \in Attempts : queue'[<<j, r>>] = queue[<<j, r>>]
  PROVE  Waiting(j)' = Waiting(j) /\ Number(j)' = Number(j)
<1>1. [r \in Attempts |-> queue'[<<j, r>>]] = [r \in Attempts |-> queue[<<j, r>>]]
  OBVIOUS
<1> QED
  BY <1>1 DEF Waiting, Number, Copies

(* Nor does a job's rank change unless one of its slots or copies does.    *)
LEMMA SameRank ==
  ASSUME NEW j \in Jobs, UNCHANGED <<stage, holds>>,
         \A r \in Attempts : queue'[<<j, r>>] = queue[<<j, r>>]
  PROVE  Rank(j)' = Rank(j)
<1>1. ToDo(j)' = ToDo(j)
  BY DEF ToDo, Left, About, JobOf
<1> QED
  BY <1>1, SameNumber, SameSlots DEF Rank

(* What one slot's move does to the rank.                                  *)
LEMMA SlotRanks ==
  ASSUME TypeOK, NEW j \in Jobs, NEW w \in Slots,
         \A v \in Slots \ {w} : stage'[v] = stage[v] /\ holds'[v] = holds[v],
         \A r \in Attempts : queue'[<<j, r>>] = queue[<<j, r>>],
         Owed(j)'[w] \in Nat, Left(j)'[w] \in Nat
  PROVE  /\ Rank(j)' + 7 * Owed(j)[w] + Left(j)[w]
              = Rank(j) + 7 * Owed(j)'[w] + Left(j)'[w]
         /\ Rank(j)' \in Nat
<1>1. Waiting(j)' = Waiting(j) /\ Number(j)' = Number(j)
  BY SameNumber
<1>2. /\ Underway(j)' + Owed(j)[w] = Underway(j) + Owed(j)'[w]
      /\ Underway(j)' \in Nat
  BY SlotMoves
<1>3. /\ ToDo(j)' + Left(j)[w] = ToDo(j) + Left(j)'[w]
      /\ ToDo(j)' \in Nat
  BY LeftMoves
<1>4. Owed(j)[w] \in Nat /\ Left(j)[w] \in Nat
  BY OwedIs, LeftIs, RetriesAssumption
<1>5. /\ Rank(j) = 7 * (Waiting(j) + Underway(j)) + 2 * Number(j) + ToDo(j)
      /\ Rank(j)' = 7 * (Waiting(j)' + Underway(j)') + 2 * Number(j)' + ToDo(j)'
  BY DEF Rank
<1>6. /\ Waiting(j) \in Nat /\ Underway(j) \in Nat
      /\ Number(j) \in Nat /\ ToDo(j) \in Nat
  BY RankType
<1>7. Rank(j)' \in Nat
  BY <1>1, <1>2, <1>3, <1>5, <1>6
<1> QED
  BY <1>1, <1>2, <1>3, <1>4, <1>5, <1>6, <1>7

(* A slot that moves on within its task, or out of it.                     *)
SlotSteps(w) ==
  /\ stage[w] # "idle"
  /\ \A v \in Slots \ {w} : stage'[v] = stage[v] /\ holds'[v] = holds[v]
  /\ queue' = queue
  /\ \/ /\ holds'[w] = holds[w]
        /\ \/ stage[w] = "started" /\ stage'[w] \in {"running", "failing"}
           \/ stage[w] = "running" /\ stage'[w] \in {"completing", "failing"}
           \/ stage[w] = "completing" /\ stage'[w] \in {"finished", "failing"}
           \/ stage[w] = "failing" /\ stage'[w] \in {"finished", "retrying"}
           \/ stage[w] = "retrying" /\ stage'[w] = "finished"
     \/ stage'[w] = "idle"

(* It brings its own job nearer to rest, and leaves the others.            *)
LEMMA StepsAreDown ==
  ASSUME TypeOK, NEW j \in Jobs, NEW w \in Slots, SlotSteps(w)
  PROVE  /\ About(w, j) => Rank(j)' < Rank(j)
         /\ ~About(w, j) => Rank(j)' = Rank(j)
<1>a. /\ \A v \in Slots \ {w} : stage'[v] = stage[v] /\ holds'[v] = holds[v]
      /\ \A r \in Attempts : queue'[<<j, r>>] = queue[<<j, r>>]
  BY DEF SlotSteps
<1>b. Owed(j)[w] \in Nat /\ Left(j)[w] \in Nat /\ Rank(j) \in Nat
  BY OwedIs, LeftIs, RankType, RetriesAssumption
<1>1. ASSUME ~About(w, j) PROVE Rank(j)' = Rank(j)
  <2>1. Owed(j)[w] = 0 /\ Left(j)[w] = 0
    BY <1>1, OwedIs, LeftIs
  <2>2. Owed(j)'[w] = 0 /\ Left(j)'[w] = 0
    <3>1. ~About(w, j)'
      BY <1>1 DEF SlotSteps, About, JobOf
    <3> QED
      BY <3>1 DEF Owed, Left
  <2> QED
    BY <1>a, <1>b, <2>1, <2>2, SlotRanks
<1>2. ASSUME About(w, j) PROVE Rank(j)' < Rank(j)
  <2>1. RetriesOf(w) \in 0..MaxRetries
    BY <1>2, BusyHolds DEF About
  <2>2. Left(j)[w] = StageRank[stage[w]]
    BY <1>2, LeftIs
  <2>3. /\ stage[w] \notin {"started", "finished"} =>
             Owed(j)[w] = MaxRetries - RetriesOf(w)
        /\ stage[w] = "started" => Owed(j)[w] = MaxRetries + 1 - RetriesOf(w)
        /\ stage[w] = "finished" => Owed(j)[w] = 0
    BY <1>2, OwedIs
  <2>4. /\ Owed(j)'[w] \in Nat /\ Left(j)'[w] \in Nat
        /\ 7 * Owed(j)'[w] + Left(j)'[w] < 7 * Owed(j)[w] + Left(j)[w]
    <3>1. CASE stage'[w] = "idle"
      <4>1. Owed(j)'[w] = 0 /\ Left(j)'[w] = 0
        BY <3>1 DEF Owed, Left, About
      <4>2. Left(j)[w] > 0
        <5>1. stage[w] \in Stages \ {"idle"}
          BY DEF TypeOK, SlotSteps
        <5> QED
          BY <2>2, <5>1 DEF StageRank, Stages, AtWork
      <4> QED
        BY <1>b, <4>1, <4>2
    <3>2. CASE stage'[w] # "idle"
      <4>1. About(w, j)' /\ RetriesOf(w)' = RetriesOf(w)
        BY <1>2, <3>2 DEF About, JobOf, RetriesOf, SlotSteps
      <4>2. Left(j)'[w] = StageRank[stage'[w]]
        BY <4>1 DEF Left
      <4>3. stage'[w] # "started"
        BY <3>2 DEF SlotSteps
      <4>4. /\ stage'[w] # "finished" =>
                 Owed(j)'[w] = MaxRetries - RetriesOf(w)
            /\ stage'[w] = "finished" => Owed(j)'[w] = 0
        BY <4>1, <4>3 DEF Owed
      <4>5. CASE stage[w] = "started"
        <5>1. /\ Owed(j)[w] = MaxRetries + 1 - RetriesOf(w)
              /\ Owed(j)'[w] = MaxRetries - RetriesOf(w)
          BY <2>3, <3>2, <4>4, <4>5 DEF SlotSteps
        <5>2. Left(j)[w] = 1 /\ Left(j)'[w] \in {7, 5}
          BY <2>2, <3>2, <4>2, <4>5 DEF SlotSteps, StageRank
        <5> QED
          BY <2>1, <5>1, <5>2, RetriesAssumption
      <4>6. CASE stage[w] # "started"
        <5>1. stage[w] # "finished" /\ Owed(j)[w] = MaxRetries - RetriesOf(w)
          BY <2>3, <3>2, <4>6 DEF SlotSteps
        <5>2. Left(j)'[w] \in Nat /\ Left(j)'[w] < Left(j)[w]
          BY <2>2, <3>2, <4>2, <4>6 DEF SlotSteps, StageRank
        <5> QED
          BY <1>b, <2>1, <4>4, <5>1, <5>2, RetriesAssumption
      <4> QED
        BY <4>5, <4>6
    <3> QED
      BY <3>1, <3>2
  <2>5. /\ Rank(j)' + 7 * Owed(j)[w] + Left(j)[w]
             = Rank(j) + 7 * Owed(j)'[w] + Left(j)'[w]
        /\ Rank(j)' \in Nat
    BY <1>a, <2>4, SlotRanks
  <2> QED
    BY <1>b, <2>4, <2>5
<1> QED
  BY <1>1, <1>2

(* A copy that is taken leaves the queue for a slot that has to start it.  *)
LEMMA DeliveryIsDown ==
  ASSUME TypeOK, NEW j \in Jobs, NEW k \in Jobs, NEW r \in Attempts,
         NEW w \in Slots, Deliver(w, <<k, r>>)
  PROVE  /\ j = k => Rank(j)' < Rank(j)
         /\ j # k => Rank(j)' = Rank(j)
<1>1. /\ stage[w] = "idle" /\ stage'[w] = "started" /\ holds'[w] = <<k, r>>
      /\ queue[<<k, r>>] \in Nat /\ queue[<<k, r>>] > 0
      /\ queue'[<<k, r>>] = queue[<<k, r>>] - 1
      /\ \A l \in Jobs, s \in Attempts :
           <<l, s>> # <<k, r>> => queue'[<<l, s>>] = queue[<<l, s>>]
      /\ \A v \in Slots \ {w} : stage'[v] = stage[v] /\ holds'[v] = holds[v]
  <2>1. \A l \in Jobs, s \in Attempts : <<l, s>> \in Messages
    BY DEF Messages, Attempts
  <2> QED
    BY <2>1 DEF Deliver, GoTo, TypeOK
<1>2. Owed(j)[w] = 0 /\ Left(j)[w] = 0
  BY <1>1, OwedIs, LeftIs DEF About
<1>3. CASE j # k
  <2>1. ~About(w, j)'
    BY <1>1, <1>3 DEF About, JobOf
  <2>2. Owed(j)'[w] = 0 /\ Left(j)'[w] = 0
    BY <2>1 DEF Owed, Left
  <2>3. \A s \in Attempts : queue'[<<j, s>>] = queue[<<j, s>>]
    BY <1>1, <1>3
  <2>4. Rank(j)' + 7 * 0 + 0 = Rank(j) + 7 * 0 + 0 /\ Rank(j)' \in Nat
    BY <1>1, <1>2, <2>2, <2>3, SlotRanks
  <2> QED
    BY <1>3, <2>4, RankType
<1>4. CASE j = k
  <2>1. About(w, j)' /\ RetriesOf(w)' = r
    BY <1>1, <1>4 DEF About, JobOf, RetriesOf
  <2>2. Owed(j)'[w] = MaxRetries + 1 - r /\ Left(j)'[w] = 1
    BY <1>1, <2>1 DEF Owed, Left, StageRank
  <2>3. MaxRetries + 1 - r \in Nat
    BY RetriesAssumption DEF Attempts
  <2>4. /\ Underway(j)' = Underway(j) + (MaxRetries + 1 - r)
        /\ ToDo(j)' = ToDo(j) + 1
    BY <1>1, <1>2, <2>2, <2>3, SlotMoves, LeftMoves, RankType
  <2>5. Waiting(j) = Waiting(j)' + (MaxRetries + 1 - r) /\ Waiting(j)' \in Nat
    BY <1>1, <1>4, CopyComes
  <2>6. Number(j) = Number(j)' + 1 /\ Number(j)' \in Nat
    <3>1. queue'[<<j, r>>] \in Nat
      BY <1>1, <1>4
    <3>2. /\ Number(j)' + queue[<<j, r>>] = Number(j) + queue'[<<j, r>>]
          /\ Number(j)' \in Nat
      BY <1>1, <1>4, <3>1, NumberMoves
    <3>3. Number(j) \in Nat
      BY RankType
    <3> QED
      BY <1>1, <1>4, <3>2, <3>3
  <2> QED
    <3>1. /\ Waiting(j) \in Nat /\ Underway(j) \in Nat
          /\ Number(j) \in Nat /\ ToDo(j) \in Nat
      BY RankType
    <3>2. Rank(j)' = 7 * (Waiting(j)' + Underway(j)') + 2 * Number(j)' + ToDo(j)'
      BY DEF Rank
    <3>3. Waiting(j)' + Underway(j)' = Waiting(j) + Underway(j)
      BY <2>3, <2>4, <2>5, <3>1
    <3>4. Waiting(j) + Underway(j) \in Nat /\ Number(j)' \in Nat
      BY <2>6, <3>1
    <3>5. Rank(j)' = Rank(j) - 1
      BY <2>4, <2>6, <3>1, <3>2, <3>3, <3>4 DEF Rank
    <3> QED
      BY <1>4, <3>5, RankType
<1> QED
  BY <1>3, <1>4

(* A retry that is sent has one start less than the attempt before it.     *)
LEMMA RetryIsDown ==
  ASSUME TypeOK, NEW j \in Jobs, NEW w \in Slots, Retry(w), queue' # queue
  PROVE  /\ About(w, j) => Rank(j)' < Rank(j) \/ repeats'[j] > repeats[j]
         /\ ~About(w, j) => Rank(j)' = Rank(j)
<1> DEFINE k == JobOf(w)
           r == RetriesOf(w) + 1
<1>1. /\ stage[w] = "retrying" /\ stage'[w] = "finished"
      /\ RetriesOf(w) < MaxRetries
      /\ \A v \in Slots \ {w} : stage'[v] = stage[v]
      /\ UNCHANGED holds
  BY DEF Retry, GoTo, TypeOK
<1>2. k \in Jobs /\ RetriesOf(w) \in 0..MaxRetries /\ r \in Attempts
      /\ About(w, k)
  <2>1. k \in Jobs /\ RetriesOf(w) \in 0..MaxRetries
    BY <1>1, BusyHolds
  <2> QED
    BY <1>1, <2>1, RetriesAssumption DEF Attempts, About
<1>3. PICK copies \in 0..(MaxRepeats + 1) : Enqueue(k, r, copies)
  BY <1>1 DEF Retry
<1>a. MaxRetries + 1 - r = MaxRetries - RetriesOf(w)
      /\ MaxRetries - RetriesOf(w) \in Nat
  BY <1>1, <1>2, RetriesAssumption
<1> HIDE DEF r
<1>5. /\ queue[<<k, r>>] \in Nat /\ queue'[<<k, r>>] = queue[<<k, r>>] + copies
      /\ copies \in Nat /\ repeats[k] \in Nat
      /\ copies > 1 => repeats'[k] = repeats[k] + copies - 1
      /\ \A l \in Jobs, s \in Attempts :
           <<l, s>> # <<k, r>> => queue'[<<l, s>>] = queue[<<l, s>>]
  <2>1. \A l \in Jobs, s \in Attempts : <<l, s>> \in Messages
    BY DEF Messages, Attempts
  <2> QED
    BY <1>2, <1>3, <2>1, EnqueueAdds, CopiesAreNumbers, RepeatsAssumption
    DEF TypeOK, Attempts
<1>4. copies # 0
  <2> SUFFICES ASSUME copies = 0 PROVE queue' = queue
    OBVIOUS
  <2>1. /\ queue' \in [Messages -> Nat] /\ queue \in [Messages -> Nat]
        /\ \A m \in Messages : queue'[m] = queue[m]
    BY <1>2, <1>3, <1>5, EnqueueAdds, CopiesAreNumbers DEF TypeOK, Attempts
  <2> QED
    BY <2>1
<1>6. CASE ~About(w, j)
  <2>1. Owed(j)[w] = 0 /\ Left(j)[w] = 0
    BY <1>6, OwedIs, LeftIs
  <2>2. Owed(j)'[w] = 0 /\ Left(j)'[w] = 0
    <3>1. ~About(w, j)'
      BY <1>1, <1>6 DEF About, JobOf
    <3> QED
      BY <3>1 DEF Owed, Left
  <2>3. \A s \in Attempts : queue'[<<j, s>>] = queue[<<j, s>>]
    BY <1>2, <1>5, <1>6
  <2>4. Rank(j)' + 7 * 0 + 0 = Rank(j) + 7 * 0 + 0 /\ Rank(j)' \in Nat
    BY <1>1, <2>1, <2>2, <2>3, SlotRanks
  <2> QED
    BY <1>6, <2>4, RankType
<1>8. CASE About(w, j) /\ copies # 1
  <2>1. j = k
    BY <1>8 DEF About
  <2> QED
    BY <1>4, <1>5, <1>8, <2>1
<1>7. CASE About(w, j) /\ copies = 1
  <2>1. j = k
    BY <1>7 DEF About
  <2>2. Owed(j)[w] = MaxRetries - RetriesOf(w) /\ Left(j)[w] = 4
    BY <1>1, <1>7, OwedIs, LeftIs DEF StageRank
  <2>3. Owed(j)'[w] = 0 /\ Left(j)'[w] = 1
    <3>1. About(w, j)'
      BY <1>1, <1>7 DEF About, JobOf
    <3> QED
      BY <1>1, <3>1 DEF Owed, Left, StageRank
  <2>4. /\ Underway(j)' + (MaxRetries - RetriesOf(w)) = Underway(j) + 0
        /\ ToDo(j)' + 4 = ToDo(j) + 1
        /\ Underway(j)' \in Nat /\ ToDo(j)' \in Nat
    BY <1>1, <2>2, <2>3, SlotMoves, LeftMoves
  <2>5. Waiting(j)' = Waiting(j) + (MaxRetries - RetriesOf(w))
    BY <1>2, <1>5, <1>7, <1>a, <2>1, CopyComes
  <2>6. Number(j)' = Number(j) + 1
    <3>1. queue'[<<j, r>>] \in Nat
      BY <1>5, <1>7, <2>1
    <3>2. /\ Number(j)' + queue[<<j, r>>] = Number(j) + queue'[<<j, r>>]
          /\ Number(j)' \in Nat
      BY <1>2, <1>5, <2>1, <3>1, NumberMoves
    <3> QED
      BY <1>5, <1>7, <2>1, <3>2, RankType
  <2> QED
    BY <1>7, <1>a, <2>4, <2>5, <2>6, RankType DEF Rank
<1> QED
  BY <1>6, <1>7, <1>8

(* What the broker drops is no longer to be done.                          *)
LEMMA EvictionIsDown ==
  ASSUME TypeOK, NEW j \in Jobs, EvictQueue
  PROVE  Rank(j)' <= Rank(j)
<1> DEFINE p == [r \in Attempts |-> queue'[<<j, r>>]]
<1>1. /\ \A r \in Attempts : p[r] = 0
      /\ UNCHANGED <<stage, holds>>
  BY DEF EvictQueue, Messages, Attempts
<1>2. p \in [Attempts -> Nat]
  BY <1>1
<1>3. Number(j)' = Cardinality(Units(Attempts, p))
      /\ Waiting(j)' = Cardinality(Units(Units(Attempts, p), Tries))
  BY DEF Number, Waiting, Copies
<1>4. Number(j)' = 0 /\ Waiting(j)' = 0
  <2> HIDE DEF p
  <2>1. Units(Attempts, p) = {} /\ Cardinality(Units(Attempts, p)) = 0
    BY <1>1, <1>2, CopiesOf, UnitsNone, FS_EmptySet
  <2> QED
    BY <1>3, <2>1, UnitsNone
<1>5. Underway(j)' = Underway(j) /\ ToDo(j)' = ToDo(j)
  BY <1>1, SameSlots DEF ToDo, Left, About, JobOf
<1> QED
  BY <1>4, <1>5, RankType DEF Rank

(* The steps of a task, and its end by a kill, are a slot's or a retry's.  *)
LEMMA StepsAre ==
  ASSUME TypeOK, NEW w \in Slots, TaskStep(w) \/ KillProcess(w)
  PROVE  SlotSteps(w) \/ (Retry(w) /\ queue' # queue)
<1>1. ASSUME MarkRunning(w) \/ RunPipeline(w) PROVE SlotSteps(w)
  BY <1>1 DEF MarkRunning, RunPipeline, SlotSteps, GoTo, Raise, TypeOK
<1>2. ASSUME CompleteJob(w) \/ FailJob(w) PROVE SlotSteps(w)
  BY <1>2 DEF CompleteJob, FailJob, SlotSteps, GoTo, Raise, TypeOK
<1>3. ASSUME Acknowledge(w) \/ KillProcess(w) PROVE SlotSteps(w)
  BY <1>3 DEF Acknowledge, KillProcess, SlotSteps, GoTo, Release, TypeOK
<1>4. ASSUME Retry(w), queue' = queue PROVE SlotSteps(w)
  BY <1>4 DEF Retry, SlotSteps, GoTo, TypeOK
<1> QED
  BY <1>1, <1>2, <1>3, <1>4 DEF TaskStep

(* No step takes a job away from rest but its submission, a lost worker    *)
(* and a retry that is published more than once.                           *)
LEMMA RankStep ==
  ASSUME TypeOK, [Next]_vars, NEW j \in Jobs, Rank(j)' \in Nat
  PROVE  /\ MovesOn(j) /\ repeats'[j] = repeats[j] => Rank(j)' < Rank(j)
         /\ \/ Admit(j) \/ Publish(j) \/ CrashWorker
            \/ repeats'[j] > repeats[j] /\ \E w \in Slots : About(w, j)
            \/ Rank(j)' <= Rank(j)
<1>a. Rank(j) \in Nat /\ Rank(j)' \in Nat
  BY RankType
<1>1. ASSUME NEW w \in Slots, TaskStep(w) \/ KillProcess(w)
      PROVE  /\ About(w, j) => Rank(j)' < Rank(j) \/ repeats'[j] > repeats[j]
             /\ ~About(w, j) => Rank(j)' = Rank(j)
  BY <1>1, StepsAre, StepsAreDown, RetryIsDown
<1>2. MovesOn(j) /\ repeats'[j] = repeats[j] => Rank(j)' < Rank(j)
  <2>1. ~(repeats[j] > repeats[j])
    BY RepeatsAssumption DEF TypeOK
  <2> HIDE DEF Rank
  <2> QED
    BY <1>1, <2>1, DeliveryIsDown DEF MovesOn
<1>3. ASSUME NEW w \in Slots, TaskStep(w) \/ KillProcess(w)
      PROVE  \/ repeats'[j] > repeats[j] /\ About(w, j)
             \/ Rank(j)' <= Rank(j)
  <2>1. \/ repeats'[j] > repeats[j] /\ About(w, j)
        \/ Rank(j)' < Rank(j) \/ Rank(j)' = Rank(j)
    BY <1>1, <1>3
  <2> HIDE DEF Rank
  <2> QED
    BY <1>a, <2>1
<1>4. ASSUME Take PROVE Rank(j)' <= Rank(j)
  <2>1. PICK w \in Slots, k \in Jobs, r \in Attempts : Deliver(w, <<k, r>>)
    BY <1>4 DEF Take, Messages, Attempts
  <2>2. Rank(j)' < Rank(j) \/ Rank(j)' = Rank(j)
    BY <2>1, DeliveryIsDown
  <2> QED
    BY <1>a, <2>2
<1>5. ASSUME NEW k \in Jobs,
             \/ Refuse(k) \/ CreateJob(k)
             \/ k # j /\ (Admit(k) \/ Publish(k))
      PROVE  Rank(j)' <= Rank(j)
  <2>1. /\ UNCHANGED <<stage, holds>>
        /\ \A r \in Attempts : queue'[<<j, r>>] = queue[<<j, r>>]
    <3>1. \A r \in Attempts : <<j, r>> \in Messages
      BY DEF Messages, Attempts
    <3>2. ASSUME NEW n, Enqueue(k, 0, n), k # j
          PROVE  \A r \in Attempts : queue'[<<j, r>>] = queue[<<j, r>>]
      BY <3>1, <3>2 DEF Enqueue, TypeOK
    <3> QED
      BY <1>5, <3>2 DEF Refuse, CreateJob, Admit, Publish, Dispatch
  <2>2. Rank(j)' = Rank(j)
    BY <2>1, SameRank
  <2> QED
    BY <1>a, <2>2
<1>6. ASSUME UNCHANGED vars PROVE Rank(j)' <= Rank(j)
  <2>1. Rank(j)' = Rank(j)
    BY <1>6, SameRank DEF vars
  <2> QED
    BY <1>a, <2>1
<1>8. ASSUME EvictUnacked PROVE Rank(j)' <= Rank(j)
  <2>1. Rank(j)' = Rank(j)
    BY <1>8, SameRank DEF EvictUnacked
  <2> QED
    BY <1>a, <2>1
<1>7. \/ Admit(j) \/ Publish(j) \/ CrashWorker
      \/ repeats'[j] > repeats[j] /\ \E w \in Slots : About(w, j)
      \/ Rank(j)' <= Rank(j)
  BY <1>3, <1>4, <1>5, <1>6, <1>8, EvictionIsDown DEF Next, Handler
<1> QED
  BY <1>2, <1>7

(* Ranks stay numbers.                                                     *)
Ranked == \A j \in Jobs : Rank(j) \in Nat

LEMMA RanksAreNumbers == (TypeOK => Ranked) /\ (TypeOK' => Ranked')
<1>1. TypeOK => Ranked
  BY RankType DEF Ranked
<1> QED
  BY <1>1, PTL

(* A job that is worked on comes nearer to rest with every step, and only  *)
(* its submission, a lost worker and a retry that is published more than   *)
(* once take it away: retries cannot go round.                             *)
THEOREM JobsComeToRest == Spec => NobodyGoesRound
<1> DEFINE Down == \A j \in Jobs :
             /\ MovesOn(j) /\ repeats'[j] = repeats[j] => Rank(j)' < Rank(j)
             /\ Rank(j)' > Rank(j) =>
                  Admit(j) \/ Publish(j) \/ CrashWorker \/ repeats'[j] > repeats[j]
<1>1. TypeOK /\ TypeOK' /\ [Next]_vars => Down
  <2> SUFFICES ASSUME TypeOK, TypeOK', [Next]_vars, NEW j \in Jobs
               PROVE  /\ MovesOn(j) /\ repeats'[j] = repeats[j] =>
                           Rank(j)' < Rank(j)
                      /\ Rank(j)' > Rank(j) =>
                           \/ Admit(j) \/ Publish(j) \/ CrashWorker
                           \/ repeats'[j] > repeats[j]
    OBVIOUS
  <2>1. Rank(j) \in Nat /\ Rank(j)' \in Nat
    BY RanksAreNumbers DEF Ranked
  <2>2. ~(Rank(j)' <= Rank(j) /\ Rank(j)' > Rank(j))
    BY <2>1
  <2> QED
    BY <2>1, <2>2, RankStep
<1> QED
  BY <1>1, TypeCorrect, PTL DEF Spec, NobodyGoesRound

(* A job at rest has no copy anywhere.                                     *)
LEMMA AtRest ==
  ASSUME TypeOK, NEW j \in Jobs, Rank(j) = 0
  PROVE  /\ \A r \in Attempts : queue[<<j, r>>] = 0
         /\ \A w \in Slots : ~About(w, j)
         /\ Waiting(j) = 0 /\ Number(j) = 0
<1>1. Number(j) = 0 /\ ToDo(j) = 0 /\ Waiting(j) = 0
  BY RankType DEF Rank
<1>2. ASSUME NEW r \in Attempts PROVE queue[<<j, r>>] = 0
  <2> DEFINE q == CopyCount(j)
  <2>1. q \in [Attempts -> Nat] /\ q[r] = queue[<<j, r>>]
    BY WorkType DEF CopyCount
  <2>2. IsFiniteSet(Units(Attempts, q)) /\ Cardinality(Units(Attempts, q)) = 0
    BY <1>1, <2>1, CopiesOf DEF Number, Copies, CopyCount
  <2>3. Units(Attempts, q) = {}
    BY <2>2, FS_EmptySet
  <2> HIDE DEF q
  <2>4. ASSUME q[r] # 0 PROVE FALSE
    <3>1. 1 \in 1..q[r]
      BY <2>1, <2>4
    <3>2. <<r, 1>> \in Units(Attempts, q)
      BY <3>1, UnitsMember
    <3> QED
      BY <2>3, <3>2
  <2> QED
    BY <2>1, <2>4
<1>3. ASSUME NEW w \in Slots, About(w, j) PROVE FALSE
  <2>1. \A v \in Slots : Left(j)[v] \in Nat
    BY LeftIs
  <2>2. IsFiniteSet(Units(Slots, Left(j)))
    BY <2>1, SlotsAssumption, UnitsFinite
  <2>3. Units(Slots, Left(j)) = {}
    BY <1>1, <2>2, FS_EmptySet DEF ToDo
  <2>4. Left(j)[w] \in Nat /\ Left(j)[w] > 0
    <3>1. Left(j)[w] = StageRank[stage[w]]
      BY <1>3, LeftIs
    <3>2. stage[w] \in Stages \ {"idle"}
      BY <1>3 DEF TypeOK, About
    <3> QED
      BY <3>1, <3>2 DEF StageRank, Stages, AtWork
  <2>5. 1 \in 1..Left(j)[w]
    BY <2>4
  <2>6. <<w, 1>> \in Units(Slots, Left(j))
    BY <2>5, UnitsMember
  <2> QED
    BY <2>3, <2>6
<1> QED
  BY <1>1, <1>2, <1>3

-----------------------------------------------------------------------------
(* How rows change *)

(* How a step may change the rows: not at all, or one row in one of the    *)
(* ways the actions write it.                                              *)
Inserts(j) ==
  row[j] = NoRow /\ row'[j].status = "queued" /\ ~row'[j].report
Marks(j) ==
  /\ row[j].status # "absent" /\ row'[j].status = "running"
  /\ row'[j].report = row[j].report
  /\ \E w \in Slots : stage[w] = "started" /\ JobOf(w) = j
Completes(j) ==
  /\ row[j].status \in {"running", "completed", "failed"}
  /\ row'[j].status = "completed" /\ row'[j].report = TRUE
Fails(j) ==
  /\ row[j].status # "absent" /\ row'[j].status = "failed"
  /\ row'[j].report = row[j].report

LEMMA HowRowsChange ==
  ASSUME TypeOK, \A k \in Jobs : JobInv(k) /\ LoneInv(k), [Next]_vars
  PROVE  \/ row' = row
         \/ \E j \in Jobs :
              /\ \A k \in Jobs \ {j} : row'[k] = row[k]
              /\ Inserts(j) \/ Marks(j) \/ Completes(j) \/ Fails(j)
<1> DEFINE Goal == \/ row' = row
                   \/ \E j \in Jobs :
                        /\ \A k \in Jobs \ {j} : row'[k] = row[k]
                        /\ Inserts(j) \/ Marks(j) \/ Completes(j) \/ Fails(j)
<1>a. {"running", "failed"} \subseteq Statuses
  BY DEF Statuses
<1>b. ASSUME NEW j \in Jobs, NEW o, request[j] \in {"none", "creating"},
             Write(j, [NoRow EXCEPT !.status = "queued"], o)
      PROVE  Goal
  <2>1. CASE o = "lost"
    BY <1>b, <2>1 DEF Write
  <2>2. CASE o # "lost"
    <3>1. Inserts(j) /\ \A k \in Jobs \ {j} : row'[k] = row[k]
      BY <1>b, <2>2, WriteNew DEF Inserts, JobInv, TypeOK
    <3> QED
      BY <3>1
  <2> QED
    BY <2>1, <2>2
<1>c. ASSUME NEW w \in Slots, stage[w] # "idle"
      PROVE  JobOf(w) \in Jobs /\ row[JobOf(w)].status # "absent"
  BY <1>c, BusyHolds DEF JobInv, About
<1>1. ASSUME NEW j \in Jobs, Admit(j) PROVE Goal
  BY <1>1, <1>b DEF Admit
<1>2. ASSUME NEW j \in Jobs, CreateJob(j) PROVE Goal
  BY <1>2, <1>b DEF CreateJob
<1>3. ASSUME NEW w \in Slots, MarkRunning(w) PROVE Goal
  <2> PICK j \in Jobs : j = JobOf(w) /\ row[j].status # "absent"
    BY <1>3, <1>c DEF MarkRunning
  <2>1. PICK o \in WorkerOutcomes :
          Write(j, [row[j] EXCEPT !.status = "running"], o)
    BY <1>3 DEF MarkRunning
  <2>2. CASE o = "lost"
    BY <2>1, <2>2 DEF Write
  <2>3. CASE o # "lost"
    <3>1. Marks(j) /\ \A k \in Jobs \ {j} : row'[k] = row[k]
      BY <1>3, <1>a, <2>1, <2>3, WriteStatus DEF MarkRunning, Marks, TypeOK
    <3> QED
      BY <3>1
  <2> QED
    BY <2>2, <2>3
<1>4. ASSUME NEW w \in Slots, CompleteJob(w) PROVE Goal
  <2> PICK j \in Jobs : j = JobOf(w)
    BY <1>4, <1>c DEF CompleteJob
  <2>1. row[j].status \in {"running", "completed", "failed"}
    BY <1>4 DEF CompleteJob, JobInv, About
  <2>2. PICK o \in WorkerOutcomes :
          Write(j, [status |-> "completed", report |-> TRUE], o)
    BY <1>4 DEF CompleteJob
  <2>3. CASE o = "lost"
    BY <2>2, <2>3 DEF Write
  <2>4. CASE o # "lost"
    <3>1. Completes(j) /\ \A k \in Jobs \ {j} : row'[k] = row[k]
      BY <2>1, <2>2, <2>4, WriteReport DEF Completes, TypeOK
    <3> QED
      BY <3>1
  <2> QED
    BY <2>3, <2>4
<1>5. ASSUME NEW w \in Slots, FailJob(w) PROVE Goal
  <2> PICK j \in Jobs : j = JobOf(w) /\ row[j].status # "absent"
    BY <1>5, <1>c DEF FailJob
  <2>1. PICK o \in WorkerOutcomes :
          Write(j, [row[j] EXCEPT !.status = "failed"], o)
    BY <1>5 DEF FailJob
  <2>2. CASE o = "lost"
    BY <2>1, <2>2 DEF Write
  <2>3. CASE o # "lost"
    <3>1. Fails(j) /\ \A k \in Jobs \ {j} : row'[k] = row[k]
      BY <1>a, <2>1, <2>3, WriteStatus DEF Fails, TypeOK
    <3> QED
      BY <3>1
  <2> QED
    BY <2>2, <2>3
<1>6. ASSUME NEW j \in Jobs, Refuse(j) \/ Publish(j) PROVE Goal
  BY <1>6 DEF Refuse, Publish
<1>7. ASSUME NEW w \in Slots,
             \/ RunPipeline(w) \/ Retry(w) \/ Acknowledge(w) \/ KillProcess(w)
      PROVE  Goal
  BY <1>7 DEF RunPipeline, Retry, Acknowledge, KillProcess
<1>8. ASSUME \/ Take \/ CrashWorker \/ EvictQueue \/ EvictUnacked
             \/ UNCHANGED vars
      PROVE  Goal
  BY <1>8 DEF Take, Deliver, CrashWorker, EvictQueue, EvictUnacked, vars
<1> QED
  BY <1>1, <1>2, <1>3, <1>4, <1>5, <1>6, <1>7, <1>8 DEF Next, Handler, TaskStep

(* A finished job runs again only after a lost worker, for a copy too many *)
(* or for a retry.                                                         *)
THEOREM NoUncausedRerun == Spec => FinishedRunsAgainForACause
<1> DEFINE Agree == \A k \in Jobs : JobInv(k) /\ LoneInv(k)
           Caused == \A j \in Jobs :
             row[j].status \in {"completed", "failed"}
               /\ row'[j].status = "running" =>
             \/ crashes > 0 \/ repeats[j] > 0
             \/ \E w \in Slots :
                  stage[w] = "started" /\ JobOf(w) = j /\ RetriesOf(w) > 0
<1>1. TypeOK /\ Agree /\ [Next]_vars => Caused
  <2> SUFFICES ASSUME TypeOK, Agree, [Next]_vars, NEW j \in Jobs,
                      row[j].status \in {"completed", "failed"},
                      row'[j].status = "running",
                      crashes = 0, repeats[j] = 0
               PROVE  \E w \in Slots :
                        stage[w] = "started" /\ JobOf(w) = j /\ RetriesOf(w) > 0
    BY RepeatsAssumption DEF TypeOK
  <2>1. Marks(j)
    BY HowRowsChange DEF Inserts, Marks, Completes, Fails, NoRow
  <2>2. PICK w \in Slots : stage[w] = "started" /\ JobOf(w) = j
    BY <2>1 DEF Marks
  <2>3. RetriesOf(w) \in 0..MaxRetries /\ holds[w] = <<j, RetriesOf(w)>>
    BY <2>2, BusyHolds
  <2>4. holds[w] # <<j, 0>>
    BY <2>2 DEF LoneInv, Alone
  <2>5. RetriesOf(w) > 0
    BY <2>3, <2>4, RetriesAssumption
  <2> QED
    BY <2>2, <2>5
<1> QED
  BY <1>1, TypeCorrect, JobInvariant, PTL
  DEF Spec, FinishedRunsAgainForACause

(* A job a client was told about has a row, and keeps it.                  *)
Told == \A j \in Jobs : request[j] = "accepted" => row[j].status # "absent"

THEOREM AcceptedHaveRows == Spec => []Told
<1> DEFINE Agree == \A k \in Jobs : JobInv(k) /\ LoneInv(k)
<1>1. Init => Told
  BY DEF Init, Told
<1>2. TypeOK /\ Agree /\ Told /\ [Next]_vars => Told'
  <2> SUFFICES ASSUME TypeOK, Agree, Told, [Next]_vars, NEW j \in Jobs,
                      request'[j] = "accepted"
               PROVE  row'[j].status # "absent"
    BY DEF Told
  <2>1. row[j].status # "absent" => row'[j].status # "absent"
    BY HowRowsChange DEF Inserts, Marks, Completes, Fails
  <2>2. CASE request[j] = "accepted"
    BY <2>1, <2>2 DEF Told
  <2>3. CASE request[j] # "accepted"
    <3>1. Publish(j) \/ (Admit(j) /\ store = "memory")
      <4>1. request' # request
        BY <2>3
      <4> QED
        BY <2>3, <4>1 DEF Next, vars, Refuse, Admit, Handler, CreateJob, Publish,
           Dispatch, TaskStep, MarkRunning, RunPipeline, CompleteJob, FailJob,
           Retry, Acknowledge, KillProcess, Take, Deliver, CrashWorker,
           EvictQueue, EvictUnacked, TypeOK
    <3>2. CASE Publish(j)
      <4>1. row[j].status = "queued"
        BY <3>2 DEF Publish, JobInv
      <4> QED
        BY <2>1, <4>1
    <3>3. CASE Admit(j) /\ store = "memory"
      <4>1. Write(j, [NoRow EXCEPT !.status = "queued"], "ok") /\ row[j] = NoRow
        BY <3>3 DEF Admit, JobInv
      <4> QED
        BY <4>1, WriteNew DEF TypeOK
    <3> QED
      BY <3>1, <3>2, <3>3
  <2> QED
    BY <2>2, <2>3
<1> QED
  BY <1>1, <1>2, TypeCorrect, JobInvariant, PTL DEF Spec

(* What a page sees of a job depends on its request and its status.        *)
LEMMA SeenIs ==
  ASSUME NEW j \in Jobs
  PROVE  /\ request[j] # "accepted" => Seen(j) = "none"
         /\ request[j] = "accepted" =>
              Seen(j) = IF row[j].status = "absent" THEN "lost"
                        ELSE IF row[j].status \in {"queued", "running"}
                        THEN "running" ELSE row[j].status
         /\ request'[j] # "accepted" => Seen(j)' = "none"
         /\ request'[j] = "accepted" =>
              Seen(j)' = IF row'[j].status = "absent" THEN "lost"
                         ELSE IF row'[j].status \in {"queued", "running"}
                         THEN "running" ELSE row'[j].status
BY DEF Seen, Open

(* Each job is served to its page as ServedJob says: a row may end twice,  *)
(* but one a client was told about is never lost.                          *)
THEOREM WorkerServesPages == Spec => ServesPages
<1> DEFINE Agree == \A k \in Jobs : JobInv(k) /\ LoneInv(k)
           Steps == \A j \in Jobs : [Served(j)!Next]_(Seen(j))
           Begins == \A j \in Jobs : Served(j)!Init
<1>1. Init => Begins
  BY DEF Init, Seen, Served!Init
<1>2. TypeOK /\ Agree /\ Told /\ [Next]_vars => Steps
  <2> SUFFICES ASSUME TypeOK, Agree, Told, [Next]_vars, NEW j \in Jobs
               PROVE  Served(j)!Next \/ Seen(j)' = Seen(j)
    OBVIOUS
  <2> DEFINE Goal == Served(j)!Next \/ Seen(j)' = Seen(j)
  <2>a. ASSUME row'[j] = row[j], request'[j] = request[j] PROVE Goal
    BY <2>a, SeenIs
  <2>1. CASE request'[j] # request[j]
    <3>1. \/ Refuse(j) \/ CreateJob(j) \/ Publish(j)
          \/ Admit(j)
      <4>1. request' # request
        BY <2>1
      <4>2. PICK k \in Jobs : Refuse(k) \/ CreateJob(k) \/ Publish(k) \/ Admit(k)
        <5>1. ASSUME NEW w \in Slots, TaskStep(w) \/ KillProcess(w)
              PROVE  request' = request
          BY <5>1 DEF TaskStep, MarkRunning, RunPipeline, CompleteJob, FailJob,
             Retry, Acknowledge, KillProcess
        <5>2. Take \/ CrashWorker \/ EvictQueue \/ EvictUnacked => request' = request
          BY DEF Take, Deliver, CrashWorker, EvictQueue, EvictUnacked
        <5> QED
          BY <4>1, <5>1, <5>2 DEF Next, Handler, vars
      <4>3. j = k
        BY <2>1, <4>2 DEF Refuse, CreateJob, Publish, Admit, Dispatch, TypeOK
      <4> QED
        BY <4>2, <4>3
    <3>2. request[j] # "accepted"
      BY <3>1 DEF Refuse, CreateJob, Publish, Admit
    <3>3. CASE request'[j] # "accepted"
      BY <3>2, <3>3, SeenIs
    <3>4. CASE request'[j] = "accepted"
      <4>1. row'[j].status = "queued"
        <5>1. CASE Publish(j)
          BY <5>1 DEF Publish, JobInv
        <5>2. CASE Admit(j) /\ store = "memory"
          BY <5>2, WriteNew DEF Admit, TypeOK
        <5>3. CASE Refuse(j) \/ CreateJob(j) \/ (Admit(j) /\ store # "memory")
          BY <3>4, <5>3 DEF Refuse, CreateJob, Admit, TypeOK
        <5> QED
          BY <3>1, <5>1, <5>2, <5>3
      <4>2. Seen(j) = "none" /\ Seen(j)' = "running"
        BY <3>2, <3>4, <4>1, SeenIs
      <4> QED
        BY <4>2 DEF Served!Next, Served!Accept
    <3> QED
      BY <3>3, <3>4
  <2>2. CASE request'[j] = request[j] /\ request[j] # "accepted"
    BY <2>2, SeenIs
  <2>3. CASE request'[j] = request[j] /\ request[j] = "accepted"
    <3>1. row[j].status \in Statuses \ {"absent"}
      BY <2>3 DEF Told, TypeOK, Row
    <3>2. row'[j] = row[j] \/ Marks(j) \/ Completes(j) \/ Fails(j)
      BY <3>1, HowRowsChange DEF Inserts, NoRow
    <3>3. Seen(j) = "running" \/ Seen(j) \in {"completed", "failed"}
      BY <2>3, <3>1, SeenIs DEF Statuses
    <3>4. CASE Marks(j)
      <4>1. Seen(j)' = "running"
        BY <2>3, <3>4, SeenIs DEF Marks
      <4> QED
        BY <3>3, <4>1 DEF Served!Next, Served!Reopen, Served!Terminal
    <3>5. CASE Completes(j) \/ Fails(j)
      <4>1. Seen(j)' \in {"completed", "failed"}
        BY <2>3, <3>5, SeenIs DEF Completes, Fails
      <4> QED
        BY <3>3, <4>1
        DEF Served!Next, Served!End, Served!Reopen, Served!Terminal
    <3> QED
      BY <2>3, <2>a, <3>2, <3>4, <3>5
  <2> QED
    BY <2>1, <2>2, <2>3
<1> HIDE DEF Agree, Steps, Begins
<1>3. Spec => Begins /\ [][Steps]_vars
  BY <1>1, <1>2, TypeCorrect, JobInvariant, AcceptedHaveRows, PTL DEF Spec, Agree
<1> QED
  BY <1>3 DEF ServesPages, Steps, Begins

(* Rest is final: a job without copies is finished, or its loss is known,  *)
(* and neither a slot nor a lost worker changes it any more.  With         *)
(* JobsComeToRest this is what JobsSettleForGood needs beside fairness.    *)
THEOREM RestedJobsStay == Spec => RestIsFinal
<1> DEFINE Agree == \A k \in Jobs : JobInv(k) /\ LoneInv(k)
           Final == \A j \in Jobs : request[j] = "accepted" /\ Rank(j) = 0 =>
             /\ row[j].status \in {"completed", "failed"} \/ j \in abandoned
             /\ row'[j] = row[j] /\ Rank(j)' = 0
<1>1. TypeOK /\ TypeOK' /\ Agree /\ Told /\ [Next]_vars => Final
  <2> SUFFICES ASSUME TypeOK, TypeOK', Agree, Told, [Next]_vars, NEW j \in Jobs,
                      request[j] = "accepted", Rank(j) = 0
               PROVE  /\ row[j].status \in {"completed", "failed"} \/ j \in abandoned
                      /\ row'[j] = row[j] /\ Rank(j)' = 0
    OBVIOUS
  <2>1. /\ \A r \in Attempts : queue[<<j, r>>] = 0
        /\ \A w \in Slots : ~About(w, j)
        /\ Waiting(j) = 0 /\ Number(j) = 0
    BY AtRest
  <2>2. row[j].status \in {"completed", "failed"} \/ j \in abandoned
    <3>1. ~Attended(j)
      <4>1. ~Waits(j)
        <5>1. \A r \in Attempts : ~(queue[<<j, r>>] > 0)
          BY <2>1
        <5> QED
          BY <5>1 DEF Waits, Attempts
      <4> QED
        BY <2>1, <4>1 DEF Attended, About, AtWork
    <3>2. row[j].status \in Statuses /\ row[j].status # "absent"
      BY DEF Told, TypeOK, Row
    <3> QED
      BY <3>1, <3>2 DEF JobInv, Open, Statuses
  <2>3. ASSUME NEW w \in Slots, stage[w] # "idle" PROVE JobOf(w) # j
    BY <2>1, <2>3 DEF About
  <2>4. row'[j] = row[j]
    <3>1. ASSUME NEW k, k # j, NEW new, NEW o, Write(k, new, o)
          PROVE  row'[j] = row[j]
      BY <3>1 DEF Write, TypeOK
    <3>2. ASSUME NEW k \in Jobs, Refuse(k) \/ Admit(k) \/ Handler(k)
          PROVE  row'[j] = row[j]
      BY <3>1, <3>2 DEF Refuse, Admit, Handler, CreateJob, Publish
    <3>3. ASSUME NEW w \in Slots, MarkRunning(w) \/ CompleteJob(w) \/ FailJob(w)
          PROVE  row'[j] = row[j]
      <4>1. stage[w] # "idle"
        BY <3>3 DEF MarkRunning, CompleteJob, FailJob
      <4>2. JobOf(w) # j
        BY <2>3, <4>1
      <4> QED
        BY <3>1, <3>3, <4>2 DEF MarkRunning, CompleteJob, FailJob
    <3> QED
      BY <3>2, <3>3 DEF Next, TaskStep, RunPipeline, Retry, Acknowledge,
         KillProcess, Take, Deliver, CrashWorker, EvictQueue, EvictUnacked, vars
  <2>5. Rank(j)' = 0
    <3>1. Rank(j)' \in Nat
      BY RanksAreNumbers DEF Ranked
    <3>2. ~Admit(j) /\ ~Publish(j)
      BY DEF Admit, Publish
    <3>3. CASE CrashWorker
      <4>1. /\ \A w \in Slots : stage'[w] = "idle"
            /\ \A r \in Attempts : queue'[<<j, r>>] = queue[<<j, r>>]
        <5>1. ASSUME NEW r \in Attempts PROVE queue'[<<j, r>>] = queue[<<j, r>>]
          <6>1. {w \in unacked : holds[w] = <<j, r>>} = {}
            <7> SUFFICES ASSUME NEW w \in unacked, holds[w] = <<j, r>> PROVE FALSE
              OBVIOUS
            <7>1. w \in Slots /\ stage[w] # "idle" /\ JobOf(w) = j
              BY DEF JobOf, TypeOK
            <7> QED
              BY <2>1, <7>1 DEF About
          <6>2. Cardinality({w \in unacked : holds[w] = <<j, r>>}) = 0
            BY <6>1, FS_EmptySet
          <6>3. /\ <<j, r>> \in Messages /\ queue[<<j, r>>] = 0
                /\ queue'[<<j, r>>] = queue[<<j, r>>] +
                     Cardinality({w \in unacked : holds[w] = <<j, r>>})
            BY <2>1, <3>3 DEF CrashWorker, Messages, Attempts
          <6> QED
            BY <6>2, <6>3
        <5> QED
          BY <3>3, <5>1 DEF CrashWorker
      <4>2. Waiting(j)' = 0 /\ Number(j)' = 0
        BY <2>1, <4>1, SameNumber
      <4>3. Underway(j)' = 0 /\ ToDo(j)' = 0
        <5>1. \A w \in Slots : ~About(w, j)'
          BY <4>1 DEF About
        <5>2. \A w \in Slots : Owed(j)'[w] = 0 /\ Left(j)'[w] = 0
          BY <5>1 DEF Owed, Left
        <5> QED
          BY <5>2, UnitsNone DEF Underway, ToDo
      <4> QED
        BY <4>2, <4>3 DEF Rank
    <3>4. CASE Rank(j)' <= Rank(j)
      BY <3>1, <3>4
    <3> QED
      BY <2>1, <3>1, <3>2, <3>3, <3>4, RankStep
  <2> QED
    BY <2>2, <2>4, <2>5
<1> QED
  BY <1>1, TypeCorrect, JobInvariant, AcceptedHaveRows, PTL
  DEF Spec, RestIsFinal

(* The feed is written with the report.                                    *)
LEMMA FeedOfReport == FeedOf[FALSE] = 0 /\ FeedOf[TRUE] = 1
BY DEF FeedOf

(* When one row changes, what a client sees changes for that job only.     *)
LEMMA OneRow ==
  ASSUME NEW j \in Jobs, \A k \in Jobs \ {j} : row'[k] = row[k]
  PROVE  /\ [k \in Jobs |-> row'[k].status] =
              [[k \in Jobs |-> row[k].status] EXCEPT ![j] = row'[j].status]
         /\ [k \in Jobs |-> row'[k].report] =
              [[k \in Jobs |-> row[k].report] EXCEPT ![j] = row'[j].report]
         /\ [k \in Jobs |-> FeedOf[row'[k].report]] =
              [[k \in Jobs |-> FeedOf[row[k].report]] EXCEPT ![j] = FeedOf[row'[j].report]]
OBVIOUS

(* The worker implements the lifecycle of a broker that delivers at least  *)
(* once: each change of a row is a step of it.                             *)
THEOREM WorkerKeepsLifecycle == Spec => KeepsLifecycle
<1> DEFINE Agree == \A k \in Jobs : JobInv(k) /\ LoneInv(k)
           seen == <<[j \in Jobs |-> row[j].status],
                     [j \in Jobs |-> row[j].report],
                     [j \in Jobs |-> FeedOf[row[j].report]], FALSE>>
           Step == Lifecycle!Next \/ \E j \in Jobs : Lifecycle!Again(j)
<1>1. Init => Lifecycle!Init
  <2> SUFFICES ASSUME Init PROVE Lifecycle!Init
    OBVIOUS
  <2>1. \A j \in Jobs : row[j].status = "absent" /\ row[j].report = FALSE
    BY DEF Init, NoRow
  <2>2. \A j \in Jobs : FeedOf[row[j].report] = 0
    BY <2>1, FeedOfReport, Zenon
  <2> QED
    BY <2>1, <2>2 DEF Lifecycle!Init
<1>2. TypeOK /\ TypeOK' /\ Agree /\ [Next]_vars
        => [Step]_(Lifecycle!lifecycle)
  <2> SUFFICES ASSUME TypeOK, TypeOK', Agree, [Next]_vars
               PROVE  Step \/ UNCHANGED seen
    BY DEF Lifecycle!lifecycle
  <2>1. CASE row' = row
    BY <2>1
  <2>2. CASE row' # row
    <3>1. PICK j \in Jobs :
            /\ \A k \in Jobs \ {j} : row'[k] = row[k]
            /\ Inserts(j) \/ Marks(j) \/ Completes(j) \/ Fails(j)
      BY <2>2, HowRowsChange
    <3>2. /\ row[j].report \in BOOLEAN /\ row'[j].report \in BOOLEAN
          /\ row[j].status \in Statuses
      BY DEF TypeOK, Row
    <3>3. CASE row'[j].report = row[j].report
                /\ row'[j].status = row[j].status
      BY <3>1, <3>3
    <3>4. CASE Inserts(j)
      <4>1. /\ row[j].status = "absent" /\ row'[j].status = "queued"
            /\ ~row[j].report /\ ~row'[j].report
        BY <3>4 DEF Inserts, NoRow
      <4>2. /\ UNCHANGED [k \in Jobs |-> row[k].report]
            /\ UNCHANGED [k \in Jobs |-> FeedOf[row[k].report]]
        <5>1. row'[j].report = row[j].report
          BY <3>2, <4>1
        <5> QED
          BY <3>1, <4>1, <5>1
      <4>3. Lifecycle!Submit(j)
        BY <3>1, <4>1, <4>2, OneRow DEF Lifecycle!Submit
      <4> QED
        BY <4>3 DEF Lifecycle!Next
    <3>5. CASE Marks(j) /\ row[j].status # "running"
      <4>1. Lifecycle!Begin(j) \/ Lifecycle!Again(j)
        BY <3>1, <3>2, <3>5
        DEF Marks, Statuses, Lifecycle!Begin, Lifecycle!Again
      <4> QED
        BY <4>1 DEF Lifecycle!Next
    <3>6. CASE Completes(j)
      <4>1. /\ row[j].status \in {"running", "completed", "failed"}
            /\ row'[j].status = "completed" /\ row'[j].report = TRUE
        BY <3>6 DEF Completes
      <4>2. Lifecycle!FeedGrows(j)
        <5>1. FeedOf[row'[j].report] = 1 /\ FeedOf[row[j].report] \in {0, 1}
          <6>1. row'[j].report = TRUE /\ row[j].report \in {TRUE, FALSE}
            BY <3>2, <4>1
          <6> QED
            BY <6>1, FeedOfReport
        <5>2. FeedOf[row'[j].report] \in Nat
                /\ FeedOf[row'[j].report] >= FeedOf[row[j].report]
          BY <5>1
        <5>3. /\ [k \in Jobs |-> FeedOf[row'[k].report]][j]
                     = FeedOf[row'[j].report]
              /\ [k \in Jobs |-> FeedOf[row[k].report]][j]
                     = FeedOf[row[j].report]
          OBVIOUS
        <5> QED
          BY <3>1, <5>2, <5>3, OneRow DEF Lifecycle!FeedGrows
      <4>3. CASE row[j].status = "running"
        <5>1. Lifecycle!Complete(j)
          BY <3>1, <4>1, <4>2, <4>3, OneRow DEF Lifecycle!Complete
        <5> QED
          BY <5>1 DEF Lifecycle!Next
      <4>4. CASE row[j].status \in {"completed", "failed"}
        <5>1. Lifecycle!Again(j)
          BY <3>1, <4>1, <4>2, <4>4, OneRow DEF Lifecycle!Again
        <5> QED
          BY <5>1
      <4> QED
        BY <4>1, <4>3, <4>4
    <3>7. CASE Fails(j) /\ row[j].status # "failed"
      <4>1. Lifecycle!Fail(j)
        BY <3>1, <3>2, <3>7 DEF Fails, Statuses, Lifecycle!Fail
      <4> QED
        BY <4>1 DEF Lifecycle!Next
    <3> QED
      BY <3>1, <3>3, <3>4, <3>5, <3>6, <3>7 DEF Marks, Fails
  <2> QED
    BY <2>1, <2>2
<1> QED
  BY <1>1, <1>2, TypeCorrect, JobInvariant, PTL
  DEF Spec, KeepsLifecycle, Lifecycle!AtLeastOnce
=============================================================================
