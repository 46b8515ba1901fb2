----------------------------- MODULE JobLifecycle -----------------------------
(***************************************************************************)
(* What a client of the API may see of a job, whoever runs it: the job is  *)
(* queued, runs, and is completed with a report or fails; its feed only    *)
(* grows.  A job never goes back.  A result whose write was applied but    *)
(* reported as an error may still be turned into a failure.                *)
(*                                                                         *)
(* A broker that delivers at least once promises less: AtLeastOnce.        *)
(***************************************************************************)
EXTENDS Naturals

CONSTANT Jobs

VARIABLES
  status,     \* of each job, "absent" before it is submitted
  reported,   \* does a job's row hold a report?
  feed,       \* how much of the activity feed the row shows
  volatile    \* are the rows lost when the server stops?

lifecycle == <<status, reported, feed, volatile>>

Init ==
  /\ status = [j \in Jobs |-> "absent"]
  /\ reported = [j \in Jobs |-> FALSE]
  /\ feed = [j \in Jobs |-> 0]
  /\ volatile \in BOOLEAN

Submit(j) ==
  /\ status[j] = "absent"
  /\ status' = [status EXCEPT ![j] = "queued"]
  /\ UNCHANGED <<reported, feed, volatile>>

Begin(j) ==
  /\ status[j] = "queued"
  /\ status' = [status EXCEPT ![j] = "running"]
  /\ UNCHANGED <<reported, feed, volatile>>

FeedGrows(j) ==
  /\ feed'[j] \in Nat /\ feed'[j] >= feed[j]
  /\ feed' = [feed EXCEPT ![j] = feed'[j]]

Progress(j) ==
  /\ status[j] = "running"
  /\ FeedGrows(j)
  /\ UNCHANGED <<status, reported, volatile>>

Complete(j) ==
  /\ status[j] = "running"
  /\ status' = [status EXCEPT ![j] = "completed"]
  /\ reported' = [reported EXCEPT ![j] = TRUE]
  /\ FeedGrows(j)
  /\ UNCHANGED volatile

Fail(j) ==
  /\ status[j] \in {"queued", "running", "completed"}
  /\ status' = [status EXCEPT ![j] = "failed"]
  /\ UNCHANGED <<reported, feed, volatile>>

Forget ==
  /\ volatile
  /\ status' = [j \in Jobs |-> "absent"]
  /\ reported' = [j \in Jobs |-> FALSE]
  /\ feed' = [j \in Jobs |-> 0]
  /\ UNCHANGED volatile

Next ==
  \/ \E j \in Jobs :
       Submit(j) \/ Begin(j) \/ Progress(j) \/ Complete(j) \/ Fail(j)
  \/ Forget

Spec == Init /\ [][Next]_lifecycle

(* A finished job is run again, or another run of it completes.            *)
Again(j) ==
  /\ status[j] \in {"completed", "failed"}
  /\ UNCHANGED volatile
  /\ \/ /\ status' = [status EXCEPT ![j] = "running"]
        /\ UNCHANGED <<reported, feed>>
     \/ /\ status' = [status EXCEPT ![j] = "completed"]
        /\ reported' = [reported EXCEPT ![j] = TRUE]
        /\ FeedGrows(j)

AtLeastOnce == Init /\ [][Next \/ \E j \in Jobs : Again(j)]_lifecycle
=============================================================================
