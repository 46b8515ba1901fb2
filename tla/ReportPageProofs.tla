--------------------------- MODULE ReportPageProofs --------------------------
(***************************************************************************)
(* The safety properties of ReportPage, for any number of jobs, any length *)
(* of the recording, and any number of overlapping polls, failures, resets *)
(* and reopened rows.                                                      *)
(***************************************************************************)
EXTENDS ReportPage, TLAPS

Kinds == {"asked"} \cup Answers

(* The requests of a job, as numbers without a bound.                      *)
Counted ==
  /\ polls \in [Jobs -> [Kinds -> Nat]]
  /\ fetching \in [Jobs -> Nat]

LEMMA TypesCount ==
  ASSUME TypeOK
  PROVE  /\ Counted
         /\ \A j \in Jobs : UnderWay(j) \in Nat
<1> USE PageAssumption
<1>1. polls \in [Jobs -> [Kinds -> Nat]]
  <2>1. polls \in [Jobs -> [Kinds -> 0..MaxPolls]]
    BY DEF TypeOK, Kinds
  <2>2. \A f \in [Kinds -> 0..MaxPolls] : f \in [Kinds -> Nat]
    OBVIOUS
  <2> QED
    BY <2>1, <2>2
<1>2. fetching \in [Jobs -> Nat]
  BY DEF TypeOK
<1> QED
  BY <1>1, <1>2 DEF Counted, UnderWay, Kinds, Answers, Terminal

(* Whoever counts the requests of each job bounds each kind of them.       *)
LEMMA CountedTypes ==
  ASSUME Counted, \A j \in Jobs : UnderWay(j) <= MaxPolls
  PROVE  /\ polls \in [Jobs -> [{"asked"} \cup Answers -> 0..MaxPolls]]
         /\ fetching \in [Jobs -> 0..MaxPolls]
<1> USE PageAssumption
<1>1. ASSUME NEW j \in Jobs
      PROVE  /\ fetching[j] \in 0..MaxPolls
             /\ \A a \in Kinds : polls[j][a] \in 0..MaxPolls
  <2>1. /\ polls[j]["asked"] \in Nat /\ polls[j]["running"] \in Nat
        /\ polls[j]["error"] \in Nat /\ polls[j]["completed"] \in Nat
        /\ polls[j]["failed"] \in Nat /\ fetching[j] \in Nat
    BY DEF Counted, Kinds, Answers, Terminal
  <2>2. UnderWay(j) <= MaxPolls
    OBVIOUS
  <2> QED
    BY <2>1, <2>2 DEF UnderWay, Kinds, Answers, Terminal
<1>2. polls \in [Jobs -> [Kinds -> 0..MaxPolls]]
  BY <1>1 DEF Counted
<1> QED
  BY <1>1, <1>2 DEF Counted, Kinds

(* How the requests of one job change, and those of the others stay.       *)
LEMMA PollCounts ==
  ASSUME TypeOK, NEW j \in Jobs, Poll(j)
  PROVE  /\ Counted'
         /\ \A k \in Jobs \ {j} : /\ polls'[k] = polls[k]
                                 /\ UnderWay(k)' = UnderWay(k)
         /\ UnderWay(j)' = UnderWay(j) + 1
         /\ polls'[j]["completed"] = polls[j]["completed"]
         /\ polls'[j]["failed"] = polls[j]["failed"]
<1>1. polls' = [polls EXCEPT ![j] = [polls[j] EXCEPT !["asked"] = @ + 1]]
      /\ fetching' = fetching
  BY DEF Poll
<1>2. Counted
  BY TypesCount
<1>3. polls'[j] = [polls[j] EXCEPT !["asked"] = @ + 1]
      /\ \A k \in Jobs \ {j} : polls'[k] = polls[k]
  BY <1>1, <1>2 DEF Counted
<1>4. [polls[j] EXCEPT !["asked"] = @ + 1] \in [Kinds -> Nat]
  BY <1>2 DEF Counted, Kinds
<1> QED
  BY <1>1, <1>2, <1>3, <1>4 DEF Counted, UnderWay, Kinds, Answers, Terminal

(* An answer says what the row is, or nothing.                             *)
LEMMA AnswerCounts ==
  ASSUME TypeOK, NEW j \in Jobs, AnswerPoll(j), row[j] # "none"
  PROVE  /\ Counted'
         /\ \A k \in Jobs \ {j} : /\ polls'[k] = polls[k]
                                 /\ UnderWay(k)' = UnderWay(k)
         /\ UnderWay(j)' = UnderWay(j)
         /\ polls'[j]["completed"] > 0
              => polls[j]["completed"] > 0 \/ row[j] = "completed"
         /\ polls'[j]["failed"] > 0
              => polls[j]["failed"] > 0 \/ row[j] = "failed"
<1>1. PICK x \in Answers :
        /\ polls' = [polls EXCEPT ![j] =
                       [polls[j] EXCEPT !["asked"] = polls[j]["asked"] - 1,
                                        ![x] = polls[j][x] + 1]]
        /\ x \in {"completed", "failed"} => row[j] = x
  <2>1. \A x \in Answers : x # "asked"
    BY DEF Answers, Terminal
  <2>2. row[j] \in {"running", "completed", "failed", "lost"}
    BY DEF TypeOK, Rows, Terminal
  <2>3. PICK x \in Answers :
          /\ polls' = [polls EXCEPT ![j]["asked"] = @ - 1, ![j][x] = @ + 1]
          /\ x \in {"completed", "failed"} => row[j] = x
    BY <2>2 DEF AnswerPoll, Told, Answers, Terminal
  <2> QED
    BY <2>1, <2>3, TypesCount DEF Counted
<1>2. fetching' = fetching /\ Counted /\ polls[j]["asked"] > 0
  BY TypesCount DEF AnswerPoll
<1>3. polls'[j] = [polls[j] EXCEPT !["asked"] = polls[j]["asked"] - 1,
                                   ![x] = polls[j][x] + 1]
      /\ \A k \in Jobs \ {j} : polls'[k] = polls[k]
  BY <1>1, <1>2 DEF Counted
<1>4. polls'[j] \in [Kinds -> Nat]
  BY <1>2, <1>3 DEF Counted, Kinds, Answers, Terminal
<1>5. Counted'
  BY <1>1, <1>2, <1>4 DEF Counted
<1>6. \A k \in Jobs \ {j} : UnderWay(k)' = UnderWay(k)
  BY <1>2, <1>3 DEF UnderWay
<1>7. /\ polls'[j]["asked"] = polls[j]["asked"] - 1
      /\ polls'[j][x] = polls[j][x] + 1
      /\ \A y \in Answers \ {x} : polls'[j][y] = polls[j][y]
  BY <1>2, <1>3 DEF Counted, Kinds, Answers, Terminal
<1>8. UnderWay(j)' = UnderWay(j)
  <2>1. \A y \in Kinds : polls[j][y] \in Nat
    BY <1>2 DEF Counted
  <2>2. fetching[j] \in Nat
    BY <1>2 DEF Counted
  <2>3. CASE x = "running"
    BY <1>2, <1>7, <2>1, <2>2, <2>3 DEF UnderWay, Kinds, Answers, Terminal
  <2>4. CASE x = "error"
    BY <1>2, <1>7, <2>1, <2>2, <2>4 DEF UnderWay, Kinds, Answers, Terminal
  <2>5. CASE x = "completed"
    BY <1>2, <1>7, <2>1, <2>2, <2>5 DEF UnderWay, Kinds, Answers, Terminal
  <2>6. CASE x = "failed"
    BY <1>2, <1>7, <2>1, <2>2, <2>6 DEF UnderWay, Kinds, Answers, Terminal
  <2> QED
    BY <2>3, <2>4, <2>5, <2>6 DEF Answers, Terminal
<1>9. /\ polls'[j]["completed"] > 0
           => polls[j]["completed"] > 0 \/ row[j] = "completed"
      /\ polls'[j]["failed"] > 0 => polls[j]["failed"] > 0 \/ row[j] = "failed"
  BY <1>1, <1>7 DEF Answers, Terminal
<1> QED
  BY <1>3, <1>5, <1>6, <1>8, <1>9

(* What is read is no longer under way; a report may be asked for instead. *)
LEMMA ReadCounts ==
  ASSUME TypeOK, NEW j \in Jobs, NEW a \in Answers, Read(j, a)
  PROVE  /\ polls' \in [Jobs -> [Kinds -> Nat]]
         /\ \A k \in Jobs \ {j} : polls'[k] = polls[k]
         /\ polls'[j][a] = polls[j][a] - 1 /\ polls[j][a] > 0
         /\ \A y \in Kinds \ {a} : polls'[j][y] = polls[j][y]
         /\ fetching' = fetching =>
              /\ UnderWay(j) > 0 /\ UnderWay(j)' = UnderWay(j) - 1
              /\ \A k \in Jobs \ {j} : UnderWay(k)' = UnderWay(k)
         /\ fetching' = [fetching EXCEPT ![j] = @ + 1] =>
              /\ UnderWay(j) > 0 /\ UnderWay(j)' = UnderWay(j)
              /\ \A k \in Jobs \ {j} : UnderWay(k)' = UnderWay(k)
<1>1. polls' = [polls EXCEPT ![j] = [polls[j] EXCEPT ![a] = @ - 1]]
      /\ polls[j][a] > 0
  BY DEF Read
<1>2. Counted /\ a \in Kinds
  BY TypesCount DEF Kinds
<1>3. /\ polls'[j] = [polls[j] EXCEPT ![a] = @ - 1]
      /\ \A k \in Jobs \ {j} : polls'[k] = polls[k]
  BY <1>1, <1>2 DEF Counted
<1>4. polls'[j] \in [Kinds -> Nat]
  BY <1>1, <1>2, <1>3 DEF Counted
<1>5. polls' \in [Jobs -> [Kinds -> Nat]]
  BY <1>1, <1>2, <1>4 DEF Counted
<1>6. /\ polls'[j][a] = polls[j][a] - 1
      /\ \A y \in Kinds \ {a} : polls'[j][y] = polls[j][y]
  BY <1>2, <1>3 DEF Counted
<1> DEFINE Sum(p) == p["asked"] + p["running"] + p["error"] + p["completed"]
                       + p["failed"]
<1>8. /\ Sum(polls'[j]) = Sum(polls[j]) - 1
      /\ Sum(polls[j]) \in Nat /\ Sum(polls[j]) > 0
  <2>1. \A y \in Kinds : polls[j][y] \in Nat
    BY <1>2 DEF Counted
  <2>2. CASE a = "running"
    BY <1>1, <1>6, <2>1, <2>2 DEF Kinds, Answers, Terminal
  <2>3. CASE a = "error"
    BY <1>1, <1>6, <2>1, <2>3 DEF Kinds, Answers, Terminal
  <2>4. CASE a = "completed"
    BY <1>1, <1>6, <2>1, <2>4 DEF Kinds, Answers, Terminal
  <2>5. CASE a = "failed"
    BY <1>1, <1>6, <2>1, <2>5 DEF Kinds, Answers, Terminal
  <2> QED
    BY <2>2, <2>3, <2>4, <2>5 DEF Answers, Terminal
<1>9. /\ \A k \in Jobs : UnderWay(k) = Sum(polls[k]) + fetching[k]
      /\ \A k \in Jobs : UnderWay(k)' = Sum(polls'[k]) + fetching'[k]
  BY DEF UnderWay
<1>10. fetching[j] \in Nat
  BY <1>2 DEF Counted
<1> HIDE DEF Sum
<1>11. ASSUME fetching' = fetching
       PROVE  /\ UnderWay(j) > 0 /\ UnderWay(j)' = UnderWay(j) - 1
              /\ \A k \in Jobs \ {j} : UnderWay(k)' = UnderWay(k)
  BY <1>3, <1>8, <1>9, <1>10, <1>11
<1>12. ASSUME fetching' = [fetching EXCEPT ![j] = @ + 1]
       PROVE  /\ UnderWay(j) > 0 /\ UnderWay(j)' = UnderWay(j)
              /\ \A k \in Jobs \ {j} : UnderWay(k)' = UnderWay(k)
  <2>1. /\ fetching'[j] = fetching[j] + 1
        /\ \A k \in Jobs \ {j} : fetching'[k] = fetching[k]
    BY <1>2, <1>12 DEF Counted
  <2> QED
    BY <1>3, <1>8, <1>9, <1>10, <2>1
<1> QED
  BY <1>1, <1>3, <1>5, <1>6, <1>11, <1>12

(* A report that came, or did not, is no longer under way.                 *)
LEMMA FetchCounts ==
  ASSUME TypeOK, NEW j \in Jobs, fetching[j] > 0,
         fetching' = [fetching EXCEPT ![j] = @ - 1], polls' = polls
  PROVE  /\ Counted'
         /\ \A k \in Jobs \ {j} : /\ fetching'[k] = fetching[k]
                                 /\ UnderWay(k)' = UnderWay(k)
         /\ UnderWay(j) > 0 /\ UnderWay(j)' = UnderWay(j) - 1
<1>1. Counted
  BY TypesCount
<1>2. /\ fetching'[j] = fetching[j] - 1
      /\ \A k \in Jobs \ {j} : fetching'[k] = fetching[k]
      /\ fetching' \in [Jobs -> Nat]
  BY <1>1 DEF Counted
<1>3. \A y \in Kinds : polls[j][y] \in Nat
  BY <1>1 DEF Counted
<1>4. fetching[j] \in Nat
  BY <1>1 DEF Counted
<1> QED
  BY <1>1, <1>2, <1>3, <1>4 DEF Counted, UnderWay, Kinds, Answers, Terminal

-----------------------------------------------------------------------------
(* What the counts of a step come from: the requests of one job change as  *)
(* the lemmas say, or none do.                                             *)
LEMMA SameCounts ==
  ASSUME TypeOK, polls' = polls, fetching' = fetching
  PROVE  Counted' /\ \A k \in Jobs : UnderWay(k)' = UnderWay(k)
<1>1. Counted
  BY TypesCount
<1> QED
  BY <1>1 DEF Counted, UnderWay

(* A job of which there is no row has nothing under way, which is why an   *)
(* answer is always one of the four.                                       *)
Unstarted ==
  \A j \in Jobs :
    /\ j \in starting => j \in submitted
    /\ j \in starting \/ j \notin submitted => row[j] = "none"
    /\ row[j] = "none" => j \notin intervals /\ UnderWay(j) = 0

LEMMA AskedHasRow ==
  ASSUME TypeOK, Unstarted, NEW j \in Jobs, NEW a \in Kinds, polls[j][a] > 0
  PROVE  row[j] # "none"
<1>1. Counted
  BY TypesCount
<1>2. \A y \in Kinds : polls[j][y] \in Nat
  BY <1>1 DEF Counted
<1>3. fetching[j] \in Nat
  BY <1>1 DEF Counted
<1>4. UnderWay(j) # 0
  <2>1. CASE a = "asked"
    BY <1>2, <1>3, <2>1 DEF UnderWay, Kinds, Answers, Terminal
  <2>2. CASE a = "running"
    BY <1>2, <1>3, <2>2 DEF UnderWay, Kinds, Answers, Terminal
  <2>3. CASE a = "error"
    BY <1>2, <1>3, <2>3 DEF UnderWay, Kinds, Answers, Terminal
  <2>4. CASE a = "completed"
    BY <1>2, <1>3, <2>4 DEF UnderWay, Kinds, Answers, Terminal
  <2>5. CASE a = "failed"
    BY <1>2, <1>3, <2>5 DEF UnderWay, Kinds, Answers, Terminal
  <2> QED
    BY <2>1, <2>2, <2>3, <2>4, <2>5 DEF Kinds, Answers, Terminal
<1> QED
  BY <1>4 DEF Unstarted

LEMMA FetchedHasRow ==
  ASSUME TypeOK, Unstarted, NEW j \in Jobs, fetching[j] > 0
  PROVE  row[j] # "none"
<1>1. Counted
  BY TypesCount
<1>2. \A y \in Kinds : polls[j][y] \in Nat
  BY <1>1 DEF Counted
<1>3. fetching[j] \in Nat
  BY <1>1 DEF Counted
<1>4. UnderWay(j) # 0
  BY <1>2, <1>3 DEF UnderWay, Kinds, Answers, Terminal
<1> QED
  BY <1>4 DEF Unstarted

(* The part of Unstarted and TypeOK that counts requests.                  *)
CountInv ==
  /\ Counted
  /\ \A j \in Jobs : UnderWay(j) <= MaxPolls
  /\ Unstarted

LEMMA StepCounts ==
  ASSUME TypeOK, Unstarted, [Next]_vars
  PROVE  CountInv'
<1> USE PageAssumption
<1>1. /\ \A k \in Jobs : UnderWay(k) \in Nat /\ UnderWay(k) <= MaxPolls
      /\ row \in [Jobs -> Rows]
  BY TypesCount DEF TypeOK
<1>2. ASSUME polls' = polls, fetching' = fetching,
             intervals' \subseteq intervals, starting' = starting,
             submitted' = submitted, row' = row
      PROVE  CountInv'
  BY <1>1, <1>2, SameCounts DEF CountInv, Unstarted
<1>3. CASE User
  <2>1. CASE Reset
    BY <1>2, <2>1 DEF Reset, StopPolling
  <2>2. CASE Play
    BY <1>2, <2>2 DEF Play, live
  <2>3. CASE Skip
    BY <1>2, <2>3 DEF Skip, live
  <2>4. ASSUME NEW j \in Jobs, Submit(j)
        PROVE  CountInv'
    BY <1>1, <2>4, SameCounts
    DEF Submit, StopPolling, CountInv, Unstarted
  <2> QED
    BY <1>3, <2>1, <2>2, <2>3, <2>4 DEF User
<1>4. CASE Server
  <2> SUFFICES ASSUME NEW j \in Jobs, EndJob(j) \/ Reopen(j) \/ LoseJob(j)
               PROVE  CountInv'
    BY <1>2, <1>4 DEF Server, GoSilent, Abandon, live
  <2>1. EndJob(j) \/ Reopen(j) \/ LoseJob(j)
    OBVIOUS
  <2>2. /\ row[j] # "none" /\ row'[j] # "none"
        /\ \A k \in Jobs \ {j} : row'[k] = row[k]
    BY <1>1, <2>1 DEF EndJob, Reopen, LoseJob, Terminal
  <2>3. UNCHANGED <<polls, fetching, intervals, starting, submitted>>
    BY <2>1 DEF EndJob, Reopen, LoseJob
  <2>4. Counted' /\ \A k \in Jobs : UnderWay(k)' = UnderWay(k)
    BY <2>3, SameCounts
  <2> QED
    BY <1>1, <2>2, <2>3, <2>4 DEF CountInv, Unstarted
<1>5. CASE Player
  BY <1>2, <1>5
  DEF Player, FetchRecording, ScheduleFrames, FailStart, ShowResult,
      FailSkip, ShowFrame, live
<1>6. ASSUME NEW j \in Jobs, Page(j)
      PROVE  CountInv'
  <2>1. CASE StartPolling(j)
    BY <1>1, <2>1, SameCounts DEF StartPolling, Touch, CountInv, Unstarted
  <2>2. CASE RefuseJob(j)
    BY <1>1, <2>2, SameCounts DEF RefuseJob, Touch, CountInv, Unstarted
  <2>3. CASE Poll(j)
    <3>1. /\ j \in intervals /\ UnderWay(j) < MaxPolls
          /\ UNCHANGED <<row, starting, intervals, submitted>>
      BY <2>3 DEF Poll, Touch
    <3> QED
      BY <1>1, <2>3, <3>1, PollCounts DEF CountInv, Unstarted
  <2>4. CASE AnswerPoll(j)
    <3>1. /\ polls[j]["asked"] > 0
          /\ UNCHANGED <<row, starting, intervals, submitted>>
      BY <2>4 DEF AnswerPoll, Touch
    <3>2. row[j] # "none"
      BY <3>1, AskedHasRow DEF Kinds
    <3> QED
      BY <1>1, <2>4, <3>1, <3>2, AnswerCounts DEF CountInv, Unstarted
  <2>5. ASSUME NEW a \in Answers, Read(j, a), fetching' = fetching,
               intervals' \subseteq intervals,
               UNCHANGED <<row, starting, submitted>>
        PROVE  CountInv'
    <3>1. row[j] # "none"
      BY <2>5, AskedHasRow DEF Read, Kinds
    <3>2. Counted'
      BY <2>5, ReadCounts, TypesCount DEF Counted
    <3>3. /\ UnderWay(j) > 0 /\ UnderWay(j)' = UnderWay(j) - 1
          /\ \A k \in Jobs \ {j} : UnderWay(k)' = UnderWay(k)
      BY <2>5, ReadCounts
    <3> QED
      BY <1>1, <2>5, <3>1, <3>2, <3>3 DEF CountInv, Unstarted
  <2>6. CASE ReadRunning(j)
    BY <2>5, <2>6 DEF ReadRunning, Touch, Answers
  <2>7. CASE ReadFailed(j)
    BY <2>5, <2>7 DEF ReadFailed, Touch, StopPolling, Answers, Terminal
  <2>8. CASE ReadError(j)
    BY <2>5, <2>8 DEF ReadError, Touch, Answers
  <2>9. CASE ReadCompleted(j)
    <3>1. /\ Read(j, "completed") /\ "completed" \in Answers
          /\ fetching' = [fetching EXCEPT ![j] = @ + 1]
          /\ intervals' \subseteq intervals
          /\ UNCHANGED <<row, starting, submitted>>
      BY <2>9 DEF ReadCompleted, Touch, StopPolling, Answers, Terminal
    <3>2. row[j] # "none"
      BY <3>1, AskedHasRow DEF Read, Kinds
    <3>3. Counted'
      <4>1. Counted /\ polls' \in [Jobs -> [Kinds -> Nat]]
        BY <3>1, ReadCounts, TypesCount
      <4>2. fetching' \in [Jobs -> Nat]
        BY <3>1, <4>1 DEF Counted
      <4> QED
        BY <4>1, <4>2 DEF Counted
    <3>4. /\ UnderWay(j)' = UnderWay(j)
          /\ \A k \in Jobs \ {j} : UnderWay(k)' = UnderWay(k)
      BY <3>1, ReadCounts
    <3> QED
      BY <1>1, <3>1, <3>2, <3>3, <3>4 DEF CountInv, Unstarted
  <2>10. CASE ReceiveReport(j) \/ LoseReport(j)
    <3>1. /\ fetching[j] > 0 /\ fetching' = [fetching EXCEPT ![j] = @ - 1]
          /\ UNCHANGED <<polls, row, starting, intervals, submitted>>
      BY <2>10 DEF ReceiveReport, LoseReport, Touch
    <3>2. row[j] # "none"
      BY <3>1, FetchedHasRow
    <3>3. /\ Counted' /\ UnderWay(j) > 0 /\ UnderWay(j)' = UnderWay(j) - 1
          /\ \A k \in Jobs \ {j} : UnderWay(k)' = UnderWay(k)
      BY <3>1, FetchCounts
    <3> QED
      BY <1>1, <3>1, <3>2, <3>3 DEF CountInv, Unstarted
  <2> QED
    BY <1>6, <2>1, <2>2, <2>3, <2>4, <2>6, <2>7, <2>8, <2>9, <2>10 DEF Page
<1>7. CASE UNCHANGED vars
  BY <1>2, <1>7 DEF vars
<1> QED
  BY <1>3, <1>4, <1>5, <1>6, <1>7 DEF Next

(* The rest of TypeOK.                                                     *)
TypeRest ==
  /\ row \in [Jobs -> Rows]
  /\ phase \in Phases
  /\ status \in Rows
  /\ report \in Shown
  /\ current \in Jobs \cup {NoJob}
  /\ starting \subseteq Jobs /\ intervals \subseteq Jobs
  /\ timer \in Jobs \cup {NoJob}
  /\ timer # NoJob => timer \in intervals
  /\ replay \in Replay
  /\ timeouts \subseteq 1..(Frames + 1)
  /\ loaders \in Seq({"start", "skip"})
  /\ recording \in {"none", "pending", "loaded", "rejected"}
  /\ {replay_mode, report_lost, skip_lost, crossed} \subseteq BOOLEAN
  /\ failures \in 0..MaxFailures /\ reopenings \in 0..MaxReopenings
  /\ resets \in 0..MaxResets
  /\ submitted \subseteq Jobs /\ strayed \in BOOLEAN
  /\ abandoned \subseteq Jobs /\ readable \in BOOLEAN

LEMMA StepTypes ==
  ASSUME TypeOK, [Next]_vars
  PROVE  TypeRest'
<1> USE PageAssumption
<1>1. TypeRest
  BY DEF TypeOK, TypeRest
<1>2. Idle \in Replay /\ Finished \in Replay /\ Nothing \in Shown
  BY DEF Idle, Finished, Replay, Nothing, Shown
<1>10. ASSUME NEW c \in {"start", "skip"}, Await(c)
       PROVE  /\ loaders' \in Seq({"start", "skip"}) /\ crossed' \in BOOLEAN
              /\ recording' \in {"none", "pending", "loaded", "rejected"}
  BY <1>1, <1>10 DEF Await, LoadDemoRun, TypeRest
<1>11. ASSUME NEW c \in {"start", "skip"}, Resumes(c)
       PROVE  loaders' \in Seq({"start", "skip"})
  BY <1>1, <1>11 DEF Resumes, TypeRest
<1>3. CASE User
  <2>1. CASE Reset
    BY <1>1, <1>2, <2>1
    DEF Reset, StopPolling, TypeRest, server, Phases, Rows
  <2>2. CASE Play
    <3>1. \A r \in Replay : [r EXCEPT !.playing = TRUE] \in Replay
      BY DEF Replay
    <3>2. [Idle EXCEPT !.playing = TRUE] \in Replay
      BY <1>2, <3>1
    <3> QED
      BY <1>1, <1>10, <2>2, <3>2 DEF Play, TypeRest, server, Phases
  <2>3. CASE Skip
    BY <1>1, <1>2, <1>10, <2>3 DEF Skip, TypeRest, server, Phases
  <2>4. ASSUME NEW j \in Jobs, Submit(j)
        PROVE  TypeRest'
    BY <1>1, <1>2, <2>4
    DEF Submit, StopPolling, TypeRest, server, Phases, Rows, played
  <2> QED
    BY <1>3, <2>1, <2>2, <2>3, <2>4 DEF User
<1>4. ASSUME NEW j \in Jobs, EndJob(j) \/ Reopen(j) \/ LoseJob(j)
      PROVE  TypeRest'
  <2>1. CASE EndJob(j)
    BY <1>1, <2>1 DEF EndJob, TypeRest, server, Rows, Terminal, played
  <2>2. CASE Reopen(j)
    BY <1>1, <2>2 DEF Reopen, TypeRest, server, Rows, Terminal, played
  <2>3. CASE LoseJob(j)
    BY <1>1, <2>3 DEF LoseJob, Fail, TypeRest, server, Rows, Terminal, played
  <2> QED
    BY <1>4, <2>1, <2>2, <2>3
<1>12. CASE GoSilent
  <2>1. readable' \in BOOLEAN
    BY <1>12 DEF GoSilent
  <2>2. UNCHANGED <<submitted, strayed, live, played, replay_mode, resets,
                    abandoned>> /\ Fail
    BY <1>12 DEF GoSilent
  <2> QED
    BY <1>1, <2>1, <2>2 DEF Fail, TypeRest, live, played
<1>13. ASSUME NEW j \in Jobs, Abandon(j)
       PROVE  TypeRest'
  BY <1>1, <1>13 DEF Abandon, Fail, TypeRest, live, played
<1>5. CASE Player
  <2>1. CASE FetchRecording
    BY <1>1, <2>1 DEF FetchRecording, Fail, TypeRest, server, live
  <2>2. CASE ScheduleFrames
    <3>1. [replay EXCEPT !.run = TRUE, !.playing = TRUE] \in Replay
      BY <1>1 DEF TypeRest, server, Replay
    <3> QED
      BY <1>1, <1>11, <2>2, <3>1 DEF ScheduleFrames, TypeRest, server, live
  <2>3. CASE FailStart
    <3>1. \A r \in Replay : [r EXCEPT !.error = TRUE] \in Replay
      BY DEF Replay
    <3>2. [Idle EXCEPT !.error = TRUE] \in Replay
      BY <1>2, <3>1
    <3> QED
      BY <1>1, <1>11, <2>3, <3>2 DEF FailStart, TypeRest, server, live
  <2>4. CASE ShowResult
    BY <1>1, <1>2, <1>11, <2>4 DEF ShowResult, TypeRest, server, live
  <2>5. CASE FailSkip
    BY <1>1, <1>11, <2>5 DEF FailSkip, TypeRest, server, live
  <2>6. CASE ShowFrame
    <3>1. replay' \in Replay /\ timeouts' \subseteq timeouts
      <4>1. PICK i \in timeouts :
              /\ timeouts' = timeouts \ {i}
              /\ replay' = IF i <= Frames
                    THEN [replay EXCEPT !.entries = i]
                    ELSE [replay EXCEPT !.entries = Frames,
                                        !.playing = FALSE, !.finished = TRUE]
        BY <2>6 DEF ShowFrame
      <4>2. i \in 1..(Frames + 1) /\ replay \in Replay
        BY <1>1 DEF TypeRest
      <4>3. i <= Frames => [replay EXCEPT !.entries = i] \in Replay
        BY <4>2 DEF Replay
      <4>4. /\ \A r \in Replay : [r EXCEPT !.playing = FALSE] \in Replay
            /\ \A r \in Replay : [r EXCEPT !.finished = TRUE] \in Replay
            /\ [replay EXCEPT !.entries = Frames] \in Replay
        <5>1. Frames \in 0..Frames
          OBVIOUS
        <5>2. [replay EXCEPT !.entries = Frames] \in Replay
          BY <4>2, <5>1 DEF Replay
        <5>3. \A r \in Replay : [r EXCEPT !.playing = FALSE] \in Replay
          BY DEF Replay
        <5>4. \A r \in Replay : [r EXCEPT !.finished = TRUE] \in Replay
          BY DEF Replay
        <5> QED
          BY <5>2, <5>3, <5>4
      <4>5. [[[replay EXCEPT !.entries = Frames] EXCEPT !.playing = FALSE]
               EXCEPT !.finished = TRUE] \in Replay
        BY <4>2, <4>4
      <4> QED
        BY <4>1, <4>3, <4>5
    <3> QED
      BY <1>1, <2>6, <3>1 DEF ShowFrame, TypeRest, server, live
  <2> QED
    BY <1>5, <2>1, <2>2, <2>3, <2>4, <2>5, <2>6 DEF Player
<1>6. ASSUME NEW j \in Jobs, Page(j)
      PROVE  TypeRest'
  <2>1. CASE StartPolling(j)
    BY <1>1, <2>1 DEF StartPolling, Touch, TypeRest, server, Rows, played
  <2>2. CASE RefuseJob(j)
    BY <1>1, <2>2 DEF RefuseJob, Touch, TypeRest, server, Phases, played
  <2>3. CASE Poll(j)
    BY <1>1, <2>3 DEF Poll, Touch, TypeRest, server, played
  <2>4. CASE AnswerPoll(j)
    BY <1>1, <2>4 DEF AnswerPoll, Touch, Fail, TypeRest, server, played
  <2>5. CASE ReadRunning(j)
    BY <1>1, <2>5 DEF ReadRunning, Touch, TypeRest, server, Rows, played
  <2>6. CASE ReadCompleted(j)
    BY <1>1, <2>6
    DEF ReadCompleted, Touch, StopPolling, TypeRest, server, Rows, Terminal,
        played
  <2>7. CASE ReadFailed(j)
    BY <1>1, <2>7
    DEF ReadFailed, Touch, StopPolling, TypeRest, server, Rows, Terminal,
        Phases, played
  <2>8. CASE ReadError(j)
    BY <1>1, <2>8 DEF ReadError, Touch, TypeRest, server, played
  <2>9. CASE ReceiveReport(j)
    BY <1>1, <2>9
    DEF ReceiveReport, Touch, TypeRest, server, Shown, Phases, played
  <2>10. CASE LoseReport(j)
    BY <1>1, <2>10 DEF LoseReport, Touch, Fail, TypeRest, server, played
  <2> QED
    BY <1>6, <2>1, <2>2, <2>3, <2>4, <2>5, <2>6, <2>7, <2>8, <2>9, <2>10
    DEF Page
<1>7. CASE UNCHANGED vars
  BY <1>1, <1>7 DEF vars, TypeRest
<1> QED
  BY <1>3, <1>4, <1>5, <1>6, <1>7, <1>12, <1>13 DEF Next, Server

TypeInv == TypeOK /\ Unstarted

LEMMA InitTypes == Init => TypeInv
<1> SUFFICES ASSUME Init PROVE TypeInv
  OBVIOUS
<1> USE PageAssumption
<1>1. Counted /\ \A j \in Jobs : UnderWay(j) = 0
  BY DEF Init, Counted, UnderWay, Kinds, Answers, Terminal
<1>2. TypeRest
  <2>1. Idle \in Replay /\ Nothing \in Shown
    BY DEF Idle, Replay, Nothing, Shown
  <2>2. <<>> \in Seq({"start", "skip"})
    OBVIOUS
  <2>3. row \in [Jobs -> Rows]
    BY DEF Init, Rows
  <2>4. {replay_mode, report_lost, skip_lost, crossed} \subseteq BOOLEAN
    BY DEF Init
  <2>5. /\ failures \in 0..MaxFailures /\ reopenings \in 0..MaxReopenings
        /\ resets \in 0..MaxResets
    BY DEF Init
  <2> QED
    BY <2>1, <2>2, <2>3, <2>4, <2>5 DEF Init, TypeRest, Rows, Phases
<1>3. ASSUME NEW j \in Jobs
      PROVE  UnderWay(j) <= MaxPolls
  <2>1. UnderWay(j) = 0
    BY <1>1
  <2> QED
    BY <2>1
<1>4. TypeOK
  BY <1>1, <1>2, <1>3, CountedTypes DEF TypeRest, TypeOK
<1> QED
  BY <1>1, <1>4 DEF Init, Unstarted, TypeInv

LEMMA TypesStep ==
  ASSUME TypeInv, [Next]_vars
  PROVE  TypeInv'
<1>1. TypeRest' /\ CountInv'
  BY StepTypes, StepCounts DEF TypeInv
<1>2. (/\ polls \in [Jobs -> [{"asked"} \cup Answers -> 0..MaxPolls]]
       /\ fetching \in [Jobs -> 0..MaxPolls])'
  BY <1>1, CountedTypes, PTL DEF CountInv
<1> QED
  BY <1>1, <1>2 DEF TypeRest, CountInv, TypeOK, TypeInv

(* Every variable stays in its type, however the polls overlap, and what   *)
(* is under way stays within the bound (page.tsx:17-42).                   *)
THEOREM TypeCorrect == Spec => []TypeOK
<1>1. TypeInv /\ [Next]_vars => TypeInv'
  BY TypesStep
<1>2. TypeInv => TypeOK
  BY DEF TypeInv
<1> QED
  BY <1>1, <1>2, InitTypes, PTL DEF Spec

-----------------------------------------------------------------------------
(* The page that waits.  The last timeout is the one that ends the replay, *)
(* so a replay without timeouts is not left in the middle.                 *)
AttendedInv ==
  /\ TypeInv
  /\ WaitingIsAttended
  /\ timeouts # {} => Frames + 1 \in timeouts

LEMMA AttendedStep ==
  ASSUME AttendedInv, [Next]_vars
  PROVE  AttendedInv'
<1> USE PageAssumption
<1>1. TypeInv' /\ TypeInv /\ TypeRest' /\ TypeRest
  BY TypesStep, StepTypes DEF AttendedInv, TypeInv, TypeOK, TypeRest
<1> SUFFICES WaitingIsAttended'
             /\ (timeouts' # {} => Frames + 1 \in timeouts')
  BY <1>1 DEF AttendedInv
<1>2. WaitingIsAttended /\ (timeouts # {} => Frames + 1 \in timeouts)
  BY DEF AttendedInv
<1>3. CASE User
  <2>1. CASE Reset
    BY <1>2, <2>1 DEF Reset, WaitingIsAttended, Waiting
  <2>2. CASE Play
    <3>1. loaders' # <<>>
      BY <1>1, <2>2 DEF Play, Await, TypeRest
    <3> QED
      BY <2>2, <3>1 DEF Play, WaitingIsAttended, Attended
  <2>3. CASE Skip
    <3>1. replay.run => replay'.finished
      BY <2>3 DEF Skip, Finished
    <3>2. ~replay.run => loaders' # <<>>
      BY <1>1, <2>3 DEF Skip, Await, TypeRest
    <3> QED
      BY <2>3, <3>1, <3>2 DEF Skip, WaitingIsAttended, Waiting, Attended
  <2>4. ASSUME NEW j \in Jobs, Submit(j)
        PROVE  WaitingIsAttended'
               /\ (timeouts' # {} => Frames + 1 \in timeouts')
    BY <1>2, <2>4
    DEF Submit, WaitingIsAttended, Waiting, Attended, played
  <2> QED
    BY <1>3, <2>1, <2>2, <2>3, <2>4 DEF User
<1>4. ASSUME UNCHANGED <<phase, report_lost, starting, timer, fetching,
                         played, replay_mode>>
      PROVE  WaitingIsAttended'
             /\ (timeouts' # {} => Frames + 1 \in timeouts')
  BY <1>2, <1>4 DEF WaitingIsAttended, Waiting, Attended, played
<1>5. CASE Server
  BY <1>4, <1>5 DEF Server, GoSilent, EndJob, Reopen, LoseJob, Abandon, live
<1>6. CASE Player
  <2>1. CASE FetchRecording
    BY <1>2, <2>1
    DEF FetchRecording, live, WaitingIsAttended, Waiting, Attended
  <2>2. CASE ScheduleFrames
    <3>1. Frames + 1 \in timeouts'
      BY <2>2 DEF ScheduleFrames
    <3>2. replay'.finished = replay.finished /\ replay'.error = replay.error
      BY <1>1, <2>2 DEF ScheduleFrames, TypeRest, Replay
    <3> QED
      BY <1>2, <2>2, <3>1, <3>2
      DEF ScheduleFrames, live, WaitingIsAttended, Waiting, Attended
  <2>3. CASE FailStart
    <3>1. replay'.error
      BY <2>3 DEF FailStart, Idle
    <3> QED
      BY <1>2, <2>3, <3>1 DEF FailStart, WaitingIsAttended, Waiting
  <2>4. CASE ShowResult
    <3>1. replay'.finished
      BY <2>4 DEF ShowResult, Finished
    <3> QED
      BY <1>2, <2>4, <3>1 DEF ShowResult, WaitingIsAttended, Waiting
  <2>5. CASE FailSkip
    BY <1>2, <2>5 DEF FailSkip, WaitingIsAttended
  <2>6. CASE ShowFrame
    <3>1. PICK i \in timeouts :
            /\ \A n \in timeouts : i <= n
            /\ timeouts' = timeouts \ {i}
            /\ replay' = IF i <= Frames
                    THEN [replay EXCEPT !.entries = i]
                    ELSE [replay EXCEPT !.entries = Frames,
                                        !.playing = FALSE, !.finished = TRUE]
      BY <2>6 DEF ShowFrame
    <3>2. \A n \in timeouts : n \in 1..(Frames + 1)
      BY <1>1 DEF TypeRest
    <3>3. CASE i <= Frames
      <4>1. Frames + 1 \in timeouts'
        BY <1>2, <3>1, <3>2, <3>3
      <4>2. replay'.finished = replay.finished /\ replay'.error = replay.error
        BY <1>1, <3>1, <3>3 DEF TypeRest, Replay
      <4> QED
        BY <1>2, <2>6, <3>1, <4>1, <4>2
        DEF ShowFrame, live, WaitingIsAttended, Waiting, Attended
    <3>4. CASE ~(i <= Frames)
      <4>1. i = Frames + 1
        BY <3>1, <3>2, <3>4
      <4>2. timeouts' = {}
        BY <3>1, <3>2, <4>1
      <4>3. replay'.finished
        BY <1>1, <3>1, <3>4 DEF TypeRest, Replay
      <4> QED
        BY <4>2, <4>3 DEF WaitingIsAttended, Waiting
    <3> QED
      BY <3>3, <3>4
  <2> QED
    BY <1>6, <2>1, <2>2, <2>3, <2>4, <2>5, <2>6 DEF Player
<1>7. ASSUME NEW j \in Jobs, Page(j)
      PROVE  WaitingIsAttended'
             /\ (timeouts' # {} => Frames + 1 \in timeouts')
  <2>1. CASE StartPolling(j)
    BY <1>2, <2>1
    DEF StartPolling, played, WaitingIsAttended, Waiting, Attended
  <2>2. CASE RefuseJob(j)
    BY <1>2, <2>2 DEF RefuseJob, played, WaitingIsAttended, Waiting
  <2>3. CASE Poll(j) \/ AnswerPoll(j) \/ ReadRunning(j) \/ ReadError(j)
    BY <1>4, <2>3 DEF Poll, AnswerPoll, ReadRunning, ReadError
  <2>4. CASE ReadCompleted(j)
    <3>1. fetching'[j] > 0
      <4>1. fetching[j] \in Nat /\ fetching \in [Jobs -> Nat]
        BY <1>1, TypesCount DEF TypeInv, Counted
      <4> QED
        BY <2>4, <4>1 DEF ReadCompleted
    <3> QED
      BY <1>2, <2>4, <3>1
      DEF ReadCompleted, played, WaitingIsAttended, Waiting, Attended
  <2>5. CASE ReadFailed(j)
    BY <1>2, <2>5 DEF ReadFailed, played, WaitingIsAttended, Waiting
  <2>6. CASE ReceiveReport(j)
    BY <1>2, <2>6 DEF ReceiveReport, played, WaitingIsAttended, Waiting
  <2>7. CASE LoseReport(j)
    BY <1>2, <2>7 DEF LoseReport, played, WaitingIsAttended
  <2> QED
    BY <1>7, <2>1, <2>2, <2>3, <2>4, <2>5, <2>6, <2>7 DEF Page
<1>8. CASE UNCHANGED vars
  BY <1>4, <1>8 DEF vars, played
<1> QED
  BY <1>3, <1>5, <1>6, <1>7, <1>8 DEF Next

(* A page that shows the placeholder of a running job has a request, an    *)
(* interval, a timeout or a recording to wait for, unless one of the two   *)
(* unhandled reads failed (page.tsx:48-82, useReplay.ts:54-103).           *)
THEOREM AlwaysAttended == Spec => []WaitingIsAttended
<1>1. Init => AttendedInv
  BY InitTypes DEF Init, AttendedInv, WaitingIsAttended, Waiting
<1>2. AttendedInv /\ [Next]_vars => AttendedInv'
  BY AttendedStep
<1>3. AttendedInv => WaitingIsAttended
  BY DEF AttendedInv
<1> QED
  BY <1>1, <1>2, <1>3, PTL DEF Spec

-----------------------------------------------------------------------------
(* A finished replay shows every entry.  What start and skip leave behind, *)
(* as long as they do not wait together: nobody shows a frame while one of *)
(* them awaits a recording that is there.                                  *)
Consistent ==
  /\ replay.finished => replay.entries = Frames /\ timeouts = {}
  /\ \A i \in DOMAIN loaders :
       /\ loaders[i] = "start" => ~replay.finished
       /\ loaders[i] = "skip" => timeouts = {}
       /\ \A k \in DOMAIN loaders : loaders[k] = loaders[i]

ReplayInv ==
  /\ TypeInv
  /\ replay.run \/ timeouts # {} => recording = "loaded"
  /\ ~crossed => Consistent

(* Whoever goes on was the first of those who wait; who comes last waits   *)
(* for the same as they do, or they have crossed.                          *)
LEMMA Resumed ==
  ASSUME TypeRest, NEW c, Resumes(c)
  PROVE  /\ 1 \in DOMAIN loaders /\ loaders[1] = c
         /\ \A i \in DOMAIN loaders' :
              i + 1 \in DOMAIN loaders /\ loaders'[i] = loaders[i + 1]
<1>1. /\ loaders \in Seq({"start", "skip"}) /\ loaders # <<>>
      /\ Head(loaders) = c /\ loaders' = Tail(loaders)
  BY DEF TypeRest, Resumes
<1>2. Len(loaders) \in Nat \ {0} /\ DOMAIN loaders = 1..Len(loaders)
  BY <1>1
<1>3. DOMAIN loaders' = 1..(Len(loaders) - 1)
      /\ \A i \in 1..(Len(loaders) - 1) : loaders'[i] = loaders[i + 1]
  BY <1>1, <1>2
<1> QED
  BY <1>1, <1>2, <1>3

LEMMA Awaited ==
  ASSUME TypeRest, NEW c, Await(c), ~crossed'
  PROVE  \A i \in DOMAIN loaders' : loaders'[i] = c
<1>1. /\ loaders \in Seq({"start", "skip"}) /\ loaders' = Append(loaders, c)
      /\ \A i \in DOMAIN loaders : loaders[i] = c
  BY DEF TypeRest, Await
<1>2. Len(loaders) \in Nat /\ DOMAIN loaders = 1..Len(loaders)
  BY <1>1
<1>3. DOMAIN loaders' = 1..(Len(loaders) + 1)
      /\ \A i \in 1..(Len(loaders) + 1) :
           loaders'[i] = IF i = Len(loaders) + 1 THEN c ELSE loaders[i]
  BY <1>1, <1>2
<1> QED
  BY <1>1, <1>2, <1>3

LEMMA ReplayStep ==
  ASSUME ReplayInv, [Next]_vars
  PROVE  ReplayInv'
<1> USE PageAssumption
<1>1. TypeInv' /\ TypeInv /\ TypeRest' /\ TypeRest
  BY TypesStep, StepTypes DEF ReplayInv, TypeInv, TypeOK, TypeRest
<1> DEFINE Loaded == replay.run \/ timeouts # {} => recording = "loaded"
<1> SUFFICES Loaded' /\ (~crossed' => Consistent')
  BY <1>1 DEF ReplayInv
<1>2. Loaded /\ (~crossed => Consistent)
  BY DEF ReplayInv
<1>3. ASSUME UNCHANGED <<replay, timeouts, loaders, crossed, recording>>
      PROVE  Loaded' /\ (~crossed' => Consistent')
  BY <1>2, <1>3 DEF Consistent
<1>4. CASE User
  <2>1. CASE Reset
    <3>1. replay' = Idle /\ timeouts' = {}
          /\ UNCHANGED <<loaders, crossed, recording>>
      BY <2>1 DEF Reset
    <3>2. ~replay'.run /\ ~replay'.finished
      BY <3>1 DEF Idle
    <3> QED
      BY <1>2, <3>1, <3>2 DEF Consistent
  <2>2. CASE Play
    <3>1. timeouts' = {} /\ Await("start")
      BY <2>2 DEF Play
    <3>2. ~replay'.run /\ ~replay'.finished
      BY <2>2 DEF Play, Idle
    <3> QED
      BY <1>1, <3>1, <3>2, Awaited DEF Consistent
  <2>3. CASE Skip /\ replay.run
    <3>1. loaders = <<>>
      BY <1>2, <1>4, <2>3 DEF User, Resuming
    <3>2. replay' = Finished /\ timeouts' = {}
          /\ UNCHANGED <<loaders, crossed, recording>>
      BY <2>3 DEF Skip
    <3>3. replay'.finished /\ replay'.entries = Frames
      BY <3>2 DEF Finished
    <3> QED
      BY <1>2, <2>3, <3>1, <3>2, <3>3 DEF Consistent
  <2>4. CASE Skip /\ ~replay.run
    <3>1. timeouts' = {} /\ Await("skip") /\ UNCHANGED replay
      BY <2>4 DEF Skip
    <3>2. crossed => crossed'
      BY <3>1 DEF Await
    <3> QED
      BY <1>1, <1>2, <2>4, <3>1, <3>2, Awaited DEF Consistent
  <2>5. ASSUME NEW j \in Jobs, Submit(j)
        PROVE  Loaded' /\ (~crossed' => Consistent')
    BY <1>3, <2>5 DEF Submit, played
  <2> QED
    BY <1>4, <2>1, <2>2, <2>3, <2>4, <2>5 DEF User
<1>5. CASE Server
  BY <1>3, <1>5 DEF Server, GoSilent, EndJob, Reopen, LoseJob, Abandon, live,
                    played
<1>6. CASE Player
  <2>1. CASE FetchRecording
    BY <1>2, <2>1 DEF FetchRecording, Consistent
  <2>2. CASE ScheduleFrames
    <3>1. Resumes("start") /\ recording' = "loaded" /\ UNCHANGED crossed
      BY <2>2 DEF ScheduleFrames
    <3>2. replay'.finished = replay.finished
      BY <1>1, <2>2 DEF ScheduleFrames, TypeRest, Replay
    <3> QED
      BY <1>1, <1>2, <3>1, <3>2, Resumed DEF Consistent
  <2>3. CASE FailStart
    <3>1. Resumes("start") /\ UNCHANGED <<timeouts, recording, crossed>>
      BY <2>3 DEF FailStart
    <3>2. ~replay'.run /\ ~replay'.finished
      BY <2>3 DEF FailStart, Idle
    <3> QED
      BY <1>1, <1>2, <3>1, <3>2, Resumed DEF Consistent
  <2>4. CASE ShowResult
    <3>1. /\ Resumes("skip") /\ recording = "loaded"
          /\ UNCHANGED <<timeouts, recording, crossed>>
      BY <2>4 DEF ShowResult
    <3>2. replay'.finished /\ replay'.entries = Frames
      BY <2>4 DEF ShowResult, Finished
    <3> QED
      BY <1>1, <1>2, <3>1, <3>2, Resumed DEF Consistent
  <2>5. CASE FailSkip
    <3>1. Resumes("skip")
          /\ UNCHANGED <<replay, timeouts, recording, crossed>>
      BY <2>5 DEF FailSkip
    <3> QED
      BY <1>1, <1>2, <3>1, Resumed DEF Consistent
  <2>6. CASE ShowFrame
    <3>1. PICK i \in timeouts :
            /\ \A n \in timeouts : i <= n
            /\ timeouts' = timeouts \ {i}
            /\ replay' = IF i <= Frames
                    THEN [replay EXCEPT !.entries = i]
                    ELSE [replay EXCEPT !.entries = Frames,
                                        !.playing = FALSE, !.finished = TRUE]
      BY <2>6 DEF ShowFrame
    <3>2. /\ recording = "loaded" /\ loaders = <<>>
          /\ UNCHANGED <<loaders, recording, crossed>>
      BY <1>2, <2>6 DEF ShowFrame, Resuming
    <3>3. CASE i <= Frames
      <4>1. replay'.finished = replay.finished
        BY <1>1, <3>1, <3>3 DEF TypeRest, Replay
      <4>2. ~crossed => ~replay.finished
        BY <1>2 DEF Consistent
      <4>3. DOMAIN loaders' = {}
        BY <3>2
      <4> QED
        BY <3>2, <4>1, <4>2, <4>3 DEF Consistent
    <3>4. CASE ~(i <= Frames)
      <4>1. \A n \in timeouts : n \in 1..(Frames + 1)
        BY <1>1 DEF TypeRest
      <4>2. timeouts' = {}
        BY <3>1, <3>4, <4>1
      <4>3. replay'.entries = Frames
        BY <1>1, <3>1, <3>4 DEF TypeRest, Replay
      <4> QED
        BY <3>2, <4>2, <4>3 DEF Consistent
    <3> QED
      BY <3>3, <3>4
  <2> QED
    BY <1>6, <2>1, <2>2, <2>3, <2>4, <2>5, <2>6 DEF Player
<1>7. ASSUME NEW j \in Jobs, Page(j)
      PROVE  Loaded' /\ (~crossed' => Consistent')
  BY <1>3, <1>7
  DEF Page, StartPolling, RefuseJob, Poll, AnswerPoll, ReadRunning,
      ReadCompleted, ReadFailed, ReadError, ReceiveReport, LoseReport, played
<1>8. CASE UNCHANGED vars
  BY <1>3, <1>8 DEF vars
<1> QED
  BY <1>4, <1>5, <1>6, <1>7, <1>8 DEF Next

-----------------------------------------------------------------------------
(* A job has been seen to complete, or to fail, if an answer says so or    *)
(* the page has it from one.                                               *)
SeenCompleted(j) ==
  \/ polls[j]["completed"] > 0 \/ fetching[j] > 0
  \/ phase = "done" /\ ~strayed /\ j = current
SeenFailed(j) ==
  \/ polls[j]["failed"] > 0
  \/ phase = "error" /\ ~strayed /\ j = current /\ row[j] # "none"

(* As long as no row ended twice, no job is seen to do both.               *)
OutcomesAgree ==
  reopenings = 0 =>
    \A j \in Jobs :
      /\ SeenCompleted(j) => row[j] \in {"completed", "lost"}
      /\ SeenFailed(j) => row[j] \in {"failed", "lost"}
      /\ ~(SeenCompleted(j) /\ SeenFailed(j))

ReportShown ==
  phase = "done" /\ reopenings = 0 =>
    /\ report.is = "report"
    /\ ~strayed => report.job = current /\ current \in Jobs

(* A page that shows an outcome does not await the start of its job.       *)
StartedFirst ==
  ~strayed /\ phase \in {"done", "error"} => current \notin starting

(* A page that replays has no server.                                      *)
ReplayApart == replay_mode => submitted = {} /\ phase \in {"idle", "running"}

OutcomeInv ==
  TypeInv /\ OutcomesAgree /\ ReportShown /\ StartedFirst /\ ReplayApart

LEMMA NothingSeen ==
  ASSUME OutcomesAgree, row' = row, reopenings' = reopenings,
         \A k \in Jobs : /\ SeenCompleted(k)' => SeenCompleted(k)
                         /\ SeenFailed(k)' => SeenFailed(k)
  PROVE  OutcomesAgree'
BY DEF OutcomesAgree

(* Whatever the page does about a job, run was called for it; but for the  *)
(* answer of generateReport, there is a row.                               *)
LEMMA PageHasJob ==
  ASSUME TypeInv, NEW j \in Jobs, Page(j)
  PROVE  /\ j \in submitted
         /\ ~(StartPolling(j) \/ RefuseJob(j)) => row[j] # "none"
<1>1. CASE StartPolling(j) \/ RefuseJob(j)
  BY <1>1 DEF TypeInv, Unstarted, StartPolling, RefuseJob
<1>2. CASE Poll(j)
  BY <1>2 DEF TypeInv, Unstarted, Poll
<1>3. ASSUME NEW a \in Kinds, polls[j][a] > 0
      PROVE  row[j] # "none"
  BY <1>3, AskedHasRow DEF TypeInv
<1>4. CASE AnswerPoll(j)
  BY <1>3, <1>4 DEF AnswerPoll, Kinds, TypeInv, Unstarted
<1>5. CASE ReadRunning(j) \/ ReadCompleted(j) \/ ReadFailed(j) \/ ReadError(j)
  <2>1. PICK a \in Answers : polls[j][a] > 0
    BY <1>5
    DEF ReadRunning, ReadCompleted, ReadFailed, ReadError, Read, Answers,
        Terminal
  <2> QED
    BY <1>3, <2>1 DEF Kinds, TypeInv, Unstarted
<1>6. CASE ReceiveReport(j) \/ LoseReport(j)
  <2>1. row[j] # "none"
    BY <1>6, FetchedHasRow DEF ReceiveReport, LoseReport, TypeInv
  <2> QED
    BY <2>1 DEF TypeInv, Unstarted
<1> QED
  BY <1>1, <1>2, <1>4, <1>5, <1>6 DEF Page

LEMMA OutcomeStep ==
  ASSUME OutcomeInv, [Next]_vars
  PROVE  OutcomeInv'
<1> USE PageAssumption
<1>1. TypeInv' /\ TypeInv /\ TypeRest' /\ TypeRest
  BY TypesStep, StepTypes DEF OutcomeInv, TypeInv, TypeOK, TypeRest
<1>2. OutcomesAgree /\ ReportShown /\ StartedFirst /\ ReplayApart
  BY DEF OutcomeInv
<1> DEFINE Goal == OutcomesAgree /\ ReportShown /\ StartedFirst /\ ReplayApart
<1> SUFFICES Goal'
  BY <1>1 DEF OutcomeInv
<1>3. ASSUME UNCHANGED <<row, polls, fetching, reopenings, current, strayed,
                         replay_mode>>,
             phase' \in {"idle", "running"},
             submitted' = {} \/ ~replay_mode
      PROVE  Goal'
  <2>1. OutcomesAgree'
    BY <1>2, <1>3, NothingSeen DEF SeenCompleted, SeenFailed
  <2> QED
    BY <1>2, <1>3, <2>1 DEF ReportShown, StartedFirst, ReplayApart
<1>4. CASE User
  <2>1. CASE Reset
    BY <1>2, <1>3, <2>1 DEF Reset, ReplayApart
  <2>2. CASE Play
    BY <1>2, <1>3, <2>2 DEF Play, ReplayApart
  <2>3. CASE Skip
    BY <1>2, <1>3, <2>3 DEF Skip, ReplayApart
  <2>4. ASSUME NEW j \in Jobs, Submit(j)
        PROVE  Goal'
    <3>1. OutcomesAgree'
      BY <1>2, <2>4, NothingSeen DEF Submit, SeenCompleted, SeenFailed
    <3> QED
      BY <1>2, <2>4, <3>1 DEF Submit, ReportShown, StartedFirst, ReplayApart
  <2> QED
    BY <1>4, <2>1, <2>2, <2>3, <2>4 DEF User
<1>5. ASSUME NEW j \in Jobs, EndJob(j) \/ Reopen(j) \/ LoseJob(j)
      PROVE  Goal'
  <2>1. UNCHANGED <<polls, fetching, phase, report, current, strayed,
                    starting, submitted, replay_mode>>
    BY <1>5 DEF EndJob, Reopen, LoseJob
  <2>2. /\ row[j] \in {"running", "completed", "failed"}
        /\ row \in [Jobs -> Rows]
        /\ \E x \in Rows : x # "none" /\ row' = [row EXCEPT ![j] = x]
    BY <1>1, <1>5 DEF EndJob, Reopen, LoseJob, TypeRest, Rows, Terminal
  <2>3. \A k \in Jobs : /\ SeenCompleted(k)' => SeenCompleted(k)
                        /\ SeenFailed(k)' => SeenFailed(k)
    BY <2>1, <2>2 DEF SeenCompleted, SeenFailed
  <2>4. OutcomesAgree'
    <3>1. CASE EndJob(j)
      <4>1. row[j] = "running" /\ reopenings' = reopenings
            /\ \A k \in Jobs \ {j} : row'[k] = row[k]
        BY <3>1, <2>2 DEF EndJob
      <4> QED
        BY <1>2, <2>3, <4>1 DEF OutcomesAgree
    <3>2. CASE Reopen(j)
      <4>1. reopenings' # 0
        BY <1>1, <3>2 DEF Reopen, TypeRest
      <4> QED
        BY <4>1 DEF OutcomesAgree
    <3>3. CASE LoseJob(j)
      <4>1. row'[j] = "lost" /\ reopenings' = reopenings
            /\ \A k \in Jobs \ {j} : row'[k] = row[k]
        BY <3>3, <2>2 DEF LoseJob
      <4> QED
        BY <1>2, <2>3, <4>1 DEF OutcomesAgree
    <3> QED
      BY <1>5, <3>1, <3>2, <3>3
  <2>5. reopenings' = 0 => reopenings = 0
    BY <1>1, <1>5 DEF EndJob, Reopen, LoseJob, TypeRest
  <2> QED
    BY <1>2, <2>1, <2>4, <2>5 DEF ReportShown, StartedFirst, ReplayApart
<1>6. ASSUME UNCHANGED <<live, strayed, submitted, replay_mode>>
      PROVE  Goal'
  <2>1. OutcomesAgree'
    BY <1>2, <1>6, NothingSeen DEF live, SeenCompleted, SeenFailed
  <2> QED
    BY <1>2, <1>6, <2>1 DEF live, ReportShown, StartedFirst, ReplayApart
<1>7. CASE Player
  BY <1>6, <1>7
  DEF Player, FetchRecording, ScheduleFrames, FailStart, ShowResult, FailSkip,
      ShowFrame
<1>10. CASE GoSilent \/ \E j \in Jobs : Abandon(j)
  BY <1>6, <1>10 DEF GoSilent, Abandon
<1>8. CASE UNCHANGED vars
  BY <1>6, <1>8 DEF vars, live
<1>9. ASSUME NEW j \in Jobs, Page(j)
      PROVE  Goal'
  <2>1. /\ j \in submitted
        /\ ~(StartPolling(j) \/ RefuseJob(j)) => row[j] # "none"
    BY <1>1, <1>9, PageHasJob
  <2>2. /\ strayed' \in {strayed, strayed \/ j # current}
        /\ UNCHANGED <<current, submitted, reopenings, replay_mode>>
        /\ starting' \subseteq starting
    BY <1>9
    DEF Page, StartPolling, RefuseJob, Poll, AnswerPoll, ReadRunning,
        ReadCompleted, ReadFailed, ReadError, ReceiveReport, LoseReport, Touch
  <2>3. ReplayApart'
    BY <1>2, <2>1, <2>2 DEF ReplayApart
  <2>4. /\ ~strayed' => ~strayed
        /\ strayed' \in BOOLEAN /\ strayed \in BOOLEAN
    BY <1>1, <2>2 DEF TypeRest
  <2>21. /\ StartPolling(j) \/ RefuseJob(j) \/ ReadFailed(j) \/ ReceiveReport(j)
         /\ ~strayed'
         => j = current
    BY <1>1 DEF StartPolling, RefuseJob, ReadFailed, ReceiveReport, Touch,
                TypeRest
  <2>5. Counted
    BY <1>1, TypesCount DEF TypeInv
  <2>6. /\ j \in starting => row[j] = "none"
        /\ row[j] # "none" => j \notin starting
    BY <1>1 DEF TypeInv, Unstarted
  <2>7. ASSUME UNCHANGED <<phase, report>>
        PROVE  ReportShown' /\ StartedFirst'
    BY <1>2, <2>2, <2>4, <2>7 DEF ReportShown, StartedFirst
  <2>8. CASE StartPolling(j)
    <3>1. /\ row[j] = "none" /\ row' = [row EXCEPT ![j] = "running"]
          /\ UNCHANGED <<phase, report, polls, fetching>>
      BY <2>6, <2>8 DEF StartPolling
    <3>2. /\ ~(fetching[j] > 0) /\ ~(polls[j]["completed"] > 0)
          /\ ~(polls[j]["failed"] > 0)
      BY <1>1, <3>1, AskedHasRow, FetchedHasRow
      DEF Kinds, Answers, Terminal, TypeInv
    <3>3. ~strayed' => phase \notin {"done", "error"}
      BY <1>2, <2>4, <2>8, <2>21 DEF StartPolling, StartedFirst
    <3>4. ~SeenCompleted(j)' /\ ~SeenFailed(j)'
      BY <3>1, <3>2, <3>3 DEF SeenCompleted, SeenFailed
    <3>5. \A k \in Jobs \ {j} : /\ row'[k] = row[k]
                                /\ SeenCompleted(k)' => SeenCompleted(k)
                                /\ SeenFailed(k)' => SeenFailed(k)
      BY <1>1, <2>2, <2>4, <3>1 DEF SeenCompleted, SeenFailed, TypeRest
    <3>6. OutcomesAgree'
      BY <1>2, <2>2, <3>4, <3>5 DEF OutcomesAgree
    <3> QED
      BY <2>3, <2>7, <3>1, <3>6
  <2>9. CASE RefuseJob(j)
    <3>1. /\ row[j] = "none" /\ phase' = "error" /\ starting' = starting \ {j}
          /\ UNCHANGED <<row, report, polls, fetching>>
      BY <2>6, <2>9 DEF RefuseJob
    <3>2. \A k \in Jobs : /\ SeenCompleted(k)' => SeenCompleted(k)
                          /\ SeenFailed(k)' => SeenFailed(k)
      BY <2>2, <2>4, <2>9, <2>21, <3>1 DEF SeenCompleted, SeenFailed
    <3>3. OutcomesAgree'
      BY <1>2, <2>2, <3>1, <3>2, NothingSeen
    <3>4. ReportShown' /\ StartedFirst'
      BY <2>2, <2>4, <2>9, <2>21, <3>1 DEF ReportShown, StartedFirst
    <3> QED
      BY <2>3, <3>3, <3>4
  <2>10. ASSUME UNCHANGED <<row, phase, report>>,
                \A k \in Jobs :
                  /\ polls'[k]["completed"] > 0 \/ fetching'[k] > 0
                       => SeenCompleted(k)
                  /\ polls'[k]["failed"] > 0 => SeenFailed(k)
         PROVE  Goal'
    <3>1. \A k \in Jobs : /\ SeenCompleted(k)' => SeenCompleted(k)
                          /\ SeenFailed(k)' => SeenFailed(k)
      BY <2>2, <2>4, <2>10 DEF SeenCompleted, SeenFailed
    <3> QED
      BY <1>2, <2>2, <2>3, <2>7, <2>10, <3>1, NothingSeen
  <2>11. CASE Poll(j)
    <3>1. /\ \A k \in Jobs : /\ polls'[k]["completed"] = polls[k]["completed"]
                              /\ polls'[k]["failed"] = polls[k]["failed"]
          /\ UNCHANGED <<row, phase, report, fetching>>
      BY <1>1, <2>11, PollCounts DEF Poll, TypeInv
    <3> QED
      BY <2>10, <3>1 DEF SeenCompleted, SeenFailed
  <2>12. CASE AnswerPoll(j)
    <3>1. /\ \A k \in Jobs \ {j} : polls'[k] = polls[k]
          /\ polls'[j]["completed"] > 0
               => polls[j]["completed"] > 0 \/ row[j] = "completed"
          /\ polls'[j]["failed"] > 0
               => polls[j]["failed"] > 0 \/ row[j] = "failed"
          /\ UNCHANGED <<row, phase, report, fetching>>
      <4>1. row[j] # "none"
        BY <1>1, <2>12, AskedHasRow DEF AnswerPoll, Kinds, TypeInv
      <4> QED
        BY <1>1, <2>12, <4>1, AnswerCounts DEF AnswerPoll, TypeInv
    <3>2. /\ \A k \in Jobs \ {j} : /\ SeenCompleted(k)' => SeenCompleted(k)
                                   /\ SeenFailed(k)' => SeenFailed(k)
          /\ SeenCompleted(j)' => SeenCompleted(j) \/ row[j] = "completed"
          /\ SeenFailed(j)' => SeenFailed(j) \/ row[j] = "failed"
      BY <2>2, <2>4, <3>1 DEF SeenCompleted, SeenFailed
    <3>3. OutcomesAgree'
      BY <1>2, <2>2, <3>1, <3>2 DEF OutcomesAgree
    <3> QED
      BY <2>3, <2>7, <3>1, <3>3
  <2>13. ASSUME NEW a \in Answers, Read(j, a)
         PROVE  /\ \A k \in Jobs, y \in Kinds :
                     polls'[k][y] > 0 => polls[k][y] > 0
                /\ polls[j][a] > 0
    <3>1. /\ \A k \in Jobs \ {j} : polls'[k] = polls[k]
          /\ polls'[j][a] = polls[j][a] - 1 /\ polls[j][a] > 0
          /\ \A y \in Kinds \ {a} : polls'[j][y] = polls[j][y]
      BY <1>1, <2>13, ReadCounts DEF TypeInv
    <3> QED
      BY <3>1
  <2>14. CASE ReadRunning(j)
    BY <2>10, <2>13, <2>14
    DEF ReadRunning, SeenCompleted, SeenFailed, Kinds, Answers, Terminal
  <2>15. CASE ReadError(j)
    BY <2>10, <2>13, <2>15
    DEF ReadError, SeenCompleted, SeenFailed, Kinds, Answers, Terminal
  <2>16. CASE ReadCompleted(j)
    <3>1. /\ \A k \in Jobs, y \in Kinds : polls'[k][y] > 0 => polls[k][y] > 0
          /\ polls[j]["completed"] > 0
      BY <2>13, <2>16 DEF ReadCompleted, Answers, Terminal
    <3>2. /\ \A k \in Jobs \ {j} : fetching'[k] = fetching[k]
          /\ UNCHANGED <<row, phase, report>>
      BY <2>5, <2>16 DEF ReadCompleted, Counted
    <3>3. /\ \A k \in Jobs : polls'[k]["completed"] > 0 \/ fetching'[k] > 0
                               => SeenCompleted(k)
          /\ \A k \in Jobs : polls'[k]["failed"] > 0 => SeenFailed(k)
      BY <3>1, <3>2 DEF SeenCompleted, SeenFailed, Kinds, Answers, Terminal
    <3> QED
      BY <2>10, <3>2, <3>3
  <2>17. CASE ReadFailed(j)
    <3>1. /\ \A k \in Jobs, y \in Kinds : polls'[k][y] > 0 => polls[k][y] > 0
          /\ polls[j]["failed"] > 0
      BY <2>13, <2>17 DEF ReadFailed, Answers, Terminal
    <3>2. /\ row[j] # "none" /\ phase' = "error"
          /\ UNCHANGED <<row, report, fetching>>
      BY <1>1, <2>17, <3>1, AskedHasRow
      DEF ReadFailed, Kinds, Answers, Terminal, TypeInv
    <3>3. \A k \in Jobs : /\ SeenCompleted(k)' => SeenCompleted(k)
                          /\ SeenFailed(k)' => SeenFailed(k)
      BY <2>2, <2>4, <2>17, <2>21, <3>1, <3>2
      DEF SeenCompleted, SeenFailed, Kinds, Answers, Terminal
    <3>4. OutcomesAgree'
      BY <1>2, <2>2, <3>2, <3>3, NothingSeen
    <3>5. ReportShown' /\ StartedFirst'
      BY <2>2, <2>4, <2>6, <2>17, <2>21, <3>2 DEF ReportShown, StartedFirst
    <3> QED
      BY <2>3, <3>4, <3>5
  <2>18. ASSUME fetching' = [fetching EXCEPT ![j] = @ - 1], polls' = polls,
                row' = row
         PROVE  \A k \in Jobs : fetching'[k] > 0 => fetching[k] > 0
    BY <2>5, <2>18 DEF Counted
  <2>19. CASE ReceiveReport(j)
    <3>1. /\ fetching[j] > 0 /\ row[j] \in {"running", "completed"}
          /\ report' = [job |-> j,
                is |-> IF row[j] = "completed" THEN "report" ELSE "not_ready"]
          /\ phase' = "done" /\ UNCHANGED <<row, polls>>
          /\ \A k \in Jobs : fetching'[k] > 0 => fetching[k] > 0
      BY <2>18, <2>19 DEF ReceiveReport
    <3>2. \A k \in Jobs : /\ SeenCompleted(k)' => SeenCompleted(k)
                          /\ SeenFailed(k)' => SeenFailed(k)
      BY <2>2, <2>4, <2>19, <2>21, <3>1 DEF SeenCompleted, SeenFailed
    <3>3. OutcomesAgree'
      BY <1>2, <2>2, <3>1, <3>2, NothingSeen
    <3>4. reopenings = 0 => row[j] = "completed"
      BY <1>2, <3>1 DEF OutcomesAgree, SeenCompleted
    <3>5. report'.job = j /\ (reopenings' = 0 => report'.is = "report")
      BY <2>2, <3>1, <3>4
    <3>6. ReportShown' /\ StartedFirst'
      BY <2>2, <2>4, <2>6, <2>19, <2>21, <3>1, <3>5
      DEF ReportShown, StartedFirst
    <3> QED
      BY <2>3, <3>3, <3>6
  <2>20. CASE LoseReport(j)
    <3>1. /\ UNCHANGED <<row, polls, phase, report>>
          /\ \A k \in Jobs : fetching'[k] > 0 => fetching[k] > 0
      BY <2>18, <2>20 DEF LoseReport
    <3> QED
      BY <2>10, <3>1 DEF SeenCompleted, SeenFailed
  <2> QED
    BY <1>9, <2>8, <2>9, <2>11, <2>12, <2>14, <2>15, <2>16, <2>17, <2>19,
       <2>20
    DEF Page
<1> QED
  BY <1>4, <1>5, <1>7, <1>8, <1>9, <1>10 DEF Next, Server

(* The invariant that relates what is answered to what the page shows.     *)
LEMMA OutcomeInductive == Spec => []OutcomeInv
<1>1. ASSUME Init PROVE OutcomeInv
  <2>1. ASSUME NEW j \in Jobs PROVE ~SeenCompleted(j) /\ ~SeenFailed(j)
    <3>1. /\ fetching[j] = 0 /\ polls[j]["completed"] = 0
          /\ polls[j]["failed"] = 0
      BY <1>1 DEF Init, Answers, Terminal
    <3>2. phase = "idle"
      BY <1>1 DEF Init
    <3> QED
      BY <3>1, <3>2 DEF SeenCompleted, SeenFailed
  <2>2. OutcomesAgree
    BY <2>1 DEF OutcomesAgree
  <2> QED
    BY <1>1, <2>2, InitTypes
    DEF Init, OutcomeInv, ReportShown, StartedFirst, ReplayApart
<1>2. OutcomeInv /\ [Next]_vars => OutcomeInv'
  BY OutcomeStep
<1> QED
  BY <1>1, <1>2, PTL DEF Spec

(* A page that is done shows a report, unless a row was opened again       *)
(* between two requests, and a finished replay every entry, unless start   *)
(* and skip have waited together (page.tsx:64-81, useReplay.ts:54-103).    *)
THEOREM AlwaysComplete == Spec => []DoneIsComplete
<1>1. Init => ReplayInv
  <2>1. SUFFICES ASSUME Init PROVE ReplayInv
    OBVIOUS
  <2>2. ~replay.run /\ ~replay.finished
    BY <2>1 DEF Init, Idle
  <2>3. timeouts = {} /\ DOMAIN loaders = {}
    BY <2>1 DEF Init
  <2> QED
    BY <2>1, <2>2, <2>3, InitTypes DEF ReplayInv, Consistent
<1>2. ReplayInv /\ [Next]_vars => ReplayInv'
  BY ReplayStep
<1>3. ReplayInv /\ OutcomeInv => DoneIsComplete
  BY DEF ReplayInv, Consistent, OutcomeInv, ReportShown, DoneIsComplete
<1> QED
  BY <1>1, <1>2, <1>3, OutcomeInductive, PTL DEF Spec

(* The outcome a page has shown stands until the user leaves it.           *)
LEMMA OutcomeKept ==
  ASSUME OutcomeInv, OutcomeInv', [Next]_vars, phase \in {"done", "error"},
         ~strayed', reopenings = 0
  PROVE  phase' \in {phase, "idle"} /\ report' \in {report, Nothing}
<1>1. TypeInv /\ TypeRest
  BY DEF OutcomeInv, TypeInv, TypeOK, TypeRest
<1>2. OutcomesAgree /\ ReportShown /\ StartedFirst /\ ReplayApart
  BY DEF OutcomeInv
<1>3. CASE User
  BY <1>2, <1>3 DEF User, Reset, Play, Skip, Submit, ReplayApart
<1>4. CASE Server \/ Player \/ UNCHANGED vars
  BY <1>4
  DEF Server, GoSilent, EndJob, Reopen, LoseJob, Abandon, Player,
      FetchRecording, ScheduleFrames, FailStart, ShowResult, FailSkip,
      ShowFrame, live, vars
<1>5. ASSUME NEW j \in Jobs, Page(j)
      PROVE  phase' \in {phase, "idle"} /\ report' \in {report, Nothing}
  <2>10. CASE Poll(j) \/ AnswerPoll(j) \/ ReadError(j) \/ LoseReport(j)
    BY <2>10 DEF Poll, AnswerPoll, ReadError, LoseReport
  <2> SUFFICES ASSUME ~(Poll(j) \/ AnswerPoll(j) \/ ReadError(j)
                        \/ LoseReport(j))
               PROVE  /\ phase' \in {phase, "idle"}
                      /\ report' \in {report, Nothing}
    BY <2>10
  <2>1. ~strayed /\ j = current
    BY <1>1, <1>5
    DEF Page, StartPolling, RefuseJob, ReadRunning, ReadCompleted, ReadFailed,
        ReceiveReport, Touch, TypeRest
  <2>2. ~(StartPolling(j) \/ RefuseJob(j))
    BY <1>2, <2>1 DEF StartPolling, RefuseJob, StartedFirst
  <2>3. row[j] # "none"
    BY <1>1, <1>5, <2>2, PageHasJob
  <2>4. phase = "done" => SeenCompleted(j)
    BY <2>1 DEF SeenCompleted
  <2>5. phase = "error" => SeenFailed(j)
    BY <2>1, <2>3 DEF SeenFailed
  <2>6. ~(SeenCompleted(j) /\ SeenFailed(j))
    BY <1>2 DEF OutcomesAgree
  <2>7. CASE ReadFailed(j)
    <3>1. SeenFailed(j) /\ phase' = "error" /\ report' = report
      BY <2>7 DEF ReadFailed, Read, SeenFailed
    <3> QED
      BY <2>4, <2>6, <3>1
  <2>8. CASE ReceiveReport(j)
    <3>1. SeenCompleted(j) /\ phase' = "done"
      BY <2>8 DEF ReceiveReport, SeenCompleted
    <3>2. phase = "done"
      BY <2>5, <2>6, <3>1
    <3>3. report.job = j /\ report.is = "report" /\ row[j] = "completed"
      BY <1>2, <2>1, <2>8, <3>1, <3>2
      DEF ReportShown, OutcomesAgree, ReceiveReport
    <3>4. report = [job |-> j, is |-> "report"]
      BY <1>1, <3>3 DEF TypeRest, Shown
    <3> QED
      BY <2>8, <3>1, <3>2, <3>3, <3>4 DEF ReceiveReport
  <2>9. CASE ReadRunning(j) \/ ReadCompleted(j)
    BY <2>9 DEF ReadRunning, ReadCompleted
  <2> QED
    BY <1>5, <2>2, <2>7, <2>8, <2>9 DEF Page
<1> QED
  BY <1>3, <1>4, <1>5 DEF Next

(* What a page has shown as the outcome stands until the user leaves it,   *)
(* though earlier polls of the job are still answered (page.tsx:64-81).    *)
THEOREM OutcomesStand == Spec => OutcomeStands
<1>1. OutcomeInv /\ OutcomeInv' /\ [Next]_vars
      => [/\ phase \in {"done", "error"}
          /\ \/ phase' \notin {phase, "idle"}
             \/ report' \notin {report, Nothing}
          => strayed' \/ reopenings # 0]_vars
  BY OutcomeKept
<1> QED
  BY <1>1, OutcomeInductive, PTL DEF Spec, OutcomeStands

-----------------------------------------------------------------------------
(* The server *)

(* What the page's calls and the server do to a row is what ServedJob      *)
(* allows: run's answer tells the page of a new job, and of no other.      *)
THEOREM RowsAreServed == Spec => AnyServer
<1> DEFINE Begins == \A j \in Jobs : Served(j)!Init
           Steps == \A j \in Jobs : [Served(j)!Next]_(row[j])
<1>1. Init => Begins
  BY DEF Init, Served!Init
<1>2. TypeInv /\ [Next]_vars => Steps
  <2> SUFFICES ASSUME TypeInv, [Next]_vars, NEW j \in Jobs
               PROVE  Served(j)!Next \/ row'[j] = row[j]
    OBVIOUS
  <2>1. TypeOK /\ Unstarted /\ row \in [Jobs -> Rows]
    BY DEF TypeInv, TypeOK
  <2>2. CASE \/ User \/ Player \/ UNCHANGED vars
             \/ GoSilent \/ \E k \in Jobs : Abandon(k)
    BY <2>2
    DEF User, Reset, Play, Skip, Submit, Player, FetchRecording,
        ScheduleFrames, FailStart, ShowResult, FailSkip, ShowFrame, GoSilent,
        Abandon, live, vars
  <2>3. ASSUME NEW k \in Jobs, Page(k)
        PROVE  Served(j)!Next \/ row'[j] = row[j]
    <3>1. CASE StartPolling(k)
      BY <2>1, <3>1 DEF StartPolling, Unstarted, Served!Next, Served!Accept
    <3>2. CASE RefuseJob(k) \/ Poll(k) \/ AnswerPoll(k) \/ ReadRunning(k)
               \/ ReadCompleted(k) \/ ReadFailed(k) \/ ReadError(k)
               \/ ReceiveReport(k) \/ LoseReport(k)
      BY <3>2
      DEF RefuseJob, Poll, AnswerPoll, ReadRunning, ReadCompleted, ReadFailed,
          ReadError, ReceiveReport, LoseReport
    <3> QED
      BY <2>3, <3>1, <3>2 DEF Page
  <2>4. ASSUME NEW k \in Jobs, EndJob(k) \/ Reopen(k) \/ LoseJob(k)
        PROVE  Served(j)!Next \/ row'[j] = row[j]
    <3>1. k # j => row'[j] = row[j]
      BY <2>1, <2>4 DEF EndJob, Reopen, LoseJob
    <3>2. CASE k = j
      BY <2>1, <2>4, <3>2
      DEF EndJob, Reopen, LoseJob, Terminal, Served!Next, Served!End,
          Served!Reopen, Served!Lose, Served!Terminal
    <3> QED
      BY <3>1, <3>2
  <2> QED
    BY <2>2, <2>3, <2>4 DEF Next, Server
<1> HIDE DEF Begins, Steps
<1>3. Spec => []TypeInv
  BY InitTypes, TypesStep, PTL DEF Spec
<1>4. Spec => Begins /\ [][Steps]_vars
  BY <1>1, <1>2, <1>3, PTL DEF Spec
<1> QED
  BY <1>4 DEF AnyServer, Begins, Steps

(* And the server does all of it, so that what holds of the page holds     *)
(* with any server that implements ServedJob, within the bounds on         *)
(* reopened and lost rows.                                                 *)
OnlyRow(j) ==
  /\ row' = [row EXCEPT ![j] = row'[j]]
  /\ UNCHANGED <<submitted, strayed, phase, status, report, current, starting,
                 intervals, timer, polls, fetching, report_lost, played,
                 replay_mode, resets, server>>

THEOREM AnyServerIsMet ==
  ASSUME TypeOK, NEW j \in Jobs, OnlyRow(j)
  PROVE  /\ Served(j)!End /\ UNCHANGED <<reopenings, failures>> => EndJob(j)
         /\ Served(j)!Reopen /\ reopenings < MaxReopenings
              /\ reopenings' = reopenings + 1 /\ UNCHANGED failures => Reopen(j)
         /\ Served(j)!Lose /\ Fail /\ UNCHANGED reopenings => LoseJob(j)
<1>1. row \in [Jobs -> Rows]
  BY DEF TypeOK
<1> QED
  BY <1>1
  DEF OnlyRow, EndJob, Reopen, LoseJob, Terminal, Served!End, Served!Reopen,
      Served!Lose, Served!Terminal, played
=============================================================================
