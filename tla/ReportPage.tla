----------------------------- MODULE ReportPage ------------------------------
(***************************************************************************)
(* The page a reader of a report sees (frontend/app/page.tsx) with its     *)
(* calls of the server (frontend/lib/api.ts, the read endpoints of         *)
(* api/main.py), and the replay of a recording where there is no server    *)
(* (frontend/hooks/useReplay.ts, frontend/lib/demo.ts).                    *)
(*                                                                         *)
(* The browser runs one piece of code at a time, up to its next await; the *)
(* interval goes on firing while earlier polls are under way, and nothing  *)
(* takes a request back.  An answer is what the server read when it        *)
(* answered, not what is true when it arrives.                             *)
(***************************************************************************)
EXTENDS Integers, Sequences

CONSTANTS
  Jobs,          \* calls of run, by the job they start
  NoJob,
  Frames,        \* entries of the recording
  MaxPolls,      \* bound: requests about a job under way at once
  MaxFailures,   \* bound: requests that fail
  MaxReopenings, \* bound: finished rows that a worker opens or ends again
  MaxResets,     \* bound: clicks on "new research"
  MaxLoaders     \* bound: calls of start and skip that await at once

ASSUME PageAssumption ==
  /\ NoJob \notin Jobs /\ Frames \in Nat
  /\ MaxPolls \in Nat /\ MaxFailures \in Nat
  /\ MaxReopenings \in Nat /\ MaxResets \in Nat /\ MaxLoaders \in Nat

VARIABLES
  (* the server *)
  row,         \* the status of each job, as get_job returns it
  abandoned,   \* jobs nobody runs any more, whose row stays open
  readable,    \* the read endpoints answer
  (* the page, live *)
  phase, status, report,
  current,     \* the job of the last call of run
  starting,    \* calls of run that await generateReport
  intervals,   \* intervals that fire, by the job they poll
  timer,       \* timer.current
  polls,       \* getStatus under way: asked, or answered and not yet read
  fetching,    \* getReport under way
  (* the page, replaying *)
  replay,      \* ReplayState
  timeouts,    \* frames whose timeout is set; Frames + 1 ends the replay
  loaders,     \* calls of start and skip that await loadDemoRun
  recording,   \* the promise loadDemoRun has cached
  (* the environment *)
  replay_mode, failures, reopenings, resets,
  (* history *)
  submitted,   \* jobs run was called for
  strayed,     \* an answer meant for an earlier call of run was applied
  report_lost, \* a getReport has failed
  skip_lost,   \* a skip has failed to load the recording
  crossed      \* start and skip have awaited the recording together

server == <<abandoned, readable>>
live   == <<row, phase, status, report, current, starting, intervals, timer,
            polls, fetching, reopenings, report_lost>>
played == <<replay, timeouts, loaders, recording, skip_lost, crossed>>
vars   == <<row, phase, status, report, current, starting, intervals, timer,
            polls, fetching, reopenings, report_lost, replay, timeouts,
            loaders, recording, skip_lost, crossed, replay_mode, failures,
            resets, submitted, strayed, abandoned, readable>>

Terminal == {"completed", "failed"}
Rows     == {"none", "running", "lost"} \cup Terminal
Answers  == {"running", "error"} \cup Terminal
Phases   == {"idle", "running", "done", "error"}
Shown    == [job : Jobs \cup {NoJob}, is : {"none", "report", "not_ready"}]
Nothing  == [job |-> NoJob, is |-> "none"]
Replay   == [run : BOOLEAN, entries : 0..Frames, playing : BOOLEAN,
             finished : BOOLEAN, error : BOOLEAN]
Idle     == [run |-> FALSE, entries |-> 0, playing |-> FALSE,
             finished |-> FALSE, error |-> FALSE]

UnderWay(j) == polls[j]["asked"] + polls[j]["running"] + polls[j]["error"]
               + polls[j]["completed"] + polls[j]["failed"] + fetching[j]

TypeOK ==
  /\ row \in [Jobs -> Rows]
  /\ phase \in Phases
  /\ status \in Rows
  /\ report \in Shown
  /\ current \in Jobs \cup {NoJob}
  /\ starting \subseteq Jobs /\ intervals \subseteq Jobs
  /\ timer \in Jobs \cup {NoJob}
  /\ timer # NoJob => timer \in intervals
  /\ polls \in [Jobs -> [{"asked"} \cup Answers -> 0..MaxPolls]]
  /\ fetching \in [Jobs -> 0..MaxPolls]
  /\ \A j \in Jobs : UnderWay(j) <= MaxPolls
  /\ replay \in Replay
  /\ timeouts \subseteq 1..(Frames + 1)
  /\ loaders \in Seq({"start", "skip"})
  /\ recording \in {"none", "pending", "loaded", "rejected"}
  /\ {replay_mode, report_lost, skip_lost, crossed} \subseteq BOOLEAN
  /\ failures \in 0..MaxFailures /\ reopenings \in 0..MaxReopenings
  /\ resets \in 0..MaxResets
  /\ submitted \subseteq Jobs /\ strayed \in BOOLEAN
  /\ abandoned \subseteq Jobs /\ readable \in BOOLEAN

-----------------------------------------------------------------------------
(* Helpers.  A definition whose name ends in _ and a word is the definition *)
(* after it with a bug: no specification uses it, the mutation runs do.    *)

StopPolling_ForgetsTimer == intervals' = intervals \ {timer} /\ UNCHANGED timer
StopPolling == timer' = NoJob /\ intervals' = intervals \ {timer}

(* A request fails now and then.                                           *)
Fail == failures < MaxFailures /\ failures' = failures + 1

(* An answer is applied, perhaps one to a call of run that is not the      *)
(* page's last one.                                                        *)
Touch(j) == strayed' = (strayed \/ j # current) /\ UNCHANGED submitted

-----------------------------------------------------------------------------
Init ==
  /\ row = [j \in Jobs |-> "none"]
  /\ phase = "idle" /\ status = "none" /\ report = Nothing
  /\ current = NoJob /\ starting = {} /\ intervals = {} /\ timer = NoJob
  /\ polls = [j \in Jobs |-> [a \in {"asked"} \cup Answers |-> 0]]
  /\ fetching = [j \in Jobs |-> 0]
  /\ replay = Idle /\ timeouts = {} /\ loaders = <<>> /\ recording = "none"
  /\ replay_mode \in BOOLEAN
  /\ failures = 0 /\ reopenings = 0 /\ resets = 0
  /\ submitted = {} /\ strayed = FALSE
  /\ abandoned = {} /\ readable \in BOOLEAN
  /\ report_lost = FALSE /\ skip_lost = FALSE /\ crossed = FALSE

(* run, up to its call of generateReport.  Every call starts a new job;    *)
(* which of the unused ones stands for it does not matter.                 *)
Submit(j) ==
  /\ ~replay_mode /\ phase = "idle"
  /\ j \notin submitted /\ j = CHOOSE new \in Jobs : new \notin submitted
  /\ submitted' = submitted \cup {j}
  /\ StopPolling
  /\ phase' = "running" /\ status' = "none" /\ report' = Nothing
  /\ current' = j /\ starting' = starting \cup {j}
  /\ UNCHANGED <<server, strayed, row, polls, fetching, reopenings,
                 report_lost, played, replay_mode, failures, resets>>

(* generateReport returns and the interval is set: whatever the page shows *)
(* by now, and without a look at timer.current.                            *)
StartPolling(j) ==
  /\ Touch(j)
  /\ j \in starting /\ starting' = starting \ {j}
  /\ row' = [row EXCEPT ![j] = "running"]
  /\ intervals' = intervals \cup {j} /\ timer' = j
  /\ UNCHANGED <<server, phase, status, report, current, polls, fetching,
                 reopenings, report_lost, played, replay_mode, failures,
                 resets>>

RefuseJob(j) ==
  /\ Touch(j)
  /\ j \in starting /\ starting' = starting \ {j}
  /\ phase' = "error"
  /\ UNCHANGED <<server, row, status, report, current, intervals, timer,
                 polls, fetching, reopenings, report_lost, played,
                 replay_mode, failures, resets>>

(* The interval fires: another getStatus, however many are under way.      *)
Poll(j) ==
  /\ j \in intervals
  /\ UnderWay(j) < MaxPolls
  /\ polls' = [polls EXCEPT ![j]["asked"] = @ + 1]
  /\ UNCHANGED <<submitted, strayed, server, row, phase, status, report,
                 current, starting, intervals, timer, fetching, reopenings,
                 report_lost, played, replay_mode, failures, resets>>

(* get_report_status reads the row; 404 if there is none.  Behind Postgres *)
(* the feed of a row comes back as text, which JobStatusResponse refuses:  *)
(* 500, whatever the row says.                                             *)
Told(j) == IF readable /\ row[j] # "lost" THEN row[j] ELSE "error"

AnswerPoll(j) ==
  /\ polls[j]["asked"] > 0
  /\ \/ /\ polls' = [polls EXCEPT ![j]["asked"] = @ - 1, ![j][Told(j)] = @ + 1]
        /\ UNCHANGED failures
     \/ Fail /\ polls' = [polls EXCEPT ![j]["asked"] = @ - 1,
                                       ![j]["error"] = @ + 1]
  /\ UNCHANGED <<submitted, strayed, server, row, phase, status, report,
                 current, starting, intervals, timer, fetching, reopenings,
                 report_lost, played, replay_mode, resets>>

(* An answer is read.  What it says of the job is shown, and a job that    *)
(* has ended stops the polling: of timer.current, whichever job that is.   *)
Read(j, a) == polls[j][a] > 0 /\ polls' = [polls EXCEPT ![j][a] = @ - 1]

ReadRunning(j) ==
  /\ Touch(j)
  /\ Read(j, "running")
  /\ status' = "running"
  /\ UNCHANGED <<server, row, phase, report, current, starting, intervals,
                 timer, fetching, reopenings, report_lost, played,
                 replay_mode, failures, resets>>

ReadCompleted_DoneAtOnce(j) ==
  /\ Touch(j)
  /\ Read(j, "completed")
  /\ status' = "completed"
  /\ StopPolling
  /\ fetching' = [fetching EXCEPT ![j] = @ + 1]
  /\ phase' = "done"
  /\ UNCHANGED <<server, row, report, current, starting, reopenings,
                 report_lost, played, replay_mode, failures, resets>>
ReadCompleted(j) ==
  /\ Touch(j)
  /\ Read(j, "completed")
  /\ status' = "completed"
  /\ StopPolling
  /\ fetching' = [fetching EXCEPT ![j] = @ + 1]
  /\ UNCHANGED <<server, row, phase, report, current, starting, reopenings,
                 report_lost, played, replay_mode, failures, resets>>

ReadFailed(j) ==
  /\ Touch(j)
  /\ Read(j, "failed")
  /\ status' = "failed"
  /\ StopPolling
  /\ phase' = "error"
  /\ UNCHANGED <<server, row, report, current, starting, fetching, reopenings,
                 report_lost, played, replay_mode, failures, resets>>

(* The catch of the interval: logged, and the next poll is waited for.     *)
ReadError_Stops(j) ==
  /\ Read(j, "error")
  /\ StopPolling
  /\ UNCHANGED <<submitted, strayed, server, row, phase, status, report,
                 current, starting, fetching, reopenings, report_lost, played,
                 replay_mode, failures, resets>>
ReadError(j) ==
  /\ Read(j, "error")
  /\ UNCHANGED <<submitted, strayed, server, row, phase, status, report,
                 current, starting, intervals, timer, fetching, reopenings,
                 report_lost, played, replay_mode, failures, resets>>

(* getReport answers.  A row that is running again is a 202, which         *)
(* res.ok lets pass as if it were the report.                              *)
ReceiveReport(j) ==
  /\ Touch(j)
  /\ fetching[j] > 0 /\ fetching' = [fetching EXCEPT ![j] = @ - 1]
  /\ readable /\ row[j] \in {"running", "completed"}
  /\ report' = [job |-> j,
                is |-> IF row[j] = "completed" THEN "report" ELSE "not_ready"]
  /\ phase' = "done"
  /\ UNCHANGED <<server, row, status, current, starting, intervals, timer,
                 polls, reopenings, report_lost, played, replay_mode,
                 failures, resets>>

(* getReport fails, with 404, 409, 500 or on the way: the same catch, but  *)
(* there is no interval any more.                                          *)
LoseReport_ShowsError(j) ==
  /\ fetching[j] > 0 /\ fetching' = [fetching EXCEPT ![j] = @ - 1]
  /\ \/ (~readable \/ row[j] \in {"lost", "failed"}) /\ UNCHANGED failures
     \/ Fail
  /\ report_lost' = TRUE
  /\ phase' = "error"
  /\ UNCHANGED <<submitted, strayed, server, row, status, report, current,
                 starting, intervals, timer, polls, reopenings, played,
                 replay_mode, resets>>
LoseReport(j) ==
  /\ fetching[j] > 0 /\ fetching' = [fetching EXCEPT ![j] = @ - 1]
  /\ \/ (~readable \/ row[j] \in {"lost", "failed"}) /\ UNCHANGED failures
     \/ Fail
  /\ report_lost' = TRUE
  /\ UNCHANGED <<submitted, strayed, server, row, phase, status, report,
                 current, starting, intervals, timer, polls, reopenings,
                 played, replay_mode, resets>>

-----------------------------------------------------------------------------
(* The server: JobService and CeleryWorker, seen from outside.  A row      *)
(* ends; a worker that runs the job once more opens it again or ends it    *)
(* otherwise; with the in-process store a restart loses it.                *)
EndJob(j) ==
  /\ row[j] = "running"
  /\ \E s \in Terminal : row' = [row EXCEPT ![j] = s]
  /\ UNCHANGED <<server, submitted, strayed, phase, status, report, current,
                 starting, intervals, timer, polls, fetching, reopenings,
                 report_lost, played, replay_mode, failures, resets>>

Reopen(j) ==
  /\ row[j] \in Terminal
  /\ reopenings < MaxReopenings /\ reopenings' = reopenings + 1
  /\ \E s \in ({"running"} \cup Terminal) \ {row[j]} :
       row' = [row EXCEPT ![j] = s]
  /\ UNCHANGED <<server, submitted, strayed, phase, status, report, current,
                 starting, intervals, timer, polls, fetching, report_lost,
                 played, replay_mode, failures, resets>>

LoseJob(j) ==
  /\ row[j] \in {"running"} \cup Terminal
  /\ row' = [row EXCEPT ![j] = "lost"]
  /\ Fail
  /\ UNCHANGED <<server, submitted, strayed, phase, status, report, current,
                 starting, intervals, timer, polls, fetching, reopenings,
                 report_lost, played, replay_mode, resets>>

(* Nobody runs the job any more, and its row is still open: what the       *)
(* services call abandoned.                                                *)
Abandon(j) ==
  /\ row[j] = "running" /\ abandoned' = abandoned \cup {j}
  /\ Fail
  /\ UNCHANGED <<submitted, strayed, live, played, replay_mode, resets,
                 readable>>

(* The server stops answering its readers for good.                        *)
GoSilent ==
  /\ readable /\ readable' = FALSE
  /\ Fail
  /\ UNCHANGED <<submitted, strayed, live, played, replay_mode, resets,
                 abandoned>>

-----------------------------------------------------------------------------
(* The replay.                                                             *)

(* loadDemoRun: the first call fetches; its promise is kept, also when it  *)
(* is rejected.                                                            *)
LoadDemoRun ==
  recording' = IF recording = "none" THEN "pending" ELSE recording

(* Those who await it go on in the order in which they came, before any    *)
(* click or timeout is looked at.                                          *)
Await(caller) ==
  /\ Len(loaders) < MaxLoaders
  /\ loaders' = Append(loaders, caller)
  /\ crossed' = (crossed \/ \E i \in DOMAIN loaders : loaders[i] # caller)
  /\ LoadDemoRun
Resuming == recording \in {"loaded", "rejected"} /\ loaders # <<>>
Resumes(caller) ==
  /\ loaders # <<>> /\ Head(loaders) = caller
  /\ loaders' = Tail(loaders)

(* playReplay: start, up to its await.                                     *)
Play ==
  /\ replay_mode /\ phase = "idle" /\ phase' = "running"
  /\ timeouts' = {}
  /\ replay' = [Idle EXCEPT !.playing = TRUE]
  /\ Await("start")
  /\ UNCHANGED <<server, submitted, strayed, row, status, report, current,
                 starting, intervals, timer, polls, fetching, reopenings,
                 report_lost, skip_lost, replay_mode, failures, resets>>

Finished == [run |-> TRUE, entries |-> Frames, playing |-> FALSE,
             finished |-> TRUE, error |-> FALSE]

(* skipReplay, from the invitation or while playing; it waits for the      *)
(* recording only if the state it was rendered with has none.              *)
Skip ==
  /\ replay_mode /\ (phase = "idle" \/ replay.playing)
  /\ phase' = "running"
  /\ timeouts' = {}
  /\ IF replay.run
     THEN replay' = Finished /\ UNCHANGED <<loaders, recording, crossed>>
     ELSE Await("skip") /\ UNCHANGED replay
  /\ UNCHANGED <<server, submitted, strayed, row, status, report, current,
                 starting, intervals, timer, polls, fetching, reopenings,
                 report_lost, skip_lost, replay_mode, failures, resets>>

FetchRecording ==
  /\ recording = "pending"
  /\ \/ recording' = "loaded" /\ UNCHANGED failures
     \/ recording' = "rejected" /\ Fail
  /\ UNCHANGED <<server, submitted, strayed, live, replay, timeouts, loaders,
                 skip_lost, crossed, replay_mode, resets>>

(* start goes on: every frame gets a timeout, and the end one more.        *)
ScheduleFrames ==
  /\ recording = "loaded" /\ Resumes("start")
  /\ replay' = [replay EXCEPT !.run = TRUE, !.playing = TRUE]
  /\ timeouts' = 1..(Frames + 1)
  /\ UNCHANGED <<server, submitted, strayed, live, recording, skip_lost,
                 crossed, replay_mode, failures, resets>>

FailStart_Silently ==
  /\ recording = "rejected" /\ Resumes("start")
  /\ replay' = Idle
  /\ UNCHANGED <<server, submitted, strayed, live, timeouts, recording,
                 skip_lost, crossed, replay_mode, failures, resets>>
FailStart ==
  /\ recording = "rejected" /\ Resumes("start")
  /\ replay' = [Idle EXCEPT !.error = TRUE]
  /\ UNCHANGED <<server, submitted, strayed, live, timeouts, recording,
                 skip_lost, crossed, replay_mode, failures, resets>>

(* skip goes on; it has no catch.                                          *)
ShowResult ==
  /\ recording = "loaded" /\ Resumes("skip")
  /\ replay' = Finished
  /\ UNCHANGED <<server, submitted, strayed, live, timeouts, recording,
                 skip_lost, crossed, replay_mode, failures, resets>>

FailSkip ==
  /\ recording = "rejected" /\ Resumes("skip")
  /\ skip_lost' = TRUE
  /\ UNCHANGED <<server, submitted, strayed, live, replay, timeouts,
                 recording, crossed, replay_mode, failures, resets>>

(* The next timeout: a frame shows the entries up to it.                   *)
ShowFrame ==
  /\ ~Resuming
  /\ \E i \in timeouts :
       /\ \A n \in timeouts : i <= n
       /\ timeouts' = timeouts \ {i}
       /\ replay' = IF i <= Frames
                    THEN [replay EXCEPT !.entries = i]
                    ELSE [replay EXCEPT !.entries = Frames,
                                        !.playing = FALSE, !.finished = TRUE]
  /\ UNCHANGED <<server, submitted, strayed, live, loaders, recording,
                 skip_lost, crossed, replay_mode, failures, resets>>

(* reset, of the page and of the replay.  What is awaited goes on.         *)
Reset ==
  /\ phase # "idle" /\ phase' = "idle"
  /\ resets < MaxResets /\ resets' = resets + 1
  /\ StopPolling
  /\ status' = "none" /\ report' = Nothing
  /\ replay' = Idle /\ timeouts' = {}
  /\ UNCHANGED <<server, submitted, strayed, row, current, starting, polls,
                 fetching, reopenings, report_lost, loaders, recording,
                 skip_lost, crossed, replay_mode, failures>>

-----------------------------------------------------------------------------
User   == ~Resuming /\ (Reset \/ Play \/ Skip \/ \E j \in Jobs : Submit(j))
Server == GoSilent \/ \E j \in Jobs : \/ EndJob(j) \/ Reopen(j)
                                     \/ LoseJob(j) \/ Abandon(j)
Page(j) == \/ StartPolling(j) \/ RefuseJob(j) \/ Poll(j) \/ AnswerPoll(j)
           \/ ReadRunning(j) \/ ReadCompleted(j) \/ ReadFailed(j)
           \/ ReadError(j) \/ ReceiveReport(j) \/ LoseReport(j)
Player == FetchRecording \/ ScheduleFrames \/ FailStart \/ ShowResult
          \/ FailSkip \/ ShowFrame

Next == User \/ Server \/ Player \/ \E j \in Jobs : Page(j)
Spec == Init /\ [][Next]_vars

(* The browser fires its interval, requests end, and so does a job that is *)
(* not abandoned (AcceptedJobsSettle, JobsSettleForGood).  Nobody has to   *)
(* click anything.                                                         *)
Fairness ==
  /\ WF_vars(Player)
  /\ \A j \in Jobs :
       /\ WF_vars(StartPolling(j) \/ RefuseJob(j))
       /\ WF_vars(Poll(j)) /\ WF_vars(AnswerPoll(j))
       /\ WF_vars(ReadRunning(j)) /\ WF_vars(ReadError(j))
       /\ WF_vars(ReadCompleted(j)) /\ WF_vars(ReadFailed(j))
       /\ WF_vars(ReceiveReport(j) \/ LoseReport(j))
       /\ WF_vars(j \notin abandoned /\ EndJob(j))
FairSpec == Spec /\ Fairness

-----------------------------------------------------------------------------
(* The page shows the placeholder of a running job.                        *)
Waiting == phase = "running" /\ ~replay.finished /\ ~replay.error

(* Something that will change it is still to come.                         *)
Attended ==
  IF replay_mode THEN loaders # <<>> \/ timeouts # {}
  ELSE \/ starting # {} \/ timer # NoJob
       \/ \E j \in Jobs : fetching[j] > 0

(* A page that waits has something to wait for, whatever is answered late, *)
(* twice or after a reset, but for the two reads whose failure nobody      *)
(* handles (page.tsx:64-81, useReplay.ts:101-103).                         *)
WaitingIsAttended == Waiting => Attended \/ report_lost \/ skip_lost

(* Not so in the code: "a read that cannot be served may degrade, but it   *)
(* may not sit there implying work is still happening" (page.tsx:107).     *)
NeverWaitsForNothing == Waiting => Attended

(* A page that is done shows a report, and a finished replay every entry:  *)
(* unless a row was opened again between two requests (main.py:328) or     *)
(* start and skip have waited for the recording together (useReplay.ts:54, *)
(* 101).                                                                   *)
DoneIsComplete ==
  /\ phase = "done" /\ reopenings = 0 => report.is = "report"
  /\ replay.finished /\ ~crossed => replay.entries = Frames

(* What a page has shown as the outcome stands until the user leaves it,   *)
(* though earlier polls of the job are still answered: only a job the page *)
(* was reset from, or a row that ended twice, replaces it (page.tsx:64-81). *)
OutcomeStands ==
  [][/\ phase \in {"done", "error"}
     /\ \/ phase' \notin {phase, "idle"}
        \/ report' \notin {report, Nothing}
     => strayed' \/ reopenings # 0]_vars

(* A page stops waiting: polls that fail, overlap or come late, a reset    *)
(* and a second job do not keep it there (page.tsx:48-82).  What does:     *)
(* one of the two unhandled reads; its own job lost or abandoned; a        *)
(* server that answers no reader, such as one with Postgres                *)
(* (database.py:171-173), since an error that persists is not surfaced     *)
(* (page.tsx:78 says it is).                                               *)
PageSettles ==
  Waiting ~> \/ ~Waiting \/ report_lost \/ skip_lost \/ ~readable
             \/ current \in abandoned
             \/ \E j \in Jobs : j = current /\ row[j] = "lost"

-----------------------------------------------------------------------------
Served(j) == INSTANCE ServedJob WITH row <- row[j]

(* The server of this module is any that serves jobs: it does to a row     *)
(* what ServedJob allows, and (ReportPageProofs) all of it.                *)
AnyServer ==
  /\ \A j \in Jobs : Served(j)!Init
  /\ [][\A j \in Jobs : [Served(j)!Next]_(row[j])]_vars
=============================================================================
