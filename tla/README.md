# Verification of the Autonomous Research Report Agent

TLA+ models of this repository's research graph, of the services that run it, of
the page that shows its reports, of its LLM client and of the paid evaluation,
checked with TLC on small instances and, for the safety properties, proved with
TLAPS for every value of the constants.  Paths below are relative to `src/`.

## 1. The system

A client posts a research question to a FastAPI server.  The server stores a
job, runs a graph of LLM agents on it and stores the report; the client polls.

| Part | Code | State | Operations |
|---|---|---|---|
| Research graph | `agents/graph.py`, `agents/*_agent.py`, `agents/orchestrator.py`, `agents/schemas.py` | one `ResearchState` per job: outputs of this round, accumulators across rounds (`all_sources`, `carried_claims`), the last review, `converged`, the token account, the activity feed | one node per agent, a conditional edge back, `run_pipeline` around them |
| Inline job service | `api/main.py`, `api/inline_runner.py`, `api/database.py` | rows of jobs (a dict or Postgres), the set `_inline_tasks`, a gauge | submit, one detached task per job, status writes, read endpoints |
| Celery worker | `api/worker.py` | the broker's queue and the same rows | the task, redelivery, retry, time limits |
| LLM client | `agents/llm_client.py` | learned parameter names of the process, credentials in a context variable | call, structured call, retry, clamp of the output to the remaining budget |
| Search and scraping | `agents/tools/` | a client, a browser | search; fetch a page over httpx, else in a browser |
| User interface | `frontend/app/page.tsx`, `frontend/hooks/useReplay.ts`, `frontend/lib/` | phase, status, report, one interval, one timeout per frame, the cached recording | submit, poll, fetch the report, reset, replay a recording, skip |
| Evaluation | `eval_sop/budget.py`, `common.py`, `run_conditions.py`, `plan.py` | USD ledger, credit ledger, run lock, stop flag, caches, one file per run | install, reserve and settle, search, run the design, stop, resume |
| Scoring | `eval_sop/score.py`, `stats.py`, `judges.py`, `nli.py` | none | offline computations over the files |

Interaction: the UI polls the server over HTTP; the server and a job's task share
the store and the event loop; the task calls `run_pipeline` and is called back
after each node (`persist_progress`); nodes share nothing but the state they
are handed; the branches a node fans out with `asyncio.gather` share nothing and
are combined only when all are done.

What is hard here:

* the re-research loop: outputs are cleared each round, approved claims and their
  sources must survive, one node's `converged` is read rounds later;
* every agent may fail, and each has its own way out (fatal, fail open, skip,
  an empty answer, a retry); a node that raises loses its changes;
* replies can be billed and then be unusable, so that the account falls behind the bill;
* the capacity check and the count of running tasks are separated by an await;
* with Postgres each write can fail, or be applied and still raise; the task is
  detached, so what it fails to record nobody does;
* the server can stop at any point, and nothing looks at open rows afterwards;
* the broker delivers at least once, a publication may be repeated after the broker took
  it, a message may be lost with a process, and the retry is decided after the row
  already says failed;
* the page's polls overlap and cannot be taken back: answers arrive after the job
  ended, after a reset, or when another job is on the page;
* parallel model calls of several jobs teach each other a parameter name while some
  are retrying, and share a budget that each has read before any is charged;
* a paid evaluation may be killed between any two writes; what it spent must be in
  the ledger, and what it has paid for must not be paid again.

`PROJECT.json` lists the hazards with their lines, each with the properties that
cover it or the reason why none does yet.

## 2. The modules

| Module | What it is |
|---|---|
| `ResearchPromise` | abstract: what a job promises, whatever the agents do |
| `ResearchPipeline` | the research graph |
| `MCResearchPipeline` | its instances for TLC |
| `ResearchPipelineProofs` | its theorems |
| `JobLifecycle` | abstract: what a client may see of a job, whoever runs it |
| `ServedJob` | abstract: one job as the page that was told of it sees it; where the services and the page meet |
| `JobService` | submission, stores, detached tasks, restarts |
| `MCJobService` | its instances for TLC |
| `JobServiceProofs` | its theorems |
| `CeleryWorker` | the same jobs through a broker and a worker |
| `MCCeleryWorker` | its instances for TLC |
| `CeleryWorkerProofs` | its theorems |
| `LlmClient`, `MCLlmClient`, `LlmClientProofs` | parallel model calls, the learned name, the budget |
| `SpendLedger` | what a paid evaluation spends: ledgers, lock, stop flag, transport, caches |
| `SpendLedgerProofs` | its inductive invariant, and that each operation keeps it |
| `EvalRunner`, `MCEvalRunner`, `EvalRunnerProofs` | the loop over the design, on top of `SpendLedger` |
| `ReportPage`, `MCReportPage`, `ReportPageProofs` | the page, its requests and the replay |

Definitions whose name ends in `_` and a word are the definition below them with
a plausible bug; no specification uses them.  They exist to show that each
property can be broken by a change of the code.

### ResearchPipeline

Variables are the fields of `ResearchState`, plus `pc` (the node that runs next)
and three history variables: `reviewed` (how the last review ended), `ever_approved` and
`supersteps`.

* **One action per node outcome.**  `Orchestrate`/`OrchestrateFails`,
  `ParallelSearch`, `ParallelScraping`, `ParallelAnalysis`, four outcomes of the
  Critic (`CriticFindsNoClaims`, `CriticFailsOpen`, `CriticReview`,
  `CriticRaises`), `IncrementRound`, `SkipFactChecking`/`FactChecking`,
  `Writer`/`WriterFails`.  A node is atomic because nothing else reads or writes
  its state while it runs; the branches inside it are folded into one
  nondeterministic choice of what they return together, failed branches included.
* **Data.**  A claim is `[text, url]`: its text is what the code compares and
  de-duplicates by, its URL stands for the page it rests on.  `Unsourced` is a
  claim that cites no fetched page.  Lists without duplicates are sets; slices
  `[:n]` are `FirstOf(n, S)`, any `n` elements, which covers every order.
  Scores, confidence levels, wording and prompts are left out, except that a
  score outside [0, 1] makes `CriticAgentOutput` raise (`CriticRaises`).
* **Tokens and money** are in `LlmClient`: no node looks at what another has spent,
  except through the remainder its calls are told of.
* **Fatal errors** end the graph at once (`Halt`), as `run_pipeline` leaves the
  stream at a chunk with `fatal_error`, or at an exception.

### JobService

`store` is what `backend_name()` answers: both stores are checked in one run.

* **The event loop.**  Code runs until it awaits something not ready.  With the
  dict no store call waits, so `generate_report` is one step (`Admit`).  With
  Postgres it is three: check (`Admit`), INSERT (`CreateJob`), start of the task
  (`StartTask`), with everything else in between.
* **The store.**  `Outcomes` is what a call of Postgres may come to: `ok`, `lost`
  (raised, not applied), `unacked` (applied, and raised all the same: a timeout or
  a connection dropped before the acknowledgement).  With the dict it is `ok`.
* **The task** of a job is `run_job_inline` cut at its awaits: `BeginJob`,
  `PersistProgress` for each node of the pipeline (its errors are swallowed),
  `PipelineDelivers` or `PipelineFails`, `ReportFatal`, `CompleteJob`, and
  `FailJob`, the handler every error goes through.  `DiscardTask` is the done
  callback, a later turn of the loop.
* **`Restart`** is a crash, a reclaimed instance or a shutdown, at any moment:
  handlers, tasks and the dict are gone, rows in Postgres stay as they are.
* **History:** `abandoned` collects the jobs whose task or row a restart took, or
  whose failure could not be written, so that properties can say exactly when a
  client may be left waiting; `broke` is how a node ended the pipeline, with a fatal
  error it reported or by raising.

Not in it: the read endpoints (in `ReportPage`), validation and the rate
limit (they refuse before anything is stored), and `JOB_BACKEND=celery`, which is
`CeleryWorker`.  `active_jobs` only grows, as in the code: `release_active_job`
(`metrics.py:134`) is called nowhere, so the gauge "of currently running research
jobs" (`metrics.py:120`) counts accepted ones.

### CeleryWorker

`JOB_BACKEND=celery`, the service of `docker-compose.yml`.

* **The server** stores the row and publishes a message: `Admit`, `CreateJob`,
  `Publish`.  There is no capacity check on this path.
* **The broker** is `queue`, how many copies of each message wait; a message is a
  job and the number of its retries.  `Deliver` hands one to a free slot (a process
  of the worker); `Consumed` says whether the worker reads the queue the server
  publishes to.  The 30 seconds before a retry are left out: it waits like any
  other message.
* **A publication** (`Enqueue`, for `Dispatch` and for `Retry`) leaves some copies of
  the message.  `task_publish_retry` is on by default and `worker.py:33-46` does not turn
  it off, so `apply_async` tries again after a connection error, also after one that hid
  that the broker had taken the message: the request is accepted with two copies
  waiting.  If the error persists, the client gets a 500, whatever the broker took.
* **The task** is `submit_report_job` cut where another process can come between:
  `MarkRunning`, `RunPipeline`, `CompleteJob`, `FailJob` (the handler), `Retry`,
  `Acknowledge`.  Each write goes over a connection of its own and may be lost or
  applied unacknowledged; without `DATABASE_URL` the worker refuses every write
  (`WorkerOutcomes`), so such jobs stay queued.  An error is kept as far as the
  handler looks at it: is `ConnectionError` or `RateLimitError` in the name of its
  class?  A failure of the pipeline is a `RuntimeError`, whatever caused it.
* **What may go wrong around it:** `KillProcess` (the hard time limit, memory), upon
  which Celery acknowledges the message; `CrashWorker`, upon which the broker delivers
  again what was not acknowledged, as far as it has a record of it (`unacked`);
  `EvictQueue` and `EvictUnacked`, because the broker may evict any key
  (`docker-compose.yml:51`), the list of what waits or the record of what was
  delivered.  A worker that lives is assumed to keep its messages: the hard limit of
  20 minutes is below the hour after which the Redis transport would deliver them
  again.
* **History:** `starts` counts the pipelines paid for a job, `repeats` the copies of its
  messages beyond one each, `abandoned` the open jobs whose message or last write was lost.

### LlmClient

A node reads what is left of the job's budget, starts its calls with a share of it
each, and charges the job when `asyncio.gather` has all of them.

* **A call** goes `ready`, `first` (the request with the known or guessed name),
  `second` (after the server refused the name, with the other one), `returned`,
  `unusable` (billed, and not parsed) or `raised`.  `Interrupted` is what tenacity
  retries, from the start and with whatever name has been learned meanwhile; `Refused`
  is any other error.  The server accepts one or both names, and the guess may be
  wrong either way.
* **The budget.**  `Share` is the division among the calls of a node, `Clamp` the
  floor of 256 tokens a call may answer with even on a spent budget.  A reply may be
  as long as its clamp, after a prompt of up to `MaxInput` tokens, which nothing
  limits.  The tokens of a reply that does not parse are on no account: the node returns
  0 for it (`analyst_agent.py:213`, `fact_checker_agent.py:98`, `critic_agent.py:136`).
* **History:** `billed` counts the tokens of every reply, `spoiled` the finished nodes of
  a job that lost one, `made` its calls.
* All jobs are taken to use one OpenAI-compatible model; a job with another model,
  or with Anthropic, has no part in what is learned.

### SpendLedger and EvalRunner

The paid backend of `eval_sop/`.  `SpendLedger` has the state that all evaluation
processes share (`lock`, `spent`, `credits`, `cache`: files) and that of each (`cap`,
`stop`, `call`, `attempt`), with one action per outcome of a request;
`EvalRunner` extends it with the loop of `main_async`.

* **The ledger** is seen through `SUM(cost_usd)`, the only thing the code reads of
  it.  `Reserve` and `TripCap` are the two ends of `UsdLedger.reserve`, which commits
  before the request is sent; `Answer`, `RateLimited`, `Unsure`, `Reject`,
  `RejectAccount`, `Substitute` are the ways `_anthropic_generate` settles a row.
  Amounts are whole units, and an answer costs at most `worst_call_cost`, as long as
  `worst_input_tokens` over-counts (an assumption of the code, `budget.py:41`).
* **Between an answer and its place in the cache nothing awaits**, so `Answer` is
  one step; a kill may still come in between (second disjunct of `Kill`): the
  answer is paid and lost.
* **The lock** is a file.  A process that finds its own pid in it takes it over
  and does not register `release` (`budget.py:278-290`), so that file stays
  when it exits (`releasing`); `ClearStaleLock` is the operator who deletes it.
* **A run** makes some of its calls, in any order and several at a time (`MakeCall`),
  and may swallow a stop; `ReturnRun` looks at the flag.  A record is written by
  truncating its file first, and a kill or a Ctrl-C in between leaves it so.
  `PlannedOf` is what `plan._calls` counts: condition c without the prompts that d has
  cached.
* **History:** `billed` is the most the provider can have charged, `paid` how often
  an answer to a prompt was paid for, `lost_answers`, and `substituted` (another model
  was served).

Not in them: the local backend (it spends nothing), the canary, the dry run, the
cache of pages, and two calls of one run with the same cache key under way at once.

### ReportPage

The page in its two modes.  The browser runs one piece of code up to its next await;
the interval fires on, and no request is taken back.

* **Live.**  `Submit` to `LoseReport` are `run` and its interval cut at the awaits.
  `polls[j]` counts the `getStatus` under way for a job, by what the server has
  answered; `fetching` the `getReport`.  The closure of `run` knows its job, but
  `timer.current` is the page's: an answer about one job stops the polling of another.
* **The server** is `row`, the job as `JobService` and `CeleryWorker` leave it for a
  reader: it ends; a worker that runs it again reopens it or ends it otherwise;
  a restart loses the dict.  `Abandon` leaves a row open for ever, as the services do with
  the jobs they call abandoned.  `readable` is false of a server whose read endpoints
  answer nobody: from the start with Postgres as it is configured, where the feed comes
  back as text and `JobStatusResponse` refuses it (`database.py:172`), or after `GoSilent`.
  `Told` is what a poll is answered.  A 202 of `get_report` passes `res.ok` and is taken for
  a report (`not_ready`).
* **Replay.**  `Play` and `Skip` await the one cached promise (`recording`), which is
  kept when it is rejected; `loaders` go on in the order in which they came.
  Frames are timeouts, cleared by a reset, a skip or another start.
* **History:** `strayed` (an answer meant for an earlier job was applied),
  `report_lost` and `skip_lost` (one of the two unhandled reads failed), `crossed`
  (start and skip awaited the recording together).

## 3. What the runs check

| Run | Instance | Shows |
|---|---|---|
| `research_claims` | 3 rounds, 3 texts, 2 pages, symmetric; 2.4 million states | the seven invariants of finished and unfinished jobs below |
| `research_promise` | 2 rounds, 2 texts, 1 page, 2 questions; limits of 2 flags, 1 follow-up, 1 citation; fair | the graph implements `ResearchPromise`, each re-research round is targeted, every job ends |
| `inline_jobs` | 2 requests, 1 slot, 2 nodes, 1 restart, both stores; fair | the eight properties of the service below |
| `celery_jobs` | 1 job, 2 slots, 1 retry, 1 lost worker, 1 copy too many, both stores; fair; 437 thousand states | the seven properties of the worker below |
| `llm_calls` | 2 jobs, 3 nodes of up to 2 parallel calls, 2 attempts, budget 3, floor 1; symmetric; 1.2 million states | the learned name works, the budget is overdrawn and the bill exceeds it only so far |
| `eval_spend` | 2 pids, 2 launches, caps 5 and 7 against a worst case of 6, 3 prompts of which two runs share one, 1 search, 1 retry; symmetric; 1.4 million states | the six properties of a paid evaluation below |
| `report_page` | 2 jobs, 2 overlapping requests each, 3 frames, 1 failure (a request, a job lost or abandoned, a server gone silent), 1 reset, 1 row that changes after its end, servers whose reads work and others; fair; 963 thousand states | the five properties of the page below |

The properties of the graph:

* `EndsWithReportOrError`: a job ends with a report or with a fatal error.
* `ApprovedClaimsSurvive`: a claim approved in an earlier round is still before
  the Writer, with its page, unless the last review flagged it; no text is there
  twice.
* `ClaimsAreCited`, `NoRefutedClaimApproved`: no sourced claim without its citation
  (as long as the list is not cut off), none that the Fact-Checker did not verify.
* `ConvergedWasReviewed`: a report on reviewed claims is called converged exactly if its
  last review was satisfied, or wanted more with rounds left and named nothing to
  search; never because an earlier round was, nor after a review that failed.
* `LoopIsBounded`: at most `MaxRounds` rounds and `6 * MaxRounds + 1` node runs:
  19 for the 3 rounds a request may ask for, below the 25 at which the graph
  library gives up by default.
* `ReResearchIsTargeted`, `KeepsPromise`, `JobEnds`.

The properties of the service:

* `MemoryCeilingHolds`: with the dict, never more pipelines than
  `MAX_INLINE_JOBS`.
* `AcceptedIsPollable`: whoever was given a job id finds a row.
* `OpenJobsAreAttended`: an open row a client polls has a task at work on it,
  but for restarts and a failure whose own write is lost.
* `ReportedFailureIsNamed`: with the dict, the feed of a failed job ends with the agent
  that broke, if it reported its error; if it raised, with the agent before it.
* `KeepsLifecycle`: rows follow `JobLifecycle`: a job never goes back.
* `AcceptedJobsSettle`, `SlotsComeBack`: every accepted job comes to an end its
  row shows, and every slot is given back.

The properties of the worker:

* `OpenJobsAreAttended`: an accepted open job waits in the broker or is at work,
  unless its message or the write that ends it was lost.
* `OneRunAtATime`: until a worker is lost or a publication leaves more than one copy, a
  job never runs twice at once, nor beside a waiting copy: a retry is published when
  the attempt before it has written its last row.
* `WorkIsBounded`: the pipelines a client pays for: `max_retries + 1`, and that much
  more for each copy too many and for each slot of each lost worker.
* `FinishedRunsAgainForACause`: a finished job runs again only after a lost worker, for
  a copy too many or for a retry; the task itself looks at no status.
* `KeepsLifecycle`: rows follow `JobLifecycle!AtLeastOnce`: a finished job may run
  again, but is never back in the queue, and no report is taken away.
* `JobsSettleForGood`: every accepted job is finished in the end and stays so, or
  was lost.

The properties of the model calls:

* `LearnedNameWorks`: whatever is learned is a name the server takes, a request with
  a learned name is not refused for it, a corrected one not a second time.
* `OverrunIsBounded`: a job passes its budget by no more than the prompts and the
  floor of its calls: the remainder is spent once, not once for each parallel call.
* `BillIsBounded`: what the provider bills exceeds that by one budget at most for each
  node that lost a reply, however many of its parallel calls did.

The properties of a paid evaluation:

* `CapHolds`: the ledgers never pass the project's hard maxima, pending worst cases
  included, whatever caps the processes were started with.
* `LedgerCoversBill`: what was charged, and may be charged for what is under way, is
  in the ledger; only a substituted model breaks it.
* `OneSpender`: two processes never spend at once, through stale locks, locks taken
  over by an equal pid and locks deleted by hand.
* `PaidOnce`: an answer is paid for again only if a kill lost it.
* `RecordsAreWhole`: a run that was cut short is never written, and exit code 0
  means that every run of the design is on file, whole.

The properties of the page:

* `WaitingIsAttended`: a page in its loading state has a request, a timer or a timeout
  that will change it, but for the two reads nobody handles.
* `DoneIsComplete`: a page that is done shows a report and a finished replay all its
  entries, unless the row was reopened in between or start and skip crossed.
* `OutcomeStands`: an outcome stays on the page until the user leaves it, except for
  answers meant for an earlier job and rows that end twice.
* `PageSettles`: a page stops waiting, unless its job was lost or abandoned, the server
  answers no reader, or one of the two reads failed.

**Bounds.**  Three rounds is the most a request may ask for.  Three texts are the
flagged claim, the one approved beside it and one of a later round, and two pages an
early source from a late one; `research_promise` makes the slices cut, which
`research_claims` does not. Two requests are enough for a race for one slot; a second
node makes progress different from its last write; one restart meets every pair of
stages of two jobs.  The safety properties of these modules do not depend on any of
this: they are proved for every value.  `MaxNodes`, `MaxRestarts`, `MaxCrashes` and
`MaxRepeats` are bounds of the model, not of the code.  Jobs of the worker meet only
in its slots, and two slots let one job occupy both.  One retry (2 in the code) has a
first attempt, one that follows and none after it; `MaxRepeats` 1 is one copy too
many, of the first message or of the retry's.

`llm_calls`: `MaxFan` 2 puts a call that learns beside one that retries, in one job
and across two; three nodes let a job start one on a spent budget; `MaxAttempts` 2
(4 in the code) has a first, a second and no third.  `eval_spend`: the caps lie
below and above the design's worst case, so a run is refused, admitted, declined and
stopped; `MaxLaunches` 2 is one process and the one that comes after or beside it;
`MaxRetries` 1 (2 in the code) has a retry and a giving up.  `report_page`: `MaxPolls`,
the requests about a job under way at once, is 2: one that was answered before and
one after something changed; `MaxFailures`, `MaxResets`, `MaxReopenings` and
`MaxLoaders` bound what the environment and the user do.

**Fairness.**  `FairSpec` of the graph is weak fairness of its next step: each call of
a model, of the search or of a page has a timeout and a bounded number of attempts, so
a node that has started returns or raises.  `FairSpec` of the service is weak fairness
of each handler and of each task: the event loop runs whatever is ready, a statement
of Postgres is answered or times out (`command_timeout=30`), and a pipeline ends
(`JobEnds`).  Nobody is assumed to submit anything, and nothing is assumed about
restarts.  `FairSpec` of the worker is weak fairness of the server's handlers, of each
slot's task (the time limits end it) and of delivery: some free slot takes some
message.  No kill, crash or eviction is assumed.  `FairSpec` of the page: the browser
fires its interval and its timeouts, each request is answered or fails, and a job that
is not abandoned ends, which is what `AcceptedJobsSettle` and `JobsSettleForGood` show
of the two services.  The user is not assumed to click anything, and rows are not
assumed to be lost, abandoned or reopened.  `LlmClient` and `EvalRunner` have no
liveness property: their calls end because every request has a timeout.

**Deadlock** is not checked: a job that has ended, a server whose jobs have all
ended, an evaluation without launches left and a page nobody clicks on do nothing
more.

### Where the code departs from what it says

Each of these is a run that TLC must find violated.

| Run | What happens |
|---|---|
| `converged_stale` | a last round without claims keeps `converged` from the round before (67-89, against 149-151) |
| `ceiling_overshoot` | with Postgres, requests waiting for their INSERT overshoot `MAX_INLINE_JOBS` (`main.py:248-279`, against 69) |
| `compose_idle` | the worker of `docker-compose.yml:102` reads the queue `default`, the server publishes to Celery's default `celery`: accepted jobs stay queued (against line 91) |
| `killed_process` | the message of a killed process is acknowledged, not queued again (`worker.py:40`, against its comment) |
| `waits_for_nothing` | a failing recording under `skip`, or a failing `getReport`, leaves the page loading with nothing under way (`useReplay.ts:103`, `page.tsx:69-81`, against `page.tsx:109-110`) |

Seen while modelling, each the matter of one line, without a run:

* a Critic that wants another round, with rounds left, and flags nothing that can be
  searched, ends the loop with `converged` True (`critic_agent.py:208`, 216, against 210:
  "Converged = the Critic is satisfied"); `ConvergedWasReviewed` states it;
* a node that raises has no entry in the feed, since its changes are lost
  (`graph.py:241-246`, against `inline_runner.py:76`: "it names the agent that broke");
  `ReportedFailureIsNamed` states it;
* a Critic's score outside [0, 1] raises where the agent is to fail open
  (`critic_agent.py:218`, against 149);
* with Postgres the status endpoint answers 500 to every poll of a job, since its JSONB
  columns come back as text (`database.py:172`, against its comment: "asyncpg returns
  JSONB as dicts already");
* a poll error that persists is never surfaced (`page.tsx:77-80`, against its comment), so
  a page polls such a server, an abandoned job or a lost one for ever; `PageSettles`
  names these cases;
* a Critic whose call fails leaves RUNNING as its last entry in the feed
  (`critic_agent.py:147-163`, against 80-81);
* a billed reply that does not parse is in no account (`analyst_agent.py:213`, against
  `README.md:108`); `BillIsBounded` says how far the bill gets ahead;
* a claim that cites no fetched page reaches the Writer (`analyst_agent.py:90`, against
  `README.md:40`);
* a rate limit inside the pipeline reaches the worker's handler as `RuntimeError` and is
  not retried (`worker.py:153`, against 152);
* a retry is charged at its worst case, which `plan.py` does not count: a run that
  was admitted can still be stopped by the cap (`plan.py:5-15` says the ledger then
  refuses the call, as it does);
* a lock that was taken over is not released at exit (`budget.py:278-280`).

## 4. What is proved

From the assumptions on the constants alone: at least one round, at least one flag
that is searched again, prompts and costs that are positive, `Unsourced` not a page,
`Blank` not a question, limits, caps, capacity and retries natural numbers, finitely
many slots, no limit of an agent below the floor, `WorstOf` a sum over prompts, a
design that names runs.

**ResearchPipelineProofs.**  `TypeCorrect` first.  Five inductive invariants carry
the rest; TLC checked each before it was proved.

* `LoopInv` fixes the number of node runs by round and position: `pc` alone says
  where in the six steps of a round the job is.  It gives `LoopStops` and, since
  every step is a node run, `NodesRunOut`: what is left to run falls with each step,
  and an ended job takes none.
* `TargetInv`: a further round is started only for a flag; the slice of the flags
  that is searched again keeps at least one (`FirstOfNonempty`), its query is not
  blank, and the flags stay until the next review.  It gives `RoundsAreTargeted`.
* `SourceInv`: whatever is claimed, carried or approved rests on a page of
  `all_sources`; it holds because that set only grows.
* `ReviewInv`: between rounds approved claims are in `carried_claims`, within
  one they are there or in the review's output; texts stay unique.  `ever_approved`
  needs this split, since no single field holds the approved claims all the time.
* `ReportInv`: a report hands over what the review before it approved.

They give `JobOutcome`, `ApprovedClaimsReachTheWriter`,
`ClaimsKeepTheirCitation`, `RefutedClaimsStayOut`, `ConvergenceIsHonest` and, step
by step, `PipelineKeepsPromise`.  What `ConvergenceIsHonest` needs is a part of
`ReportInv`: from the last review on, through the Fact-Checker and the Writer, the flag is
the one that review found.  `FailureStaysAttributed` is inductive with `ReportInv`.

**JobServiceProofs.**  `TypeCorrect`; then

* `CapacityInv`: whoever works holds a slot, and with the dict no request is
  between check and start, so the one that takes a slot has just found it free.
  It gives `MemoryCeiling` for any number of requests.
* `JobInv` and `FeedInv`: a job's row, task and request agree, and a task that is
  failing has a node that broke and, with the dict, its whole feed in the row.  A step
  touches one job (lemma `Undisturbed`), so each action is examined for that job
  only.  They give `AcceptedJobsArePollable`, `NoJobIsLeftOpen`, `FailedJobsFeed` and
  `ServiceKeepsLifecycle`.
* `SlotInv`: a slot belongs to a task, at work or returned.  With it `TasksRunDown`
  ranks a task by its stage, the nodes it may still run (here the bound `MaxNodes`
  stands for `LoopStops`) and its slot: every step of the task lowers the rank,
  whether its writes succeed or not, no other step raises it, and rank 0 has no slot.

**CeleryWorkerProofs.**  `TypeCorrect`; then `JobInv` (a job's request, row and copies
agree) and `LoneInv` (until a worker is lost or a publication leaves a copy too many
there is one copy of a job, and its first attempt finds it queued), proved together: a
step touches one job or none (lemmas `Undisturbed`, `NoCopies`, `OtherJobs`), and only
the steps of the slot that holds a job can end its being alone (`StaysAlone`).  They
give `NoJobIsLeftOpen`, `NoJobRunsTwice`, `NoUncausedRerun` and, through the four ways
a row may change (`HowRowsChange`), `WorkerKeepsLifecycle`: for any number of jobs,
slots, retries, repeated publications and lost workers.

`NoWorkWithoutBound` needs to count.  A sum is written as the cardinality of a set
(`Units(S, f)` has `f[x]` pairs for each `x`), so that no recursion is needed and the
lemmas on finite sets apply: one element more adds its own units (`UnitsAdd`), a change
at one element shows as it is (`UnitsChange`).  `WorkInv` bounds, for each job, the
pipelines started, plus what its waiting copies are still good for, plus what the
slots that hold it owe.  A delivery moves work from the queue to a slot, a start
pays for it, a retry hands what is left back to the queue; a copy too many adds what one
submission may cost, and a lost worker returns at
most one copy for each slot (`GivenBack`, by an injection into the slots), which is
what the bound grows by.  `WorkIsBounded` alone is not inductive: it does not say what
is still waiting.

The same counting gives the safety half of `JobsSettleForGood`.  `Rank(j)` weighs the
starts that are left to a job and how far its copies and slots are within the task.
`JobsComeToRest`: each delivery and each step of a task lowers it, unless a
retry's publication is repeated, which `MaxRepeats` bounds, and only submission and a lost
worker raise it besides, so retries do not go round.  `RestedJobsStay`: an accepted
job of rank 0 is finished or known to be lost, and no step changes it any more, not
even a lost worker.

**LlmClientProofs.**  `TypeInv` adds to the types that a call which is ready has an
attempt left.  `LearnedNameWorks` is inductive with it: a call that knows sends an
accepted name, and of two names the refused one leaves the other.  `MoneyInv`
charges every open call at the worst it may still cost (`Worst`), so that a node that
starts has to fit (`ShareBounds`, `StartCosts`) and one that ends only gives back
(`OneLess`).  It keeps two sums, since a node is told of what the account has left and
not the bill: the account with its open calls, and the bill with the same calls.  They are
tied by a third part: as long as no reply of the running node is spoilt, the bill is ahead
by a budget at most for each node that lost one before; a node that loses some takes the
bill no further than its own worst case, which is one more.  It gives `OverrunStaysBounded`
and `BillStaysBounded` for any fan-out.

**SpendLedgerProofs, EvalRunnerProofs.**  `LedgerInv` has a part for each hazard:
`Alone` (only the process that the lock names has a state), `CallsInv` (a waiting
call has an attempt left, a stopped one a reason), `Covered` (the ledger holds the
worst case of everything under way, on top of the bill), `CapHolds`, and `CacheInv`
(what was paid for and not lost is cached, and not asked for).  `Covered` is what the
others lack: without it settling could make the sum negative, and a bound on `spent`
says nothing of the bill.  `StepKeeps` reduces a call's step to what it does to the
accounts and to that call; `CallKeeps` goes through the thirteen operations of the
transport, and install, exit, kill and the deleted lock have a lemma each.
`EvalRunnerProofs` adds `RunnerInv` (what the loop has passed is on file) and has the
theorems: for any design, costs and caps, any number of processes, retries,
interruptions and kills.

**ReportPageProofs.**  A request is counted in six places; the lemmas on counts say
how each step moves one of them, and that a job without a row has none
(`Unstarted`), so an answer is always one of four.  `AttendedInv` adds that the last
timeout is the one that ends the replay.  `ReplayInv` says what start and skip leave
behind as long as they wait one after the other.  `OutcomeInv` relates what is under
way to what is shown: until a row ends twice no job is seen both to complete and to
fail, by answers or by the page, and a page that shows an outcome of its own job does
not await that job's start.  `DoneIsComplete` alone is too weak: nothing in it keeps a
late answer of the same job from undoing it.

**The page and its servers.**  `ServedJob` is what a page that was told of a job may
see of its row: it appears, ends, may be opened again or end otherwise, and may be
lost for good.  `ServiceServesPages` and `WorkerServesPages` prove that both services
implement it (`ServesPages`; `Seen` is the refinement mapping: queued and running look
the same, and a row is not seen before its request was accepted).  `RowsAreServed`
proves that the rows of `ReportPage` do nothing else, and `AnyServerIsMet` that its
server can take every step `ServedJob` allows.  So the page's theorems are about
either service, and not about a server made up for the page.  Three limits: what they
say of answered polls is about servers whose reads work, and with Postgres they do not
(`readable`), so that behind it a page is shown nothing at all; a restart
of the inline service loses all rows in one step, which is a sequence of `LoseJob`s
here; rows are reopened and lost within `MaxReopenings` and `MaxFailures`, which
may be any numbers.

**Only model-checked:** that the liveness properties hold (`JobEnds`,
`AcceptedJobsSettle`, `SlotsComeBack`, `JobsSettleForGood`, `PageSettles`): liveness
under fairness and ENABLED are out of the prover's reach.  For all of them but
`PageSettles` the part without fairness is proved: a rank that the component's own
steps lower, and that nothing else raises but what the property allows for.  Every
invariant and every action property of the runs is a theorem.  `NodesRunDown`,
`SlotsRunDown`, `NobodyGoesRound`, `RestIsFinal`, `ServesPages` and `AnyServer` are in
no run; TLC found them to hold on the instances of `research_promise`, `inline_jobs`,
`celery_jobs` and `report_page` before they were proved.

## 5. Not modelled, and the plan

Left to prove: a measure for `PageSettles`, where a poll whose answer says that the
job still runs is repeated without a bound; and what the pipeline's step in the two
services (`PipelineDelivers`, `PipelineFails`, `RunPipeline`) takes from
`ResearchPromise`, which so far is read off both sides.

Not modelled:

* **Pure functions** (source triangulation beyond what `ResearchPipeline` uses,
  `extract_json`, the playback schedule, the reconstruction of what each round
  reviewed, `compute_cost`): sequential functions of text, of floating-point numbers
  or of whole recordings, which the unit tests reach.
* **Search and scraping tools.**  The ladder of attempts for one page has no state
  and no other actor; the redirect that is checked after its fetch is one line of
  it.  What the tools return is a choice in `ResearchPipeline`.
* **Other ways of running an evaluation**: the dry run, the canary, the local
  backend and the cache of pages.  They spend nothing, or through the same ledger.
* **Credentials of a request** (a context variable each task copies) and the
  pricing table.
* **Scoring, statistics and judges**, **demo recording**, **rendering**, prompts and
  wording, logging, tracing and dashboards.
