----------------------------- MODULE EvalRunner ------------------------------
(***************************************************************************)
(* eval_sop/run_conditions.py: one process after another works through the *)
(* design (questions by conditions), skips what is on file, stops at the   *)
(* cap and is started again.  Every call of a run goes through             *)
(* SpendLedger's transport.                                                *)
(*                                                                         *)
(* A run makes some of its calls, in any order and several at a time: the  *)
(* agents decide that.  They also turn a failing call into an empty        *)
(* result, and asyncio.gather(return_exceptions=True) may do so even with  *)
(* BudgetStop, so a run may go on after it was stopped.                    *)
(***************************************************************************)
EXTENDS SpendLedger, Sequences, FiniteSetsExt

CONSTANTS
  Design,       \* the runs, in the order of the loop
  CallsOf,      \* the calls a run may make
  PlannedOf,    \* those plan._calls counts: without what d has cached for c
  Caps,         \* bound: the --usd-cap values an operator passes
  CreditCaps,   \* bound: the --tavily-cap values
  MaxLaunches   \* bound: processes started

ASSUME DesignAssumption ==
  /\ Design \in Seq(DOMAIN CallsOf)
  /\ \A r \in DOMAIN CallsOf :
       CallsOf[r] \subseteq Keys /\ PlannedOf[r] \subseteq CallsOf[r]
  /\ MaxLaunches \in Nat

VARIABLES
  pc,        \* where main_async is, in each process
  at,        \* the run the loop has come to
  force,     \* --force
  file,      \* runs/<condition>/<question>.json
  code,      \* exit code of the last process that ended by itself
  launches

vars == <<lock, up, releasing, cap, credit_cap, stop, call, attempt, spent,
          credits, cache, billed, paid, lost_answers, substituted,
          pc, at, force, file, code, launches>>

Runs    == DOMAIN CallsOf
Last    == Len(Design)
Records == {"ok", "error"}
Files   == {"none", "truncated"} \cup Records

TypeOK ==
  /\ LedgerTypeOK
  /\ pc \in [Pids -> {"out", "loop", "running", "writing"}]
  /\ up = {p \in Pids : pc[p] # "out"}
  /\ at \in 1..(Last + 1)
  /\ force \in BOOLEAN
  /\ file \in [Runs -> Files]
  /\ code \in {"none", "done", "crashed", "stopped", "declined", "interrupted"}
  /\ launches \in 0..MaxLaunches

-----------------------------------------------------------------------------
(* Helpers.                                                                *)

Run == Design[at]

(* worst_usd and worst_tavily: every planned call once, no retries.        *)
WorstUsd(r) == WorstOf[PlannedOf[r] \cap Prompts]
WorstTavily(r) ==
  MapThenSumSet(LAMBDA q : CreditsOf[q], PlannedOf[r] \cap Queries)

(* The design-level check of a run without --admission-control.            *)
DesignFits(usd_cap, tavily_cap) ==
  /\ MapThenSumSet(LAMBDA i : WorstUsd(Design[i]), 1..Last) <= usd_cap - spent
  /\ MapThenSumSet(LAMBDA i : WorstTavily(Design[i]), 1..Last)
       <= tavily_cap - credits

(* The check before every run.                                             *)
RunFits(p) ==
  /\ cap[p] - spent >= WorstUsd(Run)
  /\ credit_cap[p] - credits >= WorstTavily(Run)

(* Skipped without a look inside if --force, else by its error field.      *)
OnFile(r) == ~force /\ file[r] = "ok"
Unreadable(r) == ~force /\ file[r] = "truncated"

GoTo(p, label) == pc' = [pc EXCEPT ![p] = label]
(* What a process has of its own goes with it.                             *)
Leave(p) == GoTo(p, "out") /\ at' = 1 /\ force' = FALSE
EndsWith(p, c) == Exit(p) /\ Leave(p) /\ code' = c

-----------------------------------------------------------------------------
Init ==
  /\ LedgerInit
  /\ pc = [p \in Pids |-> "out"]
  /\ at = 1 /\ force = FALSE
  /\ file = [r \in Runs |-> "none"]
  /\ code = "none" /\ launches = 0

(* main_async up to the loop.  A process that is refused the lock, or      *)
(* whose design does not fit, ends without having changed anything.        *)
Launch(p) ==
  /\ launches < MaxLaunches /\ launches' = launches + 1
  /\ \E usd_cap \in Caps, tavily_cap \in CreditCaps, admission \in BOOLEAN :
       /\ admission \/ DesignFits(usd_cap, tavily_cap)
       /\ Install(p, usd_cap, tavily_cap)
  /\ GoTo(p, "loop")
  /\ at' = 1 /\ force' \in BOOLEAN
  /\ code' = "none"
  /\ UNCHANGED file

(* A run that is on file without an error is not made again.               *)
SkipRun(p) ==
  /\ pc[p] = "loop" /\ at <= Last
  /\ OnFile(Run)
  /\ at' = at + 1
  /\ UNCHANGED <<ledgerVars, pc, force, file, code, launches>>

(* json.loads raises on what a kill left of a record.                      *)
CrashOnRecord(p) ==
  /\ pc[p] = "loop" /\ at <= Last
  /\ Unreadable(Run)
  /\ EndsWith(p, "crashed")
  /\ UNCHANGED <<file, launches>>

(* Admission: the worst case of the next run does not fit.                 *)
Decline(p) ==
  /\ pc[p] = "loop" /\ at <= Last
  /\ ~OnFile(Run) /\ ~Unreadable(Run)
  /\ ~RunFits(p)
  /\ EndsWith(p, "declined")
  /\ UNCHANGED <<file, launches>>

BeginRun(p) ==
  /\ pc[p] = "loop" /\ at <= Last
  /\ ~OnFile(Run) /\ ~Unreadable(Run)
  /\ RunFits(p)
  /\ GoTo(p, "running")
  /\ UNCHANGED <<ledgerVars, at, force, file, code, launches>>

(* The run's next call goes out, or an answer comes in.                    *)
MakeCall(p) ==
  /\ pc[p] = "running"
  /\ \E k \in CallsOf[Run] : CallStep(p, k)
  /\ UNCHANGED <<pc, at, force, file, code, launches>>

(* The pipeline, or the handler of its exception, has returned.            *)
Quiet(p) == \A k \in Keys : call[p][k] \notin {"sent", "waiting"}

(* run_one looks at the flag, not at what the run made of BudgetStop, and  *)
(* the record is written: the file is truncated first.                     *)
ReturnRun_Unchecked(p) ==
  /\ pc[p] = "running" /\ Quiet(p)
  /\ file' = [file EXCEPT ![Run] = "truncated"]
  /\ GoTo(p, "writing")
  /\ UNCHANGED <<ledgerVars, at, force, code, launches>>
ReturnRun(p) ==
  /\ pc[p] = "running" /\ Quiet(p)
  /\ ~Stopped(p)
  /\ file' = [file EXCEPT ![Run] = "truncated"]
  /\ GoTo(p, "writing")
  /\ UNCHANGED <<ledgerVars, at, force, code, launches>>

WriteRecord(p) ==
  /\ pc[p] = "writing"
  /\ \E record \in Records : file' = [file EXCEPT ![Run] = record]
  /\ GoTo(p, "loop") /\ at' = at + 1
  /\ ForgetCalls(p)
  /\ UNCHANGED <<lock, up, releasing, cap, credit_cap, stop, spent, credits,
                 cache, billed, paid, lost_answers, substituted, force,
                 code, launches>>

(* BudgetStop reaches main_async: at once, with siblings still under way,  *)
(* or when run_one looks at the flag.  The run is not saved.               *)
StopRun(p) ==
  /\ pc[p] = "running"
  /\ Stopped(p)
  /\ EndsWith(p, "stopped")
  /\ UNCHANGED <<file, launches>>

Finish(p) ==
  /\ pc[p] = "loop" /\ at > Last
  /\ EndsWith(p, "done")
  /\ UNCHANGED <<file, launches>>

(* Ctrl-C, also in the middle of a record's write, which then stays        *)
(* truncated.                                                              *)
Interrupt(p) ==
  /\ pc[p] # "out"
  /\ EndsWith(p, "interrupted")
  /\ UNCHANGED <<file, launches>>

KillProcess(p) ==
  /\ Kill(p)
  /\ Leave(p)
  /\ UNCHANGED <<file, code, launches>>

DeleteLock ==
  /\ ClearStaleLock
  /\ UNCHANGED <<pc, at, force, file, code, launches>>

RunnerStep(p) ==
  \/ SkipRun(p) \/ CrashOnRecord(p) \/ Decline(p) \/ BeginRun(p)
  \/ MakeCall(p) \/ ReturnRun(p) \/ WriteRecord(p) \/ StopRun(p)
  \/ Finish(p)

Next ==
  \/ DeleteLock
  \/ \E p \in Pids :
       Launch(p) \/ RunnerStep(p) \/ Interrupt(p) \/ KillProcess(p)

Spec == Init /\ [][Next]_vars

-----------------------------------------------------------------------------
(* A run that a cap or a billing problem cut short is never written, even  *)
(* if the pipeline swallowed the stop; and exit code 0 means that every    *)
(* run of the design is on file, whole (run_conditions.py:289-298, 424-458). *)
RecordsAreWhole ==
  /\ \A p \in Pids :
       pc[p] = "writing" => \A k \in Keys : call[p][k] # "stopped"
  /\ code = "done" => \A i \in 1..Last : file[Design[i]] \in Records
=============================================================================
