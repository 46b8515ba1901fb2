-------------------------- MODULE EvalRunnerProofs ---------------------------
(***************************************************************************)
(* The safety properties of an evaluation, for any design, costs and caps, *)
(* any number of processes, and however often they are interrupted, killed *)
(* and started again.                                                      *)
(***************************************************************************)
EXTENDS EvalRunner, SpendLedgerProofs

(* The runs the loop has passed are on file, except that the record of one *)
(* that the design names twice may be under the pen again.                 *)
PassedInv ==
  \A p \in up : \A i \in 1..Last :
    i < at => \/ file[Design[i]] \in Records
              \/ pc[p] = "writing" /\ Design[i] = Run

RunnerInv ==
  /\ up # {} => code = "none"
  /\ code = "done" => \A i \in 1..Last : file[Design[i]] \in Records
  /\ \A p \in Pids : pc[p] = "writing" => ~Stopped(p)
  /\ \A p \in Pids : pc[p] \in {"running", "writing"} => at <= Last
  /\ PassedInv


Inv == TypeOK /\ LedgerInv /\ RunnerInv

-----------------------------------------------------------------------------
LEMMA LastIsNat == Last \in Nat /\ \A i \in 1..Last : Design[i] \in Runs
BY DesignAssumption DEF Last, Runs

(* A call leaves the processes where they are.                             *)
LEMMA CallFrame ==
  ASSUME NEW p, NEW k, CallStep(p, k)
  PROVE  up' = up
BY DEF CallStep, Replay, RaiseStop, Reserve, TripCap, Answer, RateLimited,
       Unsure, Reject, RejectAccount, Substitute, BookSearch, TripCredits,
       SearchAnswers

(* Of the processes only one is anywhere.                                  *)
LEMMA OneAtWork ==
  ASSUME Inv, NEW p \in Pids, pc[p] # "out"
  PROVE  /\ p \in up /\ code = "none"
         /\ \A q \in Pids \ {p} : q \notin up /\ pc[q] = "out"
<1>1. p \in up
  BY DEF Inv, TypeOK
<1>2. \A q \in Pids \ {p} : q \notin up
  BY <1>1, OthersRest DEF Inv, LedgerInv
<1> QED
  BY <1>1, <1>2 DEF Inv, TypeOK, RunnerInv

(* The loop goes to another place in the same process.                     *)
LEMMA Moves ==
  ASSUME Inv, NEW p \in Pids, pc[p] # "out",
         NEW label \in {"loop", "running", "writing"}, GoTo(p, label), up' = up
  PROVE  /\ pc' \in [Pids -> {"out", "loop", "running", "writing"}]
         /\ up' = {q \in Pids : pc'[q] # "out"}
         /\ pc'[p] = label
         /\ \A q \in Pids \ {p} : pc'[q] = "out"
<1>1. /\ p \in up
      /\ \A q \in Pids \ {p} : q \notin up /\ pc[q] = "out"
  BY OneAtWork
<1>2. pc' = [pc EXCEPT ![p] = label]
  BY DEF GoTo
<1> QED
  BY <1>1, <1>2 DEF Inv, TypeOK

(* A process that leaves is the only one.                                  *)
LEMMA Leaves ==
  ASSUME Inv, NEW p \in Pids, p \in up, Leave(p), LedgerInv', up' = {},
         file' = file, launches' = launches,
         code' \in {"none", "done", "crashed", "stopped", "declined",
                    "interrupted"},
         code' = "done" => \A i \in 1..Last : file[Design[i]] \in Records
  PROVE  Inv'
<1>0. TypeOK /\ LedgerTypeOK'
  BY DEF Inv, LedgerInv
<1>1. \A q \in Pids \ {p} : pc[q] = "out"
  BY <1>0, OneAtWork DEF TypeOK
<1>2. pc' = [pc EXCEPT ![p] = "out"] /\ at' = 1 /\ force' = FALSE
  BY DEF Leave, GoTo
<1>3. /\ pc' \in [Pids -> {"out", "loop", "running", "writing"}]
      /\ \A q \in Pids : pc'[q] = "out"
  BY <1>0, <1>1, <1>2 DEF TypeOK
<1>4. up' = {q \in Pids : pc'[q] # "out"}
  BY <1>3
<1>5. at' \in 1..(Last + 1) /\ force' \in BOOLEAN
  <2>1. 1 \in 1..(Last + 1)
    BY LastIsNat
  <2>2. FALSE \in BOOLEAN
    OBVIOUS
  <2> QED
    BY <1>2, <2>1, <2>2
<1>6. TypeOK'
  <2>1. file' \in [Runs -> Files] /\ launches' \in 0..MaxLaunches
    BY <1>0 DEF TypeOK
  <2> QED
    BY <1>0, <1>3, <1>4, <1>5, <2>1 DEF TypeOK
<1>7. RunnerInv'
  <2>1. \A q \in Pids : pc'[q] \notin {"running", "writing"}
    BY <1>3
  <2> QED
    BY <2>1 DEF RunnerInv, PassedInv
<1> QED
  BY <1>6, <1>7 DEF Inv

(* However a process ends by itself.                                       *)
LEMMA EndsKeeps ==
  ASSUME Inv, NEW p \in Pids,
         NEW c \in {"done", "crashed", "stopped", "declined", "interrupted"},
         EndsWith(p, c), file' = file, launches' = launches,
         c = "done" => \A i \in 1..Last : file[Design[i]] \in Records
  PROVE  Inv'
<1>1. Exit(p) /\ Leave(p) /\ code' = c
  BY DEF EndsWith
<1>2. LedgerInv' /\ up' = {} /\ p \in up
  BY <1>1, ExitKeeps DEF Inv, Exit, Vanish
<1> QED
  BY <1>1, <1>2, Leaves

-----------------------------------------------------------------------------
(* The invariant: one process at most, whose accounts cover its requests,  *)
(* and behind whose loop everything is on file.                            *)
THEOREM RunnerInvariant == Spec => []Inv
<1>1. Init => Inv
  <2> SUFFICES ASSUME Init PROVE Inv
    OBVIOUS
  <2>1. /\ NoCalls \in [Keys -> Stages]
        /\ NoAttempts \in [Prompts -> 0..(MaxRetries + 1)]
        /\ 0 \in 0..HardMaxUsd /\ 0 \in 0..HardMaxCredits
    BY LedgerAssumption DEF NoCalls, NoAttempts, Stages
  <2>2. LedgerTypeOK
    BY <2>1 DEF Init, LedgerInit, LedgerTypeOK, Reasons
  <2>3. Alone /\ CallsInv /\ CacheInv
    BY DEF Init, LedgerInit, Alone, CallsInv, CacheInv, NoCalls, NoAttempts, Keys
  <2>4. Covered
    <3>1. \A p \in Pids : InFlight(p) = {}
      BY NothingInFlight DEF Init, LedgerInit
    <3>2. \A p \in Pids : WorstOf[InFlight(p)] = 0
      BY <3>1, WorstAssumption
    <3>3. spent = 0 /\ billed = 0
      BY DEF Init, LedgerInit
    <3> QED
      BY <3>2, <3>3 DEF Covered
  <2>5. CapHolds
    BY LedgerAssumption DEF Init, LedgerInit, CapHolds
  <2>6. TypeOK
    <3>1. pc \in [Pids -> {"out", "loop", "running", "writing"}]
          /\ up = {p \in Pids : pc[p] # "out"}
      BY DEF Init, LedgerInit
    <3>2. file \in [Runs -> Files]
      BY DEF Init, Files
    <3>3. at \in 1..(Last + 1) /\ launches \in 0..MaxLaunches
      BY LastIsNat, DesignAssumption DEF Init
    <3> QED
      BY <2>2, <3>1, <3>2, <3>3 DEF Init, TypeOK
  <2>7. RunnerInv
    BY DEF Init, LedgerInit, RunnerInv, PassedInv
  <2> QED
    BY <2>2, <2>3, <2>4, <2>5, <2>6, <2>7 DEF Inv, LedgerInv
<1>2. Inv /\ [Next]_vars => Inv'
  <2> SUFFICES ASSUME Inv, [Next]_vars PROVE Inv'
    OBVIOUS
  <2>t. TypeOK /\ LedgerInv /\ RunnerInv /\ LedgerTypeOK
    BY DEF Inv, TypeOK
  <2>1. ASSUME NEW p \in Pids, Launch(p) PROVE Inv'
    <3>1. PICK usd_cap \in Caps, tavily_cap \in CreditCaps :
            Install(p, usd_cap, tavily_cap)
      BY <2>1 DEF Launch
    <3>2. LedgerInv' /\ up' = {p} /\ Stopped(p)' = Stopped(p)
      BY <2>t, <3>1, InstallKeeps
    <3>3. up = {}
      BY <2>t, <3>1, LedgerAssumption
      DEF LedgerInv, Install, Acquire, Alone, LedgerTypeOK
    <3>4. /\ pc' = [pc EXCEPT ![p] = "loop"] /\ at' = 1 /\ force' \in BOOLEAN
          /\ code' = "none" /\ file' = file
          /\ launches < MaxLaunches /\ launches' = launches + 1
      BY <2>1 DEF Launch, GoTo
    <3>5. \A q \in Pids : pc[q] = "out"
      BY <2>t, <3>3 DEF TypeOK
    <3>6. /\ pc' \in [Pids -> {"out", "loop", "running", "writing"}]
          /\ pc'[p] = "loop" /\ \A q \in Pids \ {p} : pc'[q] = "out"
      BY <2>t, <3>4, <3>5 DEF TypeOK
    <3>7. up' = {q \in Pids : pc'[q] # "out"}
      BY <3>2, <3>6
    <3>8. at' \in 1..(Last + 1) /\ launches' \in 0..MaxLaunches
      BY <2>t, <3>4, LastIsNat, DesignAssumption DEF TypeOK
    <3>9. TypeOK'
      BY <2>t, <3>2, <3>4, <3>6, <3>7, <3>8 DEF TypeOK, LedgerInv
    <3>10. RunnerInv'
      <4>1. \A q \in Pids : pc'[q] \notin {"running", "writing"}
        BY <3>6
      <4>2. PassedInv'
        BY <3>4 DEF PassedInv
      <4> QED
        BY <3>4, <4>1, <4>2 DEF RunnerInv
    <3> QED
      BY <3>2, <3>9, <3>10 DEF Inv
  <2>2. ASSUME NEW p \in Pids, SkipRun(p) PROVE Inv'
    <3>1. /\ pc[p] = "loop" /\ at <= Last /\ file[Run] = "ok" /\ at' = at + 1
          /\ UNCHANGED <<ledgerVars, pc, force, file, code, launches>>
      BY <2>2 DEF SkipRun, OnFile
    <3>2. LedgerInv'
      BY <2>t, <3>1, RestKeeps
    <3>3. TypeOK'
      <4>1. at' \in 1..(Last + 1)
        BY <2>t, <3>1, LastIsNat DEF TypeOK
      <4>2. up' = up
        BY <3>1 DEF ledgerVars
      <4> QED
        BY <2>t, <3>1, <3>2, <4>1, <4>2 DEF TypeOK, LedgerInv
    <3>4. PassedInv'
      <4> SUFFICES ASSUME NEW q \in up', NEW i \in 1..Last, i < at'
                   PROVE  file'[Design[i]] \in Records
        BY DEF PassedInv
      <4>1. q = p /\ q \in up
        BY <2>t, <3>1, OneAtWork DEF ledgerVars, LedgerTypeOK
      <4>2. CASE i < at
        BY <2>t, <3>1, <4>1, <4>2 DEF RunnerInv, PassedInv
      <4>3. CASE i = at
        BY <3>1, <4>3 DEF Run, Records
      <4> QED
        BY <2>t, <3>1, <4>2, <4>3, LastIsNat DEF TypeOK
    <3>5. RunnerInv'
      <4>1. \A q \in Pids : pc'[q] \notin {"running", "writing"}
        BY <3>1, OneAtWork
      <4> QED
        BY <2>t, <3>1, <3>4, <4>1 DEF RunnerInv, ledgerVars
    <3> QED
      BY <3>2, <3>3, <3>5 DEF Inv
  <2>3. ASSUME NEW p \in Pids, CrashOnRecord(p) PROVE Inv'
    BY <2>3, EndsKeeps DEF CrashOnRecord
  <2>4. ASSUME NEW p \in Pids, Decline(p) PROVE Inv'
    BY <2>4, EndsKeeps DEF Decline
  <2>5. ASSUME NEW p \in Pids, BeginRun(p) PROVE Inv'
    <3>1. /\ pc[p] = "loop" /\ at <= Last /\ GoTo(p, "running")
          /\ UNCHANGED <<ledgerVars, at, force, file, code, launches>>
      BY <2>5 DEF BeginRun
    <3>2. LedgerInv' /\ up' = up
      BY <2>t, <3>1, RestKeeps DEF ledgerVars
    <3>3. /\ pc' \in [Pids -> {"out", "loop", "running", "writing"}]
          /\ up' = {q \in Pids : pc'[q] # "out"}
          /\ pc'[p] = "running"
          /\ \A q \in Pids \ {p} : pc'[q] = "out"
      BY <3>1, <3>2, Moves
    <3>4. TypeOK'
      BY <2>t, <3>1, <3>2, <3>3 DEF TypeOK, LedgerInv
    <3>5. PassedInv'
      BY <2>t, <3>1, <3>2, <3>3 DEF RunnerInv, PassedInv, LedgerTypeOK
    <3>6. \A q \in Pids : pc'[q] # "writing"
      BY <3>3
    <3>7. RunnerInv'
      BY <2>t, <3>1, <3>2, <3>5, <3>6 DEF RunnerInv
    <3> QED
      BY <3>2, <3>4, <3>7 DEF Inv
  <2>6. ASSUME NEW p \in Pids, MakeCall(p) PROVE Inv'
    <3>1. /\ pc[p] = "running"
          /\ UNCHANGED <<pc, at, force, file, code, launches>>
      BY <2>6 DEF MakeCall
    <3>2. at \in 1..(Last + 1) /\ p \in up
      BY <2>t, <3>1 DEF TypeOK
    <3>3. PICK k \in CallsOf[Run] : CallStep(p, k)
      BY <2>6 DEF MakeCall
    <3>4. up' = up
      BY <3>3, CallFrame
    <3>5. LedgerInv'
      <4>1. at \in 1..Last
        BY <2>t, <3>1, <3>2, LastIsNat DEF RunnerInv
      <4>2. Run \in Runs
        BY <4>1, LastIsNat DEF Run
      <4>3. k \in Keys
        BY <3>3, <4>2, DesignAssumption DEF Runs
      <4> QED
        BY <2>t, <3>2, <3>3, <4>3, CallKeeps
    <3>6. TypeOK'
      BY <2>t, <3>1, <3>4, <3>5 DEF TypeOK, LedgerInv
    <3>7. \A q \in Pids : pc'[q] # "writing"
      BY <3>1, OneAtWork
    <3>8. RunnerInv'
      BY <2>t, <3>1, <3>4, <3>7 DEF RunnerInv, PassedInv, Run
    <3> QED
      BY <3>5, <3>6, <3>8 DEF Inv
  <2>7. ASSUME NEW p \in Pids, ReturnRun(p) PROVE Inv'
    <3>1. /\ pc[p] = "running" /\ ~Stopped(p) /\ GoTo(p, "writing")
          /\ file' = [file EXCEPT ![Run] = "truncated"]
          /\ UNCHANGED <<ledgerVars, at, force, code, launches>>
      BY <2>7 DEF ReturnRun
    <3>2. LedgerInv' /\ up' = up
      BY <2>t, <3>1, RestKeeps DEF ledgerVars
    <3>3. /\ pc' \in [Pids -> {"out", "loop", "running", "writing"}]
          /\ up' = {q \in Pids : pc'[q] # "out"}
          /\ pc'[p] = "writing"
          /\ \A q \in Pids \ {p} : pc'[q] = "out"
      BY <3>1, <3>2, Moves
    <3>4. file' \in [Runs -> Files]
      BY <2>t, <3>1 DEF TypeOK, Files
    <3>5. TypeOK'
      BY <2>t, <3>1, <3>2, <3>3, <3>4 DEF TypeOK, LedgerInv
    <3>6. PassedInv'
      <4> SUFFICES ASSUME NEW q \in up', NEW i \in 1..Last, i < at'
                   PROVE  file'[Design[i]] \in Records \/ Design[i] = Run
        BY <3>1, <3>2, <3>3, <2>t DEF PassedInv, Run, LedgerTypeOK
      <4>1. file[Design[i]] \in Records
        BY <2>t, <3>1, <3>2, <3>3 DEF RunnerInv, PassedInv
      <4> QED
        BY <2>t, <3>1, <4>1, LastIsNat DEF TypeOK
    <3>7. RunnerInv'
      <4>1. code' = "none"
        BY <3>1, OneAtWork
      <4>2. \A q \in Pids : pc'[q] = "writing" => ~Stopped(q)'
        BY <3>1, <3>3 DEF ledgerVars, Stopped
      <4>3. at' <= Last
        BY <2>t, <3>1 DEF RunnerInv
      <4> QED
        BY <3>6, <4>1, <4>2, <4>3 DEF RunnerInv
    <3> QED
      BY <3>2, <3>5, <3>7 DEF Inv
  <2>8. ASSUME NEW p \in Pids, WriteRecord(p) PROVE Inv'
    <3>1. /\ pc[p] = "writing" /\ GoTo(p, "loop") /\ at' = at + 1
          /\ ForgetCalls(p)
          /\ UNCHANGED <<lock, up, releasing, cap, credit_cap, stop, spent,
                         credits, cache, billed, paid, lost_answers,
                         substituted, force, code, launches>>
      BY <2>8 DEF WriteRecord
    <3>r. PICK record \in Records : file' = [file EXCEPT ![Run] = record]
      BY <2>8 DEF WriteRecord
    <3>2. LedgerInv' /\ up' = up /\ p \in up
      BY <2>t, <3>1, ForgetKeeps, OneAtWork
    <3>3. /\ pc' \in [Pids -> {"out", "loop", "running", "writing"}]
          /\ up' = {q \in Pids : pc'[q] # "out"}
          /\ pc'[p] = "loop"
          /\ \A q \in Pids \ {p} : pc'[q] = "out"
      BY <3>1, <3>2, Moves
    <3>4. file' \in [Runs -> Files]
      BY <2>t, <3>r DEF TypeOK, Files
    <3>l. at <= Last
      BY <2>t, <3>1 DEF RunnerInv
    <3>5. at' \in 1..(Last + 1)
      BY <2>t, <3>1, <3>l, LastIsNat DEF TypeOK
    <3>6. TypeOK'
      BY <2>t, <3>1, <3>2, <3>3, <3>4, <3>5 DEF TypeOK, LedgerInv
    <3>7. PassedInv'
      <4> SUFFICES ASSUME NEW q \in up', NEW i \in 1..Last, i < at'
                   PROVE  file'[Design[i]] \in Records
        BY DEF PassedInv
      <4>1. q = p
        BY <3>3, <2>t, <3>2 DEF LedgerTypeOK
      <4>2. file \in [Runs -> Files] /\ Design[i] \in Runs
        BY <2>t, LastIsNat DEF TypeOK
      <4>3. CASE Design[i] = Run
        BY <3>r, <4>2, <4>3
      <4>4. CASE Design[i] # Run
        <5>1. i # at
          BY <4>4 DEF Run
        <5>2. i < at
          BY <2>t, <3>1, <5>1, LastIsNat DEF TypeOK
        <5>3. file[Design[i]] \in Records
          BY <2>t, <3>2, <4>4, <5>2 DEF RunnerInv, PassedInv
        <5> QED
          BY <3>r, <4>2, <4>4, <5>3
      <4> QED
        BY <4>3, <4>4
    <3>8. RunnerInv'
      <4>1. code' = "none"
        BY <3>1, OneAtWork
      <4>2. \A q \in Pids : pc'[q] \notin {"running", "writing"}
        BY <3>3
      <4> QED
        BY <3>7, <4>1, <4>2 DEF RunnerInv
    <3> QED
      BY <3>2, <3>6, <3>8 DEF Inv
  <2>9. ASSUME NEW p \in Pids, StopRun(p) PROVE Inv'
    BY <2>9, EndsKeeps DEF StopRun
  <2>10. ASSUME NEW p \in Pids, Finish(p) PROVE Inv'
    <3>1. pc[p] = "loop" /\ at > Last
      BY <2>10 DEF Finish
    <3>2. p \in up
      BY <3>1, OneAtWork
    <3>3. \A i \in 1..Last : i < at
      BY <2>t, <3>1, LastIsNat DEF TypeOK
    <3>4. \A i \in 1..Last : file[Design[i]] \in Records
      BY <2>t, <3>1, <3>2, <3>3 DEF RunnerInv, PassedInv
    <3> QED
      BY <2>10, <3>4, EndsKeeps DEF Finish
  <2>11. ASSUME NEW p \in Pids, Interrupt(p) PROVE Inv'
    BY <2>11, EndsKeeps DEF Interrupt
  <2>12. ASSUME NEW p \in Pids, KillProcess(p) PROVE Inv'
    <3>1. /\ Kill(p) /\ Leave(p) /\ p \in up
          /\ UNCHANGED <<file, code, launches>>
      BY <2>12 DEF KillProcess, Kill, Vanish
    <3>2. LedgerInv' /\ up' = {}
      BY <2>t, <3>1, KillKeeps
    <3>3. code' = "none"
      BY <2>t, <3>1 DEF RunnerInv
    <3> QED
      BY <3>1, <3>2, <3>3, Leaves
  <2>13. CASE DeleteLock
    <3>1. /\ ClearStaleLock
          /\ UNCHANGED <<pc, at, force, file, code, launches>>
      BY <2>13 DEF DeleteLock
    <3>2. LedgerInv' /\ up' = up /\ stop' = stop
      BY <2>t, <3>1, ClearKeeps DEF ClearStaleLock
    <3>3. TypeOK'
      BY <2>t, <3>1, <3>2 DEF TypeOK, LedgerInv
    <3>4. RunnerInv'
      BY <2>t, <3>1, <3>2 DEF RunnerInv, PassedInv, Run, Stopped
    <3> QED
      BY <3>2, <3>3, <3>4 DEF Inv
  <2>14. CASE UNCHANGED vars
    <3>1. /\ UNCHANGED ledgerVars
          /\ UNCHANGED <<pc, at, force, file, code, launches>>
      BY <2>14 DEF vars, ledgerVars
    <3>2. LedgerInv' /\ up' = up /\ stop' = stop
      BY <2>t, <3>1, RestKeeps DEF ledgerVars
    <3>3. TypeOK'
      BY <2>t, <3>1, <3>2 DEF TypeOK, LedgerInv
    <3>4. RunnerInv'
      BY <2>t, <3>1, <3>2 DEF RunnerInv, PassedInv, Run, Stopped
    <3> QED
      BY <3>2, <3>3, <3>4 DEF Inv
  <2> QED
    BY <2>1, <2>2, <2>3, <2>4, <2>5, <2>6, <2>7, <2>8, <2>9, <2>10, <2>11,
       <2>12, <2>13, <2>14 DEF Next, RunnerStep
<1> QED
  BY <1>1, <1>2, PTL DEF Spec

(* Every variable holds what its declaration says.                         *)
THEOREM TypeCorrect == Spec => []TypeOK
BY RunnerInvariant, PTL DEF Inv

(* The hard maximum holds, pending worst cases included.                   *)
THEOREM HardMaximumHolds == Spec => []CapHolds
<1>1. Inv => CapHolds
  BY LedgerInvImplies DEF Inv
<1> QED
  BY <1>1, RunnerInvariant, PTL

(* The ledger is never below what the provider has charged and may yet     *)
(* charge, unless a model was substituted.                                 *)
THEOREM LedgerKeepsUp == Spec => []LedgerCoversBill
<1>1. Inv => LedgerCoversBill
  BY LedgerInvImplies DEF Inv
<1> QED
  BY <1>1, RunnerInvariant, PTL

(* Two processes never spend at once.                                      *)
THEOREM SpendersTakeTurns == Spec => []OneSpender
<1>1. Inv => OneSpender
  BY LedgerInvImplies DEF Inv
<1> QED
  BY <1>1, RunnerInvariant, PTL

(* An answer is paid for once, unless a kill lost it.                      *)
THEOREM AnswersArePaidOnce == Spec => []PaidOnce
<1>1. Inv => PaidOnce
  BY LedgerInvImplies DEF Inv
<1> QED
  BY <1>1, RunnerInvariant, PTL

(* What is on file is whole, and exit code 0 means that all of it is.      *)
THEOREM RecordsStayWhole == Spec => []RecordsAreWhole
<1>1. Inv => RecordsAreWhole
  BY DEF Inv, LedgerInv, CallsInv, RunnerInv, RecordsAreWhole
<1> QED
  BY <1>1, RunnerInvariant, PTL
=============================================================================
