-------------------------- MODULE SpendLedgerProofs --------------------------
(***************************************************************************)
(* The inductive invariant of SpendLedger, for any costs, any caps and any *)
(* number of processes, and that each of its operations keeps it.  What    *)
(* runs the operations is in EvalRunner; the theorems are in               *)
(* EvalRunnerProofs.                                                       *)
(***************************************************************************)
EXTENDS SpendLedger, TLAPS

(* Only the process that holds the lock has a state.                       *)
Alone ==
  \A p \in Pids :
    /\ p \in up => lock = p
    /\ p \notin up => /\ call[p] = NoCalls /\ attempt[p] = NoAttempts
                      /\ stop[p] = "none"

(* A call that waits has an attempt left, a stopped one a reason.          *)
CallsInv ==
  \A p \in Pids :
    /\ \A k \in Prompts :
         /\ call[p][k] = "idle" => attempt[p][k] = 0
         /\ call[p][k] = "waiting" => attempt[p][k] <= MaxRetries
    /\ \A k \in Keys : call[p][k] = "stopped" => Stopped(p)

(* The rows of what is under way are in the ledger, on top of what was     *)
(* charged.                                                                *)
Covered ==
  \A p \in Pids :
    /\ WorstOf[InFlight(p)] <= spent
    /\ ~substituted => billed + WorstOf[InFlight(p)] <= spent

(* What was paid for and not lost is in the cache, and is not asked for.   *)
CacheInv ==
  \A k \in Prompts :
    /\ k \notin lost_answers =>
         paid[k] = 0 \/ (paid[k] = 1 /\ k \in cache)
    /\ \A p \in Pids : call[p][k] \in {"sent", "waiting"} => k \notin cache

LedgerInv ==
  /\ LedgerTypeOK /\ Alone /\ CallsInv /\ Covered /\ CapHolds /\ CacheInv

-----------------------------------------------------------------------------
(* Sums of worst cases.                                                    *)
LEMMA WorstIsPositive ==
  /\ \A S \in SUBSET Prompts : WorstOf[S] \in Nat
  /\ \A k \in Prompts : Worst(k) \in Nat /\ Worst(k) >= 1
<1>1. \A k \in Prompts : k \in Prompts \ {} /\ {k} \in SUBSET Prompts
  OBVIOUS
<1> QED
  BY <1>1, WorstAssumption DEF Worst

LEMMA WorstWithout ==
  ASSUME NEW S \in SUBSET Prompts, NEW k \in S
  PROVE  WorstOf[S] = WorstOf[S \ {k}] + Worst(k)
<1>1. S \ {k} \in SUBSET Prompts /\ k \in Prompts \ (S \ {k})
  OBVIOUS
<1>2. (S \ {k}) \cup {k} = S
  OBVIOUS
<1> QED
  BY <1>1, <1>2, WorstAssumption DEF Worst

LEMMA WorstWith ==
  ASSUME NEW S \in SUBSET Prompts, NEW k \in Prompts \ S
  PROVE  WorstOf[S \cup {k}] = WorstOf[S] + Worst(k)
BY WorstAssumption DEF Worst

(* One call of one process moves.                                          *)
LEMMA CallMoves ==
  ASSUME LedgerTypeOK, NEW p \in Pids, NEW k \in Keys, NEW s \in Stages,
         SetCall(p, k, s)
  PROVE  /\ call' \in [Pids -> [Keys -> Stages]]
         /\ call'[p][k] = s
         /\ \A m \in Keys \ {k} : call'[p][m] = call[p][m]
         /\ \A q \in Pids \ {p} : call'[q] = call[q]
BY DEF LedgerTypeOK, SetCall

LEMMA FlightStarts ==
  ASSUME LedgerTypeOK, NEW p \in Pids, NEW k \in Prompts,
         call[p][k] # "sent", SetCall(p, k, "sent")
  PROVE  /\ WorstOf[InFlight(p)'] = WorstOf[InFlight(p)] + Worst(k)
         /\ WorstOf[InFlight(p)] \in Nat
<1>1. InFlight(p)' = InFlight(p) \cup {k}
  BY CallMoves DEF InFlight, Keys, Stages
<1>2. InFlight(p) \in SUBSET Prompts /\ k \in Prompts \ InFlight(p)
  BY DEF InFlight
<1> QED
  BY <1>1, <1>2, WorstWith, WorstIsPositive

LEMMA FlightEnds ==
  ASSUME LedgerTypeOK, NEW p \in Pids, NEW k \in InFlight(p),
         NEW s \in Stages, s # "sent", SetCall(p, k, s)
  PROVE  /\ WorstOf[InFlight(p)] = WorstOf[InFlight(p)'] + Worst(k)
         /\ WorstOf[InFlight(p)'] \in Nat
<1>1. k \in Prompts /\ k \in Keys
  BY DEF InFlight, Keys
<1>2. InFlight(p)' = InFlight(p) \ {k}
  BY <1>1, CallMoves DEF InFlight, Keys
<1>3. InFlight(p) \in SUBSET Prompts
  BY DEF InFlight
<1> QED
  BY <1>2, <1>3, WorstWithout, WorstIsPositive

LEMMA FlightStays ==
  ASSUME LedgerTypeOK, NEW p \in Pids, NEW k \in Keys, NEW s \in Stages,
         k \in Queries \/ (call[p][k] # "sent" /\ s # "sent"),
         SetCall(p, k, s)
  PROVE  InFlight(p)' = InFlight(p)
BY CallMoves, LedgerAssumption DEF InFlight, Keys

(* A process that holds the lock is alone.                                 *)
LEMMA OthersRest ==
  ASSUME LedgerTypeOK, Alone, NEW p \in up, NEW q \in Pids \ {p}
  PROVE  /\ q \notin up /\ call[q] = NoCalls /\ attempt[q] = NoAttempts
         /\ stop[q] = "none"
BY DEF LedgerTypeOK, Alone

LEMMA NothingInFlight ==
  ASSUME NEW q \in Pids, call[q] = NoCalls
  PROVE  InFlight(q) = {}
BY DEF InFlight, NoCalls, Keys

(* A process moves one of its calls, whatever it does to the accounts: what*)
(* the invariant asks of the accounts, of that process and of that call.   *)
LEMMA StepKeeps ==
  ASSUME LedgerInv, NEW p \in up, NEW k \in Keys, NEW s \in Stages \ {"idle"},
         SetCall(p, k, s),
         UNCHANGED <<lock, up, releasing, cap, credit_cap, lost_answers>>,
         stop' \in [Pids -> Reasons],
         \A q \in Pids \ {p} : stop'[q] = stop[q],
         Stopped(p) \/ s = "stopped" => Stopped(p)',
         attempt' \in [Pids -> [Prompts -> 0..(MaxRetries + 1)]],
         \A q \in Pids \ {p} : attempt'[q] = attempt[q],
         \A m \in Prompts \ {k} : attempt'[p][m] = attempt[p][m],
         k \in Prompts /\ s = "waiting" => attempt'[p][k] <= MaxRetries,
         spent' \in Nat, credits' \in Nat, billed' \in Nat,
         substituted' \in BOOLEAN,
         spent' <= HardMaxUsd, credits' <= HardMaxCredits,
         WorstOf[InFlight(p)'] <= spent',
         ~substituted' => billed' + WorstOf[InFlight(p)'] <= spent',
         \/ /\ cache' = cache /\ paid' = paid
            /\ k \in Prompts /\ s \in {"sent", "waiting"} => k \notin cache
         \/ /\ cache' = cache \cup {k} /\ s = "done"
            /\ k \in Prompts => /\ k \notin cache
                                /\ paid' = [paid EXCEPT ![k] = @ + 1]
            /\ k \notin Prompts => paid' = paid
  PROVE  LedgerInv'
<1> USE DEF LedgerInv
<1>0. p \in Pids
  BY DEF LedgerTypeOK
<1>1. /\ call' \in [Pids -> [Keys -> Stages]]
      /\ call'[p][k] = s
      /\ \A m \in Keys \ {k} : call'[p][m] = call[p][m]
      /\ \A q \in Pids \ {p} : call'[q] = call[q]
  BY <1>0, CallMoves
<1>2. paid' \in [Prompts -> Nat] /\ cache' \subseteq Keys
  <2>1. paid \in [Prompts -> Nat] /\ cache \subseteq Keys
    BY DEF LedgerTypeOK
  <2>2. k \in Prompts => [paid EXCEPT ![k] = @ + 1] \in [Prompts -> Nat]
    BY <2>1
  <2> QED
    BY <2>1, <2>2
<1>3. LedgerTypeOK'
  BY <1>1, <1>2 DEF LedgerTypeOK
<1>4. \A q \in Pids \ {p} : /\ q \notin up /\ call[q] = NoCalls
                            /\ attempt[q] = NoAttempts /\ stop[q] = "none"
  BY OthersRest
<1>5. Alone'
  BY <1>1, <1>4 DEF Alone
<1>6. CallsInv'
  <2> SUFFICES ASSUME NEW q \in Pids
               PROVE  /\ \A m \in Prompts :
                          /\ call'[q][m] = "idle" => attempt'[q][m] = 0
                          /\ call'[q][m] = "waiting" => attempt'[q][m] <= MaxRetries
                      /\ \A m \in Keys : call'[q][m] = "stopped" => Stopped(q)'
    BY DEF CallsInv
  <2>1. CASE q = p
    <3>1. ASSUME NEW m \in Prompts
          PROVE  /\ call'[p][m] = "idle" => attempt'[p][m] = 0
                 /\ call'[p][m] = "waiting" => attempt'[p][m] <= MaxRetries
      <4>1. CASE m = k
        BY <4>1, <1>1
      <4>2. CASE m # k
        BY <4>2, <1>0, <1>1 DEF CallsInv, Keys
      <4> QED
        BY <4>1, <4>2
    <3>2. ASSUME NEW m \in Keys, call'[p][m] = "stopped" PROVE Stopped(p)'
      BY <3>2, <1>0, <1>1 DEF CallsInv
    <3> QED
      BY <2>1, <3>1, <3>2
  <2>2. CASE q # p
    BY <2>2, <1>1, <1>4 DEF CallsInv, Stopped
  <2> QED
    BY <2>1, <2>2
<1>7. Covered'
  <2> SUFFICES ASSUME NEW q \in Pids
               PROVE  /\ WorstOf[InFlight(q)'] <= spent'
                      /\ ~substituted' => billed' + WorstOf[InFlight(q)'] <= spent'
    BY DEF Covered
  <2>1. CASE q = p
    BY <2>1
  <2>2. CASE q # p
    <3>1. call'[q] = NoCalls
      BY <2>2, <1>1, <1>4
    <3>2. InFlight(q)' = {}
      BY <3>1 DEF InFlight, NoCalls, Keys
    <3>3. WorstOf[InFlight(q)'] = 0 /\ WorstOf[InFlight(p)'] \in Nat
      <4>1. InFlight(p)' \in SUBSET Prompts
        BY DEF InFlight
      <4> QED
        BY <3>2, <4>1, WorstAssumption
    <3>4. WorstOf[InFlight(q)'] <= spent'
      BY <3>3
    <3>5. ASSUME ~substituted' PROVE billed' + WorstOf[InFlight(q)'] <= spent'
      <4>1. billed' + WorstOf[InFlight(p)'] <= spent'
        BY <3>5
      <4>2. \A b, c, d \in Nat : b + d <= c => b + 0 <= c
        OBVIOUS
      <4>3. billed' + 0 <= spent'
        BY <3>3, <4>1, <4>2
      <4> QED
        BY <3>3, <4>3
    <3> QED
      BY <3>4, <3>5
  <2> QED
    BY <2>1, <2>2
<1>8. CapHolds'
  BY DEF CapHolds
<1>9. CacheInv'
  <2> SUFFICES ASSUME NEW m \in Prompts
               PROVE  /\ m \notin lost_answers' =>
                           paid'[m] = 0 \/ (paid'[m] = 1 /\ m \in cache')
                      /\ \A q \in Pids :
                           call'[q][m] \in {"sent", "waiting"} => m \notin cache'
    BY DEF CacheInv
  <2>m. m \in Keys /\ paid \in [Prompts -> Nat]
    BY DEF Keys, LedgerTypeOK
  <2>1. m \notin lost_answers =>
          paid'[m] = 0 \/ (paid'[m] = 1 /\ m \in cache')
    <3>1. m \notin lost_answers => paid[m] = 0 \/ (paid[m] = 1 /\ m \in cache)
      BY DEF CacheInv
    <3>2. CASE paid' = paid
      BY <3>1, <3>2
    <3>3. CASE /\ k \in Prompts /\ k \notin cache /\ cache' = cache \cup {k}
               /\ paid' = [paid EXCEPT ![k] = @ + 1]
      BY <3>1, <3>3, <2>m
    <3> QED
      BY <3>2, <3>3
  <2>2. ASSUME NEW q \in Pids, call'[q][m] \in {"sent", "waiting"}
        PROVE  m \notin cache'
    <3>1. q = p
      BY <2>2, <2>m, <1>1, <1>4 DEF NoCalls
    <3>2. CASE m = k
      BY <2>2, <3>1, <3>2, <1>1
    <3>3. CASE m # k
      <4>1. m \notin cache
        BY <2>2, <3>1, <3>3, <2>m, <1>0, <1>1 DEF CacheInv
      <4> QED
        BY <4>1, <3>3
    <3> QED
      BY <3>2, <3>3
  <2> QED
    BY <2>1, <2>2
<1> QED
  BY <1>3, <1>5, <1>6, <1>7, <1>8, <1>9

-----------------------------------------------------------------------------
(* The accounts, as long as nothing is booked and no request ends.         *)
LEMMA AccountsStand ==
  ASSUME LedgerInv, NEW p \in up, NEW k \in Keys, NEW s \in Stages,
         SetCall(p, k, s),
         k \in Queries \/ (call[p][k] # "sent" /\ s # "sent"),
         UNCHANGED <<spent, billed, substituted>>
  PROVE  /\ spent' \in Nat /\ spent' <= HardMaxUsd
         /\ billed' \in Nat /\ substituted' \in BOOLEAN
         /\ WorstOf[InFlight(p)'] <= spent'
         /\ ~substituted' => billed' + WorstOf[InFlight(p)'] <= spent'
<1>1. p \in Pids /\ LedgerTypeOK
  BY DEF LedgerInv, LedgerTypeOK
<1>2. InFlight(p)' = InFlight(p)
  BY <1>1, FlightStays
<1> QED
  BY <1>1, <1>2 DEF LedgerInv, LedgerTypeOK, Covered, CapHolds

(* A request ends: its row may keep all of the worst case or any part of   *)
(* it, as long as what was charged is in it.                               *)
LEMMA AccountsSettle ==
  ASSUME LedgerInv, NEW p \in up, NEW k \in InFlight(p),
         NEW s \in Stages, s # "sent", SetCall(p, k, s),
         NEW cost \in Nat, cost <= Worst(k), Settle(k, cost),
         billed' \in Nat, substituted' \in BOOLEAN,
         ~substituted' => ~substituted /\ billed' <= billed + cost
  PROVE  /\ spent' \in Nat /\ spent' <= HardMaxUsd
         /\ WorstOf[InFlight(p)'] <= spent'
         /\ ~substituted' => billed' + WorstOf[InFlight(p)'] <= spent'
<1>1. p \in Pids /\ LedgerTypeOK /\ k \in Prompts
  BY DEF LedgerInv, LedgerTypeOK, InFlight
<1>2. /\ WorstOf[InFlight(p)] = WorstOf[InFlight(p)'] + Worst(k)
      /\ WorstOf[InFlight(p)'] \in Nat
  BY <1>1, FlightEnds
<1>3. /\ Worst(k) \in Nat /\ spent \in Nat /\ billed \in Nat
      /\ spent <= HardMaxUsd /\ HardMaxUsd \in Nat
  BY <1>1, WorstIsPositive, LedgerAssumption DEF LedgerInv, LedgerTypeOK, CapHolds
<1>4. WorstOf[InFlight(p)] <= spent
      /\ (~substituted => billed + WorstOf[InFlight(p)] <= spent)
  BY <1>1 DEF LedgerInv, Covered
<1>5. spent' = spent - Worst(k) + cost
  BY DEF Settle
<1>6. \A W, w, x, c, y \in Nat :
        W = w + x /\ W <= y /\ c <= x
          => y - x + c \in Nat /\ y - x + c <= y /\ w <= y - x + c
  OBVIOUS
<1>7. spent' \in Nat /\ spent' <= spent /\ WorstOf[InFlight(p)'] <= spent'
  BY <1>2, <1>3, <1>4, <1>5, <1>6
<1>8. ASSUME ~substituted' PROVE billed' + WorstOf[InFlight(p)'] <= spent'
  <2>1. billed + WorstOf[InFlight(p)] <= spent /\ billed' <= billed + cost
    BY <1>8, <1>4
  <2>2. \A W, w, x, c, y, b, d \in Nat :
          W = w + x /\ b + W <= y /\ d <= b + c => d + w <= y - x + c
    OBVIOUS
  <2> QED
    BY <2>1, <2>2, <1>2, <1>3, <1>5
<1>9. spent' <= HardMaxUsd
  BY <1>3, <1>7
<1> QED
  BY <1>7, <1>8, <1>9

(* A request that ends without an answer keeps the invariant.              *)
LEMMA EndsUnanswered ==
  ASSUME LedgerInv, NEW p \in up, NEW k \in InFlight(p),
         NEW s \in {"waiting", "failed", "stopped"}, SetCall(p, k, s),
         s = "waiting" => attempt[p][k] <= MaxRetries,
         s = "stopped" => Stopped(p)',
         Stopped(p) => Stopped(p)',
         stop' \in [Pids -> Reasons],
         \A q \in Pids \ {p} : stop'[q] = stop[q],
         NEW cost \in Nat, cost <= Worst(k), Settle(k, cost),
         billed' \in Nat, substituted' \in BOOLEAN,
         ~substituted' => ~substituted /\ billed' <= billed + cost,
         UNCHANGED <<lock, up, releasing, cap, credit_cap, attempt, credits,
                     cache, paid, lost_answers>>
  PROVE  LedgerInv'
<1>1. /\ p \in Pids /\ LedgerTypeOK /\ k \in Prompts /\ k \in Keys
      /\ call[p][k] = "sent"
  BY DEF LedgerInv, LedgerTypeOK, InFlight, Keys
<1>2. s \in Stages \ {"idle"} /\ s # "sent"
  BY DEF Stages
<1>3. /\ spent' \in Nat /\ spent' <= HardMaxUsd
      /\ WorstOf[InFlight(p)'] <= spent'
      /\ ~substituted' => billed' + WorstOf[InFlight(p)'] <= spent'
  BY <1>2, AccountsSettle
<1>4. k \notin cache
  BY <1>1 DEF LedgerInv, CacheInv
<1>5. /\ attempt' \in [Pids -> [Prompts -> 0..(MaxRetries + 1)]]
      /\ credits' \in Nat /\ credits' <= HardMaxCredits
      /\ attempt' = attempt /\ cache' = cache /\ paid' = paid
  BY <1>1 DEF LedgerTypeOK, LedgerInv, CapHolds
<1> QED
  BY <1>1, <1>2, <1>3, <1>4, <1>5, StepKeeps

(* A call that moves without a request ending keeps the invariant.         *)
LEMMA MovesUnbooked ==
  ASSUME LedgerInv, NEW p \in up, NEW k \in Keys, NEW s \in Stages \ {"idle"},
         SetCall(p, k, s),
         k \in Queries \/ (call[p][k] # "sent" /\ s # "sent"),
         k \in Prompts => s # "waiting",
         s = "stopped" => Stopped(p)',
         Stopped(p) => Stopped(p)',
         stop' \in [Pids -> Reasons],
         \A q \in Pids \ {p} : stop'[q] = stop[q],
         credits' \in Nat, credits' <= HardMaxCredits,
         \/ cache' = cache
         \/ k \in Queries /\ s = "done" /\ cache' = cache \cup {k},
         UNCHANGED <<lock, up, releasing, cap, credit_cap, attempt, spent,
                     billed, paid, lost_answers, substituted>>
  PROVE  LedgerInv'
<1>1. p \in Pids /\ LedgerTypeOK
  BY DEF LedgerInv, LedgerTypeOK
<1>2. /\ spent' \in Nat /\ spent' <= HardMaxUsd
      /\ billed' \in Nat /\ substituted' \in BOOLEAN
      /\ WorstOf[InFlight(p)'] <= spent'
      /\ ~substituted' => billed' + WorstOf[InFlight(p)'] <= spent'
  BY AccountsStand
<1>3. /\ attempt' \in [Pids -> [Prompts -> 0..(MaxRetries + 1)]]
      /\ attempt' = attempt
  BY <1>1 DEF LedgerTypeOK
<1>4. k \in Queries => k \notin Prompts
  BY LedgerAssumption
<1>5. k \in Prompts => s \notin {"sent", "waiting"}
  BY <1>4
<1>6. /\ paid' = paid
      /\ cache' = cache \/ (k \notin Prompts /\ s = "done"
                            /\ cache' = cache \cup {k})
  BY <1>4
<1> QED
  BY <1>1, <1>2, <1>3, <1>5, <1>6, StepKeeps

LEMMA TripsStop ==
  ASSUME LedgerTypeOK, NEW p \in Pids, NEW k \in Keys,
         NEW reason \in Reasons \ {"none"}, Trip(p, k, reason)
  PROVE  /\ SetCall(p, k, "stopped") /\ Stopped(p)'
         /\ stop' \in [Pids -> Reasons]
         /\ \A q \in Pids \ {p} : stop'[q] = stop[q]
BY DEF Trip, LedgerTypeOK, Stopped

LEMMA RetryTargets ==
  ASSUME NEW p, NEW k, RetryOrGiveUp(p, k)
  PROVE  \E s \in {"waiting", "failed"} :
           SetCall(p, k, s) /\ (s = "waiting" => attempt[p][k] <= MaxRetries)
BY DEF RetryOrGiveUp

-----------------------------------------------------------------------------
(* The operations of the transport keep the invariant.                     *)
LEMMA CallKeeps ==
  ASSUME LedgerInv, NEW p \in up, NEW k \in Keys, CallStep(p, k)
  PROVE  LedgerInv'
<1>0. /\ p \in Pids /\ LedgerTypeOK
      /\ stop \in [Pids -> Reasons] /\ credits \in Nat /\ spent \in Nat
      /\ billed \in Nat /\ substituted \in BOOLEAN
      /\ credits <= HardMaxCredits /\ spent <= HardMaxUsd
  BY DEF LedgerInv, LedgerTypeOK, CapHolds
<1>s. stop' = stop => /\ stop' \in [Pids -> Reasons]
                      /\ Stopped(p) => Stopped(p)'
                      /\ \A q \in Pids \ {p} : stop'[q] = stop[q]
  BY <1>0 DEF Stopped
<1>f. ASSUME k \in InFlight(p)
      PROVE  /\ k \in Prompts /\ call[p][k] = "sent"
             /\ Worst(k) \in Nat /\ 1 <= Worst(k) /\ 0 <= Worst(k)
  <2>1. k \in Prompts /\ call[p][k] = "sent"
    BY <1>f DEF InFlight
  <2> QED
    BY <2>1, WorstIsPositive
<1>1. CASE Replay(p, k)
  <2>1. /\ SetCall(p, k, "done") /\ call[p][k] # "sent" /\ stop' = stop
        /\ credits' = credits /\ cache' = cache
        /\ UNCHANGED <<lock, up, releasing, cap, credit_cap, attempt, spent,
                       billed, paid, lost_answers, substituted>>
    BY <1>1 DEF Replay
  <2>2. "done" \in Stages \ {"idle"}
    BY DEF Stages
  <2> QED
    BY <1>0, <1>s, <2>1, <2>2, MovesUnbooked
<1>2. CASE RaiseStop(p, k)
  <2>1. /\ SetCall(p, k, "stopped") /\ call[p][k] # "sent" /\ stop' = stop
        /\ credits' = credits /\ cache' = cache /\ Stopped(p)
        /\ UNCHANGED <<lock, up, releasing, cap, credit_cap, attempt, spent,
                       billed, paid, lost_answers, substituted>>
    BY <1>2 DEF RaiseStop
  <2>2. "stopped" \in Stages \ {"idle"}
    BY DEF Stages
  <2> QED
    BY <1>0, <1>s, <2>1, <2>2, MovesUnbooked
<1>3. CASE Reserve(p, k)
  <2>1. /\ k \in Prompts /\ SetCall(p, k, "sent")
        /\ ~Stopped(p) /\ call[p][k] \in {"idle", "waiting"}
        /\ call[p][k] = "idle" => k \notin cache
        /\ spent + Worst(k) <= cap[p] /\ spent' = spent + Worst(k)
        /\ attempt' = [attempt EXCEPT ![p][k] = @ + 1]
        /\ UNCHANGED <<lock, up, releasing, cap, credit_cap, stop, credits,
                       cache, billed, paid, lost_answers, substituted>>
    BY <1>3 DEF Reserve, Due, Fits
  <2>2. /\ WorstOf[InFlight(p)'] = WorstOf[InFlight(p)] + Worst(k)
        /\ WorstOf[InFlight(p)] \in Nat /\ Worst(k) \in Nat
    BY <1>0, <2>1, FlightStarts, WorstIsPositive
  <2>3. WorstOf[InFlight(p)] <= spent
        /\ (~substituted => billed + WorstOf[InFlight(p)] <= spent)
    BY <1>0 DEF LedgerInv, Covered
  <2>4. spent' \in Nat /\ WorstOf[InFlight(p)'] <= spent'
    BY <1>0, <2>1, <2>2, <2>3
  <2>5. ASSUME ~substituted' PROVE billed' + WorstOf[InFlight(p)'] <= spent'
    <3>1. billed + WorstOf[InFlight(p)] <= spent
      BY <2>1, <2>3, <2>5
    <3>2. \A b, w, x, y \in Nat : b + w <= y => b + (w + x) <= y + x
      OBVIOUS
    <3> QED
      BY <1>0, <2>1, <2>2, <3>1, <3>2
  <2>6. spent' <= HardMaxUsd
    <3>1. cap[p] \in 0..HardMaxUsd /\ HardMaxUsd \in Nat
      BY <1>0, LedgerAssumption DEF LedgerTypeOK
    <3> QED
      BY <1>0, <2>1, <2>2, <3>1
  <2>7. attempt[p][k] \in Nat /\ attempt[p][k] <= MaxRetries
    <3>1. /\ call[p][k] = "idle" => attempt[p][k] = 0
          /\ call[p][k] = "waiting" => attempt[p][k] <= MaxRetries
      BY <1>0, <2>1 DEF LedgerInv, CallsInv
    <3>2. attempt[p][k] \in 0..(MaxRetries + 1) /\ MaxRetries \in Nat
      BY <1>0, <2>1, LedgerAssumption DEF LedgerTypeOK
    <3> QED
      BY <2>1, <3>1, <3>2
  <2>8. /\ attempt' \in [Pids -> [Prompts -> 0..(MaxRetries + 1)]]
        /\ \A q \in Pids \ {p} : attempt'[q] = attempt[q]
        /\ \A m \in Prompts \ {k} : attempt'[p][m] = attempt[p][m]
    <3>1. attempt \in [Pids -> [Prompts -> 0..(MaxRetries + 1)]]
      BY <1>0 DEF LedgerTypeOK
    <3>2. attempt[p][k] + 1 \in 0..(MaxRetries + 1)
      BY <2>7, LedgerAssumption
    <3> QED
      BY <1>0, <2>1, <3>1, <3>2
  <2>9. k \notin cache
    BY <1>0, <2>1 DEF LedgerInv, CacheInv
  <2>10. "sent" \in Stages \ {"idle"} /\ Stopped(p)' = Stopped(p)
    BY <2>1 DEF Stages, Stopped
  <2>11. /\ credits' \in Nat /\ credits' <= HardMaxCredits /\ billed' \in Nat
         /\ substituted' \in BOOLEAN /\ stop' \in [Pids -> Reasons]
         /\ \A q \in Pids \ {p} : stop'[q] = stop[q]
    BY <1>0, <2>1
  <2> QED
    BY <2>1, <2>4, <2>5, <2>6, <2>8, <2>9, <2>10, <2>11, StepKeeps
<1>4. CASE TripCap(p, k)
  <2>1. /\ Trip(p, k, "cap") /\ call[p][k] # "sent"
        /\ credits' = credits /\ cache' = cache
        /\ UNCHANGED <<lock, up, releasing, cap, credit_cap, attempt, spent,
                       billed, paid, lost_answers, substituted>>
    BY <1>4 DEF TripCap, Due
  <2>2. "stopped" \in Stages \ {"idle"} /\ "cap" \in Reasons \ {"none"}
    BY DEF Stages, Reasons
  <2> QED
    BY <1>0, <2>1, <2>2, TripsStop, MovesUnbooked
<1>5. CASE Answer(p, k)
  <2>1. /\ k \in InFlight(p) /\ SetCall(p, k, "done")
        /\ cache' = cache \cup {k} /\ paid' = [paid EXCEPT ![k] = @ + 1]
        /\ UNCHANGED <<lock, up, releasing, cap, credit_cap, stop, attempt,
                       credits, lost_answers, substituted>>
    BY <1>5 DEF Answer
  <2>2. PICK cost \in Costs(k) : Settle(k, cost) /\ billed' = billed + cost
    BY <1>5 DEF Answer
  <2>3. cost \in Nat /\ cost <= Worst(k)
    BY <2>1, <1>f DEF Costs
  <2>4. "done" \in Stages \ {"idle"}
    BY DEF Stages
  <2>5. /\ billed' \in Nat /\ substituted' \in BOOLEAN
        /\ ~substituted' => ~substituted /\ billed' <= billed + cost
    BY <1>0, <2>1, <2>2, <2>3
  <2>6. /\ spent' \in Nat /\ spent' <= HardMaxUsd
        /\ WorstOf[InFlight(p)'] <= spent'
        /\ ~substituted' => billed' + WorstOf[InFlight(p)'] <= spent'
    BY <2>1, <2>2, <2>3, <2>4, <2>5, AccountsSettle
  <2>7. k \notin cache
    BY <1>0, <2>1, <1>f DEF LedgerInv, CacheInv
  <2>8. /\ attempt' \in [Pids -> [Prompts -> 0..(MaxRetries + 1)]]
        /\ credits' \in Nat /\ credits' <= HardMaxCredits
        /\ attempt' = attempt
    BY <1>0, <2>1 DEF LedgerTypeOK
  <2> QED
    BY <2>1, <1>f, <1>s, <2>4, <2>5, <2>6, <2>7, <2>8, StepKeeps
<1>6. CASE RateLimited(p, k)
  <2>1. /\ k \in InFlight(p) /\ Settle(k, 0) /\ stop' = stop
        /\ UNCHANGED <<lock, up, releasing, cap, credit_cap, attempt, credits,
                       cache, billed, paid, lost_answers, substituted>>
    BY <1>6 DEF RateLimited
  <2>2. PICK s \in {"waiting", "failed"} :
          SetCall(p, k, s) /\ (s = "waiting" => attempt[p][k] <= MaxRetries)
    BY <1>6, RetryTargets DEF RateLimited
  <2>3. /\ billed' \in Nat /\ substituted' \in BOOLEAN
        /\ ~substituted' => ~substituted /\ billed' <= billed + 0
    BY <1>0, <2>1
  <2> QED
    BY <1>s, <1>f, <2>1, <2>2, <2>3, EndsUnanswered
<1>7. CASE Unsure(p, k)
  <2>1. /\ k \in InFlight(p) /\ Settle(k, Worst(k)) /\ stop' = stop
        /\ billed' = billed + Worst(k)
        /\ UNCHANGED <<lock, up, releasing, cap, credit_cap, attempt, credits,
                       cache, paid, lost_answers, substituted>>
    BY <1>7 DEF Unsure
  <2>2. PICK s \in {"waiting", "failed"} :
          SetCall(p, k, s) /\ (s = "waiting" => attempt[p][k] <= MaxRetries)
    BY <1>7, RetryTargets DEF Unsure
  <2>3. /\ billed' \in Nat /\ substituted' \in BOOLEAN /\ Worst(k) <= Worst(k)
        /\ ~substituted' => ~substituted /\ billed' <= billed + Worst(k)
    BY <1>0, <1>f, <2>1
  <2> QED
    BY <1>s, <1>f, <2>1, <2>2, <2>3, EndsUnanswered
<1>8. CASE Reject(p, k)
  <2>1. /\ k \in InFlight(p) /\ Settle(k, 0) /\ stop' = stop
        /\ SetCall(p, k, "failed")
        /\ UNCHANGED <<lock, up, releasing, cap, credit_cap, attempt, credits,
                       cache, billed, paid, lost_answers, substituted>>
    BY <1>8 DEF Reject
  <2>2. /\ billed' \in Nat /\ substituted' \in BOOLEAN
        /\ ~substituted' => ~substituted /\ billed' <= billed + 0
    BY <1>0, <2>1
  <2> QED
    BY <1>s, <1>f, <2>1, <2>2, EndsUnanswered
<1>9. CASE RejectAccount(p, k)
  <2>1. /\ k \in InFlight(p) /\ Settle(k, 0) /\ Trip(p, k, "account")
        /\ UNCHANGED <<lock, up, releasing, cap, credit_cap, attempt, credits,
                       cache, billed, paid, lost_answers, substituted>>
    BY <1>9 DEF RejectAccount
  <2>2. /\ billed' \in Nat /\ substituted' \in BOOLEAN
        /\ ~substituted' => ~substituted /\ billed' <= billed + 0
    BY <1>0, <2>1
  <2>3. "account" \in Reasons \ {"none"}
    BY DEF Reasons
  <2> QED
    BY <1>0, <1>f, <2>1, <2>2, <2>3, TripsStop, EndsUnanswered
<1>10. CASE Substitute(p, k)
  <2>1. /\ k \in InFlight(p) /\ Settle(k, Worst(k)) /\ Trip(p, k, "model")
        /\ billed' = billed + 5 * Worst(k) /\ substituted' = TRUE
        /\ UNCHANGED <<lock, up, releasing, cap, credit_cap, attempt, credits,
                       cache, paid, lost_answers>>
    BY <1>10 DEF Substitute
  <2>2. /\ billed' \in Nat /\ Worst(k) <= Worst(k)
        /\ substituted' \in BOOLEAN /\ substituted'
    BY <1>0, <1>f, <2>1
  <2>3. "model" \in Reasons \ {"none"}
    BY DEF Reasons
  <2> QED
    BY <1>0, <1>f, <2>1, <2>2, <2>3, TripsStop, EndsUnanswered
<1>11. CASE BookSearch(p, k)
  <2>1. /\ k \in Queries /\ SetCall(p, k, "sent") /\ stop' = stop
        /\ credits + CreditsOf[k] <= credit_cap[p]
        /\ credits' = credits + CreditsOf[k] /\ cache' = cache
        /\ UNCHANGED <<lock, up, releasing, cap, credit_cap, attempt, spent,
                       billed, paid, lost_answers, substituted>>
    BY <1>11 DEF BookSearch
  <2>2. credits' \in Nat /\ credits' <= HardMaxCredits
    <3>1. CreditsOf[k] \in Nat /\ HardMaxCredits \in Nat
      BY <2>1, LedgerAssumption
    <3>2. credit_cap[p] \in 0..HardMaxCredits
      BY <1>0 DEF LedgerTypeOK
    <3> QED
      BY <1>0, <2>1, <3>1, <3>2
  <2>3. "sent" \in Stages \ {"idle"}
    BY DEF Stages
  <2> QED
    BY <1>s, <2>1, <2>2, <2>3, MovesUnbooked
<1>12. CASE TripCredits(p, k)
  <2>1. /\ k \in Queries /\ Trip(p, k, "credits")
        /\ credits' = credits /\ cache' = cache
        /\ UNCHANGED <<lock, up, releasing, cap, credit_cap, attempt, spent,
                       billed, paid, lost_answers, substituted>>
    BY <1>12 DEF TripCredits
  <2>2. "stopped" \in Stages \ {"idle"} /\ "credits" \in Reasons \ {"none"}
    BY DEF Stages, Reasons
  <2> QED
    BY <1>0, <2>1, <2>2, TripsStop, MovesUnbooked
<1>13. CASE SearchAnswers(p, k)
  <2>1. /\ k \in Queries /\ stop' = stop /\ credits' = credits
        /\ UNCHANGED <<lock, up, releasing, cap, credit_cap, attempt, spent,
                       billed, paid, lost_answers, substituted>>
    BY <1>13 DEF SearchAnswers
  <2>2. \/ SetCall(p, k, "done") /\ cache' = cache \cup {k}
        \/ SetCall(p, k, "failed") /\ cache' = cache
    BY <1>13 DEF SearchAnswers
  <2>3. {"done", "failed"} \subseteq Stages \ {"idle"}
    BY DEF Stages
  <2>4. CASE SetCall(p, k, "done") /\ cache' = cache \cup {k}
    BY <1>0, <1>s, <2>1, <2>3, <2>4, MovesUnbooked
  <2>5. CASE SetCall(p, k, "failed") /\ cache' = cache
    BY <1>0, <1>s, <2>1, <2>3, <2>5, MovesUnbooked
  <2> QED
    BY <2>2, <2>4, <2>5
<1> QED
  BY <1>1, <1>2, <1>3, <1>4, <1>5, <1>6, <1>7, <1>8, <1>9, <1>10, <1>11,
     <1>12, <1>13 DEF CallStep

-----------------------------------------------------------------------------
(* A process that is let in finds nobody there.                            *)
LEMMA InstallKeeps ==
  ASSUME LedgerInv, NEW p \in Pids, NEW usd_cap, NEW tavily_cap,
         Install(p, usd_cap, tavily_cap)
  PROVE  LedgerInv' /\ up' = {p} /\ Stopped(p)' = Stopped(p)
<1>0. LedgerTypeOK /\ Alone
  BY DEF LedgerInv
<1>1. up = {}
  BY <1>0, LedgerAssumption DEF Install, Acquire, Alone, LedgerTypeOK
<1>2. /\ up' = {p} /\ lock' = p /\ releasing' \subseteq {p}
      /\ usd_cap \in 0..HardMaxUsd /\ cap' = [cap EXCEPT ![p] = usd_cap]
      /\ tavily_cap \in 0..HardMaxCredits
      /\ credit_cap' = [credit_cap EXCEPT ![p] = tavily_cap]
      /\ UNCHANGED <<stop, call, attempt, spent, credits, cache, billed, paid,
                     lost_answers, substituted>>
  BY <1>0, <1>1, LedgerAssumption
  DEF Install, Acquire, CheckCap, CheckCreditCap, LedgerTypeOK
<1>3. LedgerTypeOK'
  BY <1>0, <1>2 DEF LedgerTypeOK
<1>4. Alone'
  BY <1>0, <1>1, <1>2 DEF Alone
<1>5. CallsInv' /\ Covered' /\ CapHolds' /\ CacheInv'
  BY <1>2 DEF LedgerInv, CallsInv, Covered, CapHolds, CacheInv, Stopped, InFlight
<1> QED
  BY <1>2, <1>3, <1>4, <1>5 DEF LedgerInv, Stopped

(* All calls of a process are forgotten.                                   *)
LEMMA CallsForgotten ==
  ASSUME LedgerInv, NEW p \in up, ForgetCalls(p)
  PROVE  /\ call' \in [Pids -> [Keys -> Stages]]
         /\ attempt' \in [Pids -> [Prompts -> 0..(MaxRetries + 1)]]
         /\ \A q \in Pids : call'[q] = NoCalls /\ attempt'[q] = NoAttempts
         /\ \A q \in Pids : InFlight(q)' = {} /\ WorstOf[InFlight(q)'] = 0
<1>0. LedgerTypeOK /\ Alone /\ p \in Pids
  BY DEF LedgerInv, LedgerTypeOK
<1>1. /\ NoCalls \in [Keys -> Stages]
      /\ NoAttempts \in [Prompts -> 0..(MaxRetries + 1)]
  BY LedgerAssumption DEF NoCalls, NoAttempts, Stages
<1>2. /\ call' = [call EXCEPT ![p] = NoCalls]
      /\ attempt' = [attempt EXCEPT ![p] = NoAttempts]
  BY DEF ForgetCalls
<1>3. \A q \in Pids \ {p} : call[q] = NoCalls /\ attempt[q] = NoAttempts
  BY <1>0, OthersRest
<1>4. /\ call' \in [Pids -> [Keys -> Stages]]
      /\ attempt' \in [Pids -> [Prompts -> 0..(MaxRetries + 1)]]
      /\ \A q \in Pids : call'[q] = NoCalls /\ attempt'[q] = NoAttempts
  BY <1>0, <1>1, <1>2, <1>3 DEF LedgerTypeOK
<1>5. \A q \in Pids : InFlight(q)' = {}
  BY <1>4 DEF InFlight, NoCalls, Keys
<1>6. \A q \in Pids : WorstOf[InFlight(q)'] = 0
  BY <1>5, WorstAssumption
<1> QED
  BY <1>4, <1>5, <1>6

(* The run is over, the process is not.                                    *)
LEMMA ForgetKeeps ==
  ASSUME LedgerInv, NEW p \in up, ForgetCalls(p),
         UNCHANGED <<lock, up, releasing, cap, credit_cap, stop, spent, credits,
                     cache, billed, paid, lost_answers, substituted>>
  PROVE  LedgerInv'
<1>0. LedgerTypeOK /\ Alone /\ p \in Pids
  BY DEF LedgerInv, LedgerTypeOK
<1>1. /\ call' \in [Pids -> [Keys -> Stages]]
      /\ attempt' \in [Pids -> [Prompts -> 0..(MaxRetries + 1)]]
      /\ \A q \in Pids : call'[q] = NoCalls /\ attempt'[q] = NoAttempts
      /\ \A q \in Pids : InFlight(q)' = {} /\ WorstOf[InFlight(q)'] = 0
  BY CallsForgotten
<1>2. LedgerTypeOK'
  BY <1>0, <1>1 DEF LedgerTypeOK
<1>3. Alone'
  BY <1>0, <1>1 DEF Alone
<1>4. CallsInv' /\ \A q \in Pids, k \in Keys : call'[q][k] = "idle"
  BY <1>1 DEF CallsInv, NoCalls, NoAttempts, Keys
<1>5. Covered'
  <2>1. 0 <= spent /\ (~substituted => billed + 0 <= spent)
    <3>1. /\ WorstOf[InFlight(p)] <= spent
          /\ ~substituted => billed + WorstOf[InFlight(p)] <= spent
      BY <1>0 DEF LedgerInv, Covered
    <3>2. WorstOf[InFlight(p)] \in Nat /\ spent \in Nat /\ billed \in Nat
      <4>1. InFlight(p) \in SUBSET Prompts
        BY DEF InFlight
      <4> QED
        BY <4>1, <1>0, WorstIsPositive DEF LedgerTypeOK
    <3>3. \A b, w, y \in Nat : b + w <= y => b + 0 <= y
      OBVIOUS
    <3>4. \A y \in Nat : 0 <= y
      OBVIOUS
    <3> QED
      BY <3>1, <3>2, <3>3, <3>4, Zenon
  <2> QED
    BY <1>1, <2>1 DEF Covered
<1>6. CapHolds'
  BY DEF LedgerInv, CapHolds
<1>7. CacheInv'
  <2>1. \A k \in Prompts : \A q \in Pids : call'[q][k] \notin {"sent", "waiting"}
    BY <1>4 DEF Keys
  <2> QED
    BY <2>1 DEF LedgerInv, CacheInv
<1> QED
  BY <1>2, <1>3, <1>4, <1>5, <1>6, <1>7 DEF LedgerInv

(* The process is gone, whatever became of its last requests.              *)
LEMMA VanishKeeps ==
  ASSUME LedgerInv, NEW p \in Pids, Vanish(p),
         lock' \in Pids \cup {NoPid},
         spent' \in Nat, spent' <= HardMaxUsd, billed' \in Nat,
         ~substituted => billed' <= spent',
         paid' \in [Prompts -> Nat], lost_answers' \subseteq Prompts,
         \A k \in Prompts \ lost_answers' :
           k \notin lost_answers /\ paid'[k] = paid[k]
  PROVE  LedgerInv' /\ up' = {}
<1>0. LedgerTypeOK /\ Alone /\ p \in up
  BY DEF LedgerInv, Vanish
<1>1. /\ call' \in [Pids -> [Keys -> Stages]]
      /\ attempt' \in [Pids -> [Prompts -> 0..(MaxRetries + 1)]]
      /\ \A q \in Pids : call'[q] = NoCalls /\ attempt'[q] = NoAttempts
      /\ \A q \in Pids : InFlight(q)' = {} /\ WorstOf[InFlight(q)'] = 0
  BY <1>0, CallsForgotten DEF Vanish
<1>2. \A q \in Pids \ {p} : q \notin up /\ stop[q] = "none"
  BY <1>0, OthersRest
<1>3. up' = {} /\ releasing' = {}
  BY <1>0, <1>2 DEF Vanish, LedgerTypeOK
<1>4. stop' \in [Pids -> Reasons] /\ \A q \in Pids : stop'[q] = "none"
  BY <1>0, <1>2 DEF Vanish, LedgerTypeOK, Reasons
<1>5. /\ cap' \in [Pids -> 0..HardMaxUsd]
      /\ credit_cap' \in [Pids -> 0..HardMaxCredits]
  <2>1. 0 \in 0..HardMaxUsd /\ 0 \in 0..HardMaxCredits
    BY LedgerAssumption
  <2> QED
    BY <1>0, <2>1 DEF Vanish, LedgerTypeOK
<1>6. UNCHANGED <<credits, cache, substituted>>
  BY DEF Vanish
<1>7. LedgerTypeOK'
  BY <1>0, <1>1, <1>3, <1>4, <1>5, <1>6 DEF LedgerTypeOK
<1>8. Alone'
  BY <1>1, <1>3, <1>4 DEF Alone
<1>9. CallsInv' /\ \A q \in Pids, k \in Keys : call'[q][k] = "idle"
  BY <1>1 DEF CallsInv, NoCalls, NoAttempts, Keys
<1>10. Covered'
  <2>0. \A y \in Nat : 0 <= y /\ y + 0 = y
    OBVIOUS
  <2>1. 0 <= spent' /\ billed' + 0 = billed'
    BY <2>0, Zenon
  <2>2. ASSUME ~substituted' PROVE billed' + 0 <= spent'
    <3>1. billed' <= spent'
      BY <1>6, <2>2
    <3> QED
      BY <2>1, <3>1
  <2> QED
    BY <1>1, <2>1, <2>2 DEF Covered
<1>11. CapHolds'
  BY <1>6 DEF LedgerInv, CapHolds
<1>12. CacheInv'
  <2>1. \A k \in Prompts : \A q \in Pids : call'[q][k] \notin {"sent", "waiting"}
    BY <1>9 DEF Keys
  <2> QED
    BY <1>6, <2>1 DEF LedgerInv, CacheInv
<1> QED
  BY <1>3, <1>7, <1>8, <1>9, <1>10, <1>11, <1>12 DEF LedgerInv

(* What holds of the accounts before a process goes.                       *)
LEMMA BeforeTheEnd ==
  ASSUME LedgerInv, NEW p \in Pids
  PROVE  /\ WorstOf[InFlight(p)] \in Nat
         /\ WorstOf[InFlight(p)] <= spent
         /\ ~substituted => billed + WorstOf[InFlight(p)] <= spent
         /\ spent \in Nat /\ billed \in Nat /\ spent <= HardMaxUsd
         /\ lock \in Pids \cup {NoPid}
         /\ paid \in [Prompts -> Nat] /\ lost_answers \subseteq Prompts
<1>1. InFlight(p) \in SUBSET Prompts
  BY DEF InFlight
<1> QED
  BY <1>1, WorstIsPositive DEF LedgerInv, LedgerTypeOK, Covered, CapHolds

LEMMA ExitKeeps ==
  ASSUME LedgerInv, NEW p \in Pids, Exit(p)
  PROVE  LedgerInv' /\ up' = {}
<1>1. /\ WorstOf[InFlight(p)] \in Nat
      /\ ~substituted => billed + WorstOf[InFlight(p)] <= spent
      /\ spent \in Nat /\ billed \in Nat /\ spent <= HardMaxUsd
      /\ lock \in Pids \cup {NoPid}
      /\ paid \in [Prompts -> Nat] /\ lost_answers \subseteq Prompts
  BY BeforeTheEnd
<1>2. /\ Vanish(p) /\ lock' \in {lock, NoPid}
      /\ billed' = billed + WorstOf[InFlight(p)]
      /\ UNCHANGED <<spent, paid, lost_answers>>
  BY DEF Exit
<1>3. /\ billed' \in Nat /\ lock' \in Pids \cup {NoPid}
      /\ ~substituted => billed' <= spent'
  BY <1>1, <1>2
<1> QED
  BY <1>1, <1>2, <1>3, VanishKeeps

LEMMA KillKeeps ==
  ASSUME LedgerInv, NEW p \in Pids, Kill(p)
  PROVE  LedgerInv' /\ up' = {}
<1>1. /\ WorstOf[InFlight(p)] \in Nat
      /\ WorstOf[InFlight(p)] <= spent
      /\ ~substituted => billed + WorstOf[InFlight(p)] <= spent
      /\ spent \in Nat /\ billed \in Nat /\ spent <= HardMaxUsd
      /\ lock \in Pids \cup {NoPid}
      /\ paid \in [Prompts -> Nat] /\ lost_answers \subseteq Prompts
  BY BeforeTheEnd
<1>2. Vanish(p) /\ lock' = lock
  BY DEF Kill
<1>3. CASE /\ billed' = billed + WorstOf[InFlight(p)]
           /\ UNCHANGED <<spent, paid, lost_answers>>
  <2>1. billed' \in Nat /\ (~substituted => billed' <= spent')
    BY <1>1, <1>3
  <2> QED
    BY <1>1, <1>2, <1>3, <2>1, VanishKeeps
<1>4. ASSUME NEW k \in InFlight(p), NEW cost \in Costs(k),
             Settle(k, cost),
             billed' = billed + cost + WorstOf[InFlight(p) \ {k}],
             paid' = [paid EXCEPT ![k] = @ + 1],
             lost_answers' = lost_answers \cup {k}
      PROVE  LedgerInv' /\ up' = {}
  <2>0. k \in Prompts /\ InFlight(p) \in SUBSET Prompts
    BY DEF InFlight
  <2>1. /\ WorstOf[InFlight(p)] = WorstOf[InFlight(p) \ {k}] + Worst(k)
        /\ WorstOf[InFlight(p) \ {k}] \in Nat
        /\ Worst(k) \in Nat /\ Worst(k) >= 1
    <3>1. InFlight(p) \ {k} \in SUBSET Prompts
      BY <2>0
    <3> QED
      BY <2>0, <3>1, WorstWithout, WorstIsPositive
  <2>2. cost \in Nat /\ cost <= Worst(k)
    BY <2>1, <1>4 DEF Costs
  <2>3. spent' = spent - Worst(k) + cost
    BY <1>4 DEF Settle
  <2>4. \A W, w, x, c, y \in Nat :
          W = w + x /\ W <= y /\ c <= x => y - x + c \in Nat /\ y - x + c <= y
    OBVIOUS
  <2>5. spent' \in Nat /\ spent' <= spent
    BY <1>1, <2>1, <2>2, <2>3, <2>4
  <2>6. billed' \in Nat
    BY <1>1, <1>4, <2>1, <2>2
  <2>7. ASSUME ~substituted PROVE billed' <= spent'
    <3>1. billed + WorstOf[InFlight(p)] <= spent
      BY <1>1, <2>7
    <3>2. \A W, w, x, c, y, b \in Nat :
            W = w + x /\ b + W <= y => b + c + w <= y - x + c
      OBVIOUS
    <3> QED
      BY <1>1, <1>4, <2>1, <2>2, <2>3, <3>1, <3>2
  <2>8. spent' <= HardMaxUsd
    BY <1>1, <2>5, LedgerAssumption
  <2>9. /\ paid' \in [Prompts -> Nat] /\ lost_answers' \subseteq Prompts
        /\ \A m \in Prompts \ lost_answers' :
             m \notin lost_answers /\ paid'[m] = paid[m]
    BY <1>1, <1>4, <2>0
  <2> QED
    BY <1>1, <1>2, <2>5, <2>6, <2>7, <2>8, <2>9, VanishKeeps
<1> QED
  BY <1>3, <1>4 DEF Kill

LEMMA ClearKeeps ==
  ASSUME LedgerInv, ClearStaleLock
  PROVE  LedgerInv' /\ up' = {}
<1>0. LedgerTypeOK /\ Alone
  BY DEF LedgerInv
<1>1. up = {}
  BY <1>0 DEF ClearStaleLock, Alone, LedgerTypeOK
<1>2. LedgerTypeOK' /\ Alone'
  BY <1>0, <1>1 DEF ClearStaleLock, LedgerTypeOK, Alone
<1>3. CallsInv' /\ Covered' /\ CapHolds' /\ CacheInv'
  BY DEF ClearStaleLock, LedgerInv, CallsInv, Covered, CapHolds, CacheInv,
         Stopped, InFlight
<1> QED
  BY <1>1, <1>2, <1>3 DEF LedgerInv, ClearStaleLock

LEMMA RestKeeps ==
  ASSUME LedgerInv, UNCHANGED ledgerVars
  PROVE  LedgerInv'
<1>1. LedgerTypeOK' /\ Alone'
  BY DEF ledgerVars, LedgerInv, LedgerTypeOK, Alone
<1>2. CallsInv' /\ Covered'
  BY DEF ledgerVars, LedgerInv, CallsInv, Covered, Stopped, InFlight
<1>3. CapHolds' /\ CacheInv'
  BY DEF ledgerVars, LedgerInv, CapHolds, CacheInv
<1> QED
  BY <1>1, <1>2, <1>3 DEF LedgerInv

-----------------------------------------------------------------------------
(* The properties the invariant implies.                                   *)
LEMMA LedgerInvImplies ==
  LedgerInv => /\ CapHolds /\ LedgerCoversBill /\ OneSpender /\ PaidOnce
<1> SUFFICES ASSUME LedgerInv
             PROVE  CapHolds /\ LedgerCoversBill /\ OneSpender /\ PaidOnce
  OBVIOUS
<1>1. CapHolds /\ LedgerCoversBill
  BY DEF LedgerInv, Covered, LedgerCoversBill
<1>2. OneSpender
  <2> SUFFICES ASSUME NEW p \in Pids, NEW q \in Pids, q \in up, p # q
               PROVE  p \notin up /\ \A k \in Keys : call[p][k] = "idle"
    BY DEF OneSpender
  <2>1. p \notin up /\ call[p] = NoCalls
    BY OthersRest DEF LedgerInv
  <2> QED
    BY <2>1 DEF NoCalls
<1>3. PaidOnce
  <2> SUFFICES ASSUME NEW k \in Prompts \ lost_answers PROVE paid[k] <= 1
    BY DEF PaidOnce
  <2>1. paid[k] = 0 \/ paid[k] = 1
    BY DEF LedgerInv, CacheInv
  <2> QED
    BY <2>1
<1> QED
  BY <1>1, <1>2, <1>3
=============================================================================
