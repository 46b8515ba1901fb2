----------------------------- MODULE SpendLedger -----------------------------
(***************************************************************************)
(* What a paid evaluation spends: the USD ledger, the Tavily credits, the  *)
(* run lock and the stop flag (eval_sop/budget.py), and the transport that *)
(* books every request with them (eval_sop/common.py).                     *)
(*                                                                         *)
(* A process is one event loop: from the lookup in the cache to the commit *)
(* of the reservation nothing awaits, and nothing between an answer and    *)
(* its place in the cache, so each is one action; the requests themselves  *)
(* are under way at the same time.  A process may be interrupted, or       *)
(* killed between any two writes.  Ledger, credits, cache and lock are     *)
(* files and stay; the stop flag and the calls are gone with the process.  *)
(*                                                                         *)
(* The ledger's rows are seen through the only thing that is read of them, *)
(* SUM(cost_usd); amounts are whole units.                                 *)
(***************************************************************************)
EXTENDS Integers, FiniteSets

CONSTANTS
  Pids,              \* process ids
  NoPid,             \* no lock file
  Prompts,           \* LLM calls, by the key of their cache entry
  Queries,           \* Tavily searches, by the key of their cache entry
  WorstOf,           \* worst_call_cost, added up over a set of prompts
  CreditsOf,         \* the credits a search costs
  HardMaxUsd,        \* PROJECT_HARD_MAX_USD
  HardMaxCredits,    \* PROJECT_HARD_MAX_CREDITS
  MaxRetries         \* MAX_RETRIES

ASSUME LedgerAssumption ==
  /\ NoPid \notin Pids
  /\ Prompts \cap Queries = {}
  /\ HardMaxUsd \in Nat /\ HardMaxCredits \in Nat /\ MaxRetries \in Nat
  /\ CreditsOf \in [Queries -> Nat]

(* WorstOf is a sum of amounts that are at least 1.                        *)
ASSUME WorstAssumption ==
  /\ WorstOf \in [SUBSET Prompts -> Nat]
  /\ WorstOf[{}] = 0
  /\ \A S \in SUBSET Prompts : \A k \in Prompts \ S :
       WorstOf[{k}] >= 1 /\ WorstOf[S \cup {k}] = WorstOf[S] + WorstOf[{k}]
  /\ \A S \in SUBSET Prompts : \A T \in SUBSET S : WorstOf[T] <= WorstOf[S]

VARIABLES
  lock,          \* the process run.lock names
  up,            \* processes that hold it (ProcessLock.held)
  releasing,     \* those that registered release with atexit
  cap,           \* UsdLedger.cap of each process
  credit_cap,    \* TAVILY_CREDIT_CAP of each process
  stop,          \* STOP["reason"] of each process
  call,          \* where each call of a process is
  attempt,       \* requests sent for each prompt, this call
  spent,         \* SUM(cost_usd) over the ledger
  credits,       \* the credits booked
  cache,         \* keys the two caches hold an answer for
  (* history *)
  billed,        \* the most the provider can have charged
  paid,          \* how often an answer to a prompt was paid for
  lost_answers,  \* prompts whose answer a kill lost before it was stored
  substituted    \* the provider has served a model nobody asked for

ledgerVars == <<lock, up, releasing, cap, credit_cap, stop, call, attempt,
                spent, credits, cache, billed, paid, lost_answers,
                substituted>>

Keys   == Prompts \cup Queries
Stages == {"idle", "sent", "waiting", "done", "failed", "stopped"}
Reasons == {"none", "cap", "credits", "account", "model"}
NoCalls == [k \in Keys |-> "idle"]
NoAttempts == [k \in Prompts |-> 0]

LedgerTypeOK ==
  /\ lock \in Pids \cup {NoPid}
  /\ up \subseteq Pids /\ releasing \subseteq up
  /\ cap \in [Pids -> 0..HardMaxUsd]
  /\ credit_cap \in [Pids -> 0..HardMaxCredits]
  /\ stop \in [Pids -> Reasons]
  /\ call \in [Pids -> [Keys -> Stages]]
  /\ attempt \in [Pids -> [Prompts -> 0..(MaxRetries + 1)]]
  /\ spent \in Nat /\ credits \in Nat /\ billed \in Nat
  /\ cache \subseteq Keys
  /\ paid \in [Prompts -> Nat]
  /\ lost_answers \subseteq Prompts
  /\ substituted \in BOOLEAN

-----------------------------------------------------------------------------
(* Helpers.  A definition whose name ends in _ and a word is the definition *)
(* after it with a bug: no specification uses it, the mutation runs do.    *)

Worst(k) == WorstOf[{k}]
Stopped(p) == stop[p] # "none"
InFlight(p) == {k \in Prompts : call[p][k] = "sent"}
SetCall(p, k, stage) == call' = [call EXCEPT ![p][k] = stage]

(* What an answer costs: call_cost is taken not to exceed worst_call_cost, *)
(* which holds as long as worst_input_tokens over-counts.                  *)
Costs(k) == {1, Worst(k)}

(* settle: the row's worst case gives way to the cost.                     *)
Settle_Twice(k, cost) == spent' = spent - 2 * Worst(k) + cost
Settle(k, cost) == spent' = spent - Worst(k) + cost

(* Another attempt while there is one left, else TransportError.           *)
RetryOrGiveUp(p, k) ==
  SetCall(p, k, IF attempt[p][k] <= MaxRetries THEN "waiting" ELSE "failed")

(* trip: the flag is set and BudgetStop raised.                            *)
Trip(p, k, reason) ==
  /\ stop' = [stop EXCEPT ![p] = reason]
  /\ SetCall(p, k, "stopped")

-----------------------------------------------------------------------------
LedgerInit ==
  /\ lock = NoPid /\ up = {} /\ releasing = {}
  /\ cap = [p \in Pids |-> 0] /\ credit_cap = [p \in Pids |-> 0]
  /\ stop = [p \in Pids |-> "none"]
  /\ call = [p \in Pids |-> NoCalls]
  /\ attempt = [p \in Pids |-> NoAttempts]
  /\ spent = 0 /\ credits = 0 /\ cache = {}
  /\ billed = 0 /\ paid = [k \in Prompts |-> 0]
  /\ lost_answers = {} /\ substituted = FALSE

(* ProcessLock.acquire: a lock file that names this pid is taken over; any *)
(* other refuses the process.                                              *)
Acquire_Any(p) == lock' = p
Acquire(p) == lock \in {NoPid, p} /\ lock' = p

(* check_cap and check_credit_cap: a cap is positive and lowers the hard   *)
(* maximum.                                                                *)
CheckCap(usd_cap) == usd_cap \in 1..HardMaxUsd
CheckCreditCap(tavily_cap) == tavily_cap \in 1..HardMaxCredits

(* install.  With a lock that was taken over, release is not registered.   *)
Install(p, usd_cap, tavily_cap) ==
  /\ p \notin up
  /\ Acquire(p)
  /\ up' = up \cup {p}
  /\ releasing' = IF lock = p THEN releasing ELSE releasing \cup {p}
  /\ CheckCap(usd_cap) /\ cap' = [cap EXCEPT ![p] = usd_cap]
  /\ CheckCreditCap(tavily_cap)
  /\ credit_cap' = [credit_cap EXCEPT ![p] = tavily_cap]
  /\ UNCHANGED <<stop, call, attempt, spent, credits, cache, billed, paid,
                 lost_answers, substituted>>

(* An answer is in the cache.  chat looks at the flag before it looks      *)
(* there, cached_search after.                                             *)
Replay(p, k) ==
  /\ call[p][k] = "idle" /\ k \in cache
  /\ k \in Prompts => ~Stopped(p)
  /\ SetCall(p, k, "done")
  /\ UNCHANGED <<lock, up, releasing, cap, credit_cap, stop, attempt, spent,
                 credits, cache, billed, paid, lost_answers, substituted>>

(* check_stop, in chat, in reserve and in cached_search.                   *)
RaiseStop(p, k) ==
  /\ Stopped(p)
  /\ \/ k \in Prompts /\ call[p][k] \in {"idle", "waiting"}
     \/ k \in Queries /\ call[p][k] = "idle" /\ k \notin cache
  /\ SetCall(p, k, "stopped")
  /\ UNCHANGED <<lock, up, releasing, cap, credit_cap, stop, attempt, spent,
                 credits, cache, billed, paid, lost_answers, substituted>>

(* A request is due: the first of a call that is not cached, or a retry.   *)
Due_Uncached(p, k) == ~Stopped(p) /\ call[p][k] \in {"idle", "waiting"}
Due(p, k) ==
  /\ ~Stopped(p)
  /\ call[p][k] = "waiting" \/ (call[p][k] = "idle" /\ k \notin cache)

(* reserve: the row is committed before the request is sent.               *)
Fits_WithoutPending(p, k) == spent - WorstOf[InFlight(p)] + Worst(k) <= cap[p]
Fits(p, k) == spent + Worst(k) <= cap[p]

Reserve(p, k) ==
  /\ k \in Prompts /\ Due(p, k)
  /\ Fits(p, k)
  /\ spent' = spent + Worst(k)
  /\ SetCall(p, k, "sent")
  /\ attempt' = [attempt EXCEPT ![p][k] = @ + 1]
  /\ UNCHANGED <<lock, up, releasing, cap, credit_cap, stop, credits, cache,
                 billed, paid, lost_answers, substituted>>

(* reserve: the worst case would cross the cap.                            *)
TripCap(p, k) ==
  /\ k \in Prompts /\ Due(p, k)
  /\ ~Fits(p, k)
  /\ Trip(p, k, "cap")
  /\ UNCHANGED <<lock, up, releasing, cap, credit_cap, attempt, spent, credits,
                 cache, billed, paid, lost_answers, substituted>>

(* The answer: settled at its cost and put in the cache.                   *)
Answer(p, k) ==
  /\ k \in InFlight(p)
  /\ \E cost \in Costs(k) : Settle(k, cost) /\ billed' = billed + cost
  /\ cache' = cache \cup {k}
  /\ paid' = [paid EXCEPT ![k] = @ + 1]
  /\ SetCall(p, k, "done")
  /\ UNCHANGED <<lock, up, releasing, cap, credit_cap, stop, attempt, credits,
                 lost_answers, substituted>>

(* 429: not billed, tried again.                                           *)
RateLimited(p, k) ==
  /\ k \in InFlight(p)
  /\ Settle(k, 0)
  /\ RetryOrGiveUp(p, k)
  /\ UNCHANGED <<lock, up, releasing, cap, credit_cap, stop, attempt, credits,
                 cache, billed, paid, lost_answers, substituted>>

(* An error inside the stream, a 5xx, a timeout or a lost connection: it   *)
(* may have been billed, so the worst case stays; tried again.             *)
Unsure_Free(p, k) ==
  /\ k \in InFlight(p)
  /\ Settle(k, 0)
  /\ billed' = billed + Worst(k)
  /\ RetryOrGiveUp(p, k)
  /\ UNCHANGED <<lock, up, releasing, cap, credit_cap, stop, attempt, credits,
                 cache, paid, lost_answers, substituted>>
Unsure(p, k) ==
  /\ k \in InFlight(p)
  /\ Settle(k, Worst(k))
  /\ billed' = billed + Worst(k)
  /\ RetryOrGiveUp(p, k)
  /\ UNCHANGED <<lock, up, releasing, cap, credit_cap, stop, attempt, credits,
                 cache, paid, lost_answers, substituted>>

(* Any other 4xx: TransportError at once.                                  *)
Reject(p, k) ==
  /\ k \in InFlight(p)
  /\ Settle(k, 0)
  /\ SetCall(p, k, "failed")
  /\ UNCHANGED <<lock, up, releasing, cap, credit_cap, stop, attempt, credits,
                 cache, billed, paid, lost_answers, substituted>>

(* 401, 402, 403 or a billing error.                                       *)
RejectAccount(p, k) ==
  /\ k \in InFlight(p)
  /\ Settle(k, 0)
  /\ Trip(p, k, "account")
  /\ UNCHANGED <<lock, up, releasing, cap, credit_cap, attempt, credits, cache,
                 billed, paid, lost_answers, substituted>>

(* Another model was served, at a price the ledger does not know.          *)
Substitute(p, k) ==
  /\ k \in InFlight(p)
  /\ Settle(k, Worst(k))
  /\ billed' = billed + 5 * Worst(k)
  /\ substituted' = TRUE
  /\ Trip(p, k, "model")
  /\ UNCHANGED <<lock, up, releasing, cap, credit_cap, attempt, credits, cache,
                 paid, lost_answers>>

(* A search: its credits are booked before it is awaited, and stay booked  *)
(* when it fails.                                                          *)
BookSearch(p, q) ==
  /\ q \in Queries /\ Due(p, q)
  /\ credits + CreditsOf[q] <= credit_cap[p]
  /\ credits' = credits + CreditsOf[q]
  /\ SetCall(p, q, "sent")
  /\ UNCHANGED <<lock, up, releasing, cap, credit_cap, stop, attempt, spent,
                 cache, billed, paid, lost_answers, substituted>>

TripCredits(p, q) ==
  /\ q \in Queries /\ Due(p, q)
  /\ credits + CreditsOf[q] > credit_cap[p]
  /\ Trip(p, q, "credits")
  /\ UNCHANGED <<lock, up, releasing, cap, credit_cap, attempt, spent, credits,
                 cache, billed, paid, lost_answers, substituted>>

SearchAnswers(p, q) ==
  /\ q \in Queries /\ call[p][q] = "sent"
  /\ \/ SetCall(p, q, "done") /\ cache' = cache \cup {q}
     \/ SetCall(p, q, "failed") /\ UNCHANGED cache
  /\ UNCHANGED <<lock, up, releasing, cap, credit_cap, stop, attempt, spent,
                 credits, billed, paid, lost_answers, substituted>>

CallStep(p, k) ==
  \/ Replay(p, k) \/ RaiseStop(p, k)
  \/ Reserve(p, k) \/ TripCap(p, k)
  \/ Answer(p, k) \/ RateLimited(p, k) \/ Unsure(p, k) \/ Reject(p, k)
  \/ RejectAccount(p, k) \/ Substitute(p, k)
  \/ BookSearch(p, k) \/ TripCredits(p, k) \/ SearchAnswers(p, k)

-----------------------------------------------------------------------------
(* The run is over: its calls are.                                         *)
ForgetCalls(p) ==
  /\ call' = [call EXCEPT ![p] = NoCalls]
  /\ attempt' = [attempt EXCEPT ![p] = NoAttempts]

(* What dies with a process.  Requests under way are cancelled: their rows *)
(* stay at the worst case, and the provider may have served them.          *)
Vanish(p) ==
  /\ p \in up
  /\ up' = up \ {p} /\ releasing' = releasing \ {p}
  /\ stop' = [stop EXCEPT ![p] = "none"]
  /\ cap' = [cap EXCEPT ![p] = 0] /\ credit_cap' = [credit_cap EXCEPT ![p] = 0]
  /\ ForgetCalls(p)
  /\ UNCHANGED <<credits, cache, substituted>>

(* The process ends, also on Ctrl-C: atexit releases the lock, if that was *)
(* registered.                                                             *)
Exit(p) ==
  /\ Vanish(p)
  /\ lock' = IF p \in releasing /\ lock = p THEN NoPid ELSE lock
  /\ billed' = billed + WorstOf[InFlight(p)]
  /\ UNCHANGED <<spent, paid, lost_answers>>

(* A hard kill leaves the lock file behind.  It may come between settle    *)
(* and the write of the cache: that answer is paid and lost.               *)
Kill(p) ==
  /\ Vanish(p)
  /\ UNCHANGED lock
  /\ \/ /\ billed' = billed + WorstOf[InFlight(p)]
        /\ UNCHANGED <<spent, paid, lost_answers>>
     \/ \E k \in InFlight(p) :
          /\ \E cost \in Costs(k) :
               /\ Settle(k, cost)
               /\ billed' = billed + cost + WorstOf[InFlight(p) \ {k}]
          /\ paid' = [paid EXCEPT ![k] = @ + 1]
          /\ lost_answers' = lost_answers \cup {k}

(* The operator checks that the process is gone and deletes the file, as   *)
(* the message of EvalLocked says.                                         *)
ClearStaleLock ==
  /\ lock # NoPid /\ lock \notin up
  /\ lock' = NoPid
  /\ UNCHANGED <<up, releasing, cap, credit_cap, stop, call, attempt, spent,
                 credits, cache, billed, paid, lost_answers, substituted>>

-----------------------------------------------------------------------------
(* The evaluation never spends more than the project's hard maximum,       *)
(* pending worst cases included, however many processes with whatever caps *)
(* of their own ran before (budget.py:177-190, 233-242).                   *)
CapHolds == spent <= HardMaxUsd /\ credits <= HardMaxCredits

(* What the provider has charged, and may yet charge for what is under     *)
(* way, is in the ledger: through retries, cancelled calls and kills.      *)
(* Only a substituted model breaks this, at most for the requests already  *)
(* sent (budget.py:137-148, common.py:333-349).                            *)
LedgerCoversBill ==
  ~substituted => \A p \in Pids : billed + WorstOf[InFlight(p)] <= spent

(* One process spends at a time, though a lock may be stale, be taken over *)
(* by a process with the same pid, or be deleted (budget.py:266-300).      *)
OneSpender ==
  \A p, q \in Pids :
    (p \in up \/ \E k \in Keys : call[p][k] # "idle") /\ q \in up => p = q

(* A rerun replays what it already has: an answer is paid for again only   *)
(* if a kill came between its row and its place in the cache               *)
(* (common.py:19, 437-443).                                                *)
PaidOnce == \A k \in Prompts \ lost_answers : paid[k] <= 1
=============================================================================
