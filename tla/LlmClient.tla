------------------------------ MODULE LlmClient ------------------------------
(***************************************************************************)
(* agents/llm_client.py and the way the nodes share a job's token budget:  *)
(* a node reads what is left, hands every one of its parallel calls a      *)
(* share, and charges the job when all of them have returned.  The calls   *)
(* of all the jobs of a process share _MAX_TOKENS_PARAM: what the server   *)
(* has taught them about the name of the max-tokens parameter.  The jobs   *)
(* are taken to use one OpenAI-compatible model; with another, or with     *)
(* Anthropic, a job has no part in that.                                   *)
(*                                                                         *)
(* What the nodes do besides is in ResearchPipeline.                       *)
(***************************************************************************)
EXTENDS Integers, FiniteSets, FiniteSetsExt

CONSTANTS
  Jobs,
  Budget,      \* token_budget
  Floor,       \* 256, the least a call may answer with
  Limits,      \* the max_tokens of the agents
  MaxInput,    \* bound: tokens of a prompt
  MaxFan,      \* bound: parallel calls of a node
  MaxNodes,    \* bound: node runs of all jobs together
  MaxAttempts  \* stop_after_attempt

ASSUME ClientAssumption ==
  /\ Budget \in Nat /\ Floor \in Nat /\ MaxInput \in Nat \ {0}
  /\ MaxFan \in Nat /\ MaxNodes \in Nat /\ MaxAttempts \in Nat \ {0}
  /\ \A n \in Limits : n \in Nat /\ Floor <= n

Names == {"max_tokens", "max_completion_tokens"}

VARIABLES
  accepted,  \* the names the server takes for the model
  learned,   \* _MAX_TOKENS_PARAM of the model
  used,      \* tokens_used_total
  running,   \* a node of the job has called the client
  cap,       \* max_tokens of the calls of that node, clamped
  call,      \* those calls
  pending,   \* tokens of those that have returned
  nodes,     \* node runs
  (* history *)
  made,      \* calls of the job
  billed,    \* tokens of every reply it had, also of those no one can parse
  spoiled    \* its finished nodes that had a reply no one could parse

vars == <<accepted, learned, used, running, cap, call, pending, nodes,
          made, billed, spoiled>>

(* A call: where it is, the name it sent, whether that was a learned one,  *)
(* and the attempts tenacity has made.                                     *)
Call == [is : {"ready", "first", "second", "returned", "unusable", "raised"},
         name : Names, knew : BOOLEAN, attempts : 0..MaxAttempts]

(* _max_tokens_param_for of a model nothing is learned of: the guess by    *)
(* its id, which may be wrong either way.                                  *)
Guess == "max_tokens"
NewCall == [is |-> "ready", name |-> Guess, knew |-> FALSE, attempts |-> 0]
EndedCall(how) == [NewCall EXCEPT !.is = how]
Other(name) ==
  IF name = "max_tokens" THEN "max_completion_tokens" ELSE "max_tokens"

TypeOK ==
  /\ accepted \in (SUBSET Names) \ {{}}
  /\ learned \in Names \cup {"none"}
  /\ used \in [Jobs -> Nat] /\ cap \in [Jobs -> Nat]
  /\ running \in [Jobs -> BOOLEAN]
  /\ DOMAIN call = Jobs
  /\ \A j \in Jobs :
       \E n \in 0..MaxFan : call[j] \in [1..n -> Call]
  /\ pending \in [Jobs -> Nat]
  /\ nodes \in 0..MaxNodes
  /\ made \in [Jobs -> Nat] /\ billed \in [Jobs -> Nat]
  /\ spoiled \in [Jobs -> Nat]

-----------------------------------------------------------------------------
(* Helpers.  A definition whose name ends in _ and a word is the definition *)
(* after it with a bug: no specification uses it, the mutation runs do.    *)

(* What one of n calls is told is left, also when nothing is.              *)
Share_Undivided(j, n) == Budget - used[j]
Share(j, n) == (Budget - used[j]) \div Max({n, 1})

(* call_llm: never less than the floor, even on a spent budget.            *)
Clamp(limit, left) == Min({limit, Max({Floor, left})})

Over == {"returned", "unusable", "raised"}
Spoilt(j) == \E i \in DOMAIN call[j] : call[j][i].is = "unusable"

Become(j, i, state) == call' = [call EXCEPT ![j][i] = state]

-----------------------------------------------------------------------------
Init ==
  /\ accepted \in (SUBSET Names) \ {{}}
  /\ learned = "none"
  /\ used = [j \in Jobs |-> 0] /\ pending = [j \in Jobs |-> 0]
  /\ running = [j \in Jobs |-> FALSE] /\ cap = [j \in Jobs |-> 0]
  /\ call = [j \in Jobs |-> <<>>]
  /\ nodes = 0 /\ made = [j \in Jobs |-> 0]
  /\ billed = [j \in Jobs |-> 0] /\ spoiled = [j \in Jobs |-> 0]

(* A node starts n calls at once: one for each sub-question, one for each  *)
(* flag, or its only one.  The Writer's second call counts as a node of    *)
(* its own: it too is told what the first has left.                        *)
StartNode(j, n, limit) ==
  /\ ~running[j] /\ nodes < MaxNodes
  /\ running' = [running EXCEPT ![j] = TRUE]
  /\ nodes' = nodes + 1
  /\ cap' = [cap EXCEPT ![j] = Clamp(limit, Share(j, n))]
  /\ call' = [call EXCEPT ![j] = [i \in 1..n |-> NewCall]]
  /\ made' = [made EXCEPT ![j] = @ + n]
  /\ UNCHANGED <<accepted, learned, used, pending, billed, spoiled>>

(* An attempt: with the learned name, or else the guessed one.             *)
Send_CachesGuess(j, i) ==
  /\ call[j][i].is = "ready"
  /\ LET name == IF learned = "none" THEN Guess ELSE learned IN
       /\ Become(j, i, [is |-> "first", name |-> name,
                        knew |-> learned # "none",
                        attempts |-> call[j][i].attempts + 1])
       /\ learned' = name
  /\ UNCHANGED <<accepted, used, running, cap, pending, nodes,
                 made, billed, spoiled>>
Send(j, i) ==
  /\ call[j][i].is = "ready"
  /\ Become(j, i, [is |-> "first",
                   name |-> IF learned = "none" THEN Guess ELSE learned,
                   knew |-> learned # "none",
                   attempts |-> call[j][i].attempts + 1])
  /\ UNCHANGED <<accepted, learned, used, running, cap, pending, nodes,
                 made, billed, spoiled>>

(* The server refuses the name and mentions the other: sent again with it. *)
SwitchName(j, i) ==
  /\ call[j][i].is = "first" /\ call[j][i].name \notin accepted
  /\ Become(j, i, [call[j][i] EXCEPT !.is = "second", !.name = Other(@)])
  /\ UNCHANGED <<accepted, learned, used, running, cap, pending, nodes,
                 made, billed, spoiled>>

(* The server answers, with as little or as much as it may: the name is    *)
(* learned, the reply parsed or not.  The tokens of one that does not      *)
(* parse are on the bill and on no account: the node returns 0 for it.     *)
Reply(j, i) ==
  /\ call[j][i].is \in {"first", "second"} /\ call[j][i].name \in accepted
  /\ learned' = call[j][i].name
  /\ \E tokens \in {1, MaxInput + cap[j]} :
       /\ billed' = [billed EXCEPT ![j] = @ + tokens]
       /\ \/ /\ Become(j, i, EndedCall("returned"))
             /\ pending' = [pending EXCEPT ![j] = @ + tokens]
          \/ /\ Become(j, i, EndedCall("unusable"))
             /\ UNCHANGED pending
  /\ UNCHANGED <<accepted, used, running, cap, nodes, made, spoiled>>

(* A rate limit or a lost connection: tried again from the start, with     *)
(* whatever name is known by then.                                         *)
Interrupted_OnceMore(j, i) ==
  /\ call[j][i].is \in {"first", "second"}
  /\ Become(j, i, IF call[j][i].attempts <= MaxAttempts
                  THEN [call[j][i] EXCEPT !.is = "ready"]
                  ELSE EndedCall("raised"))
  /\ UNCHANGED <<accepted, learned, used, running, cap, pending, nodes,
                 made, billed, spoiled>>
Interrupted(j, i) ==
  /\ call[j][i].is \in {"first", "second"}
  /\ Become(j, i, IF call[j][i].attempts < MaxAttempts
                  THEN [call[j][i] EXCEPT !.is = "ready"]
                  ELSE EndedCall("raised"))
  /\ UNCHANGED <<accepted, learned, used, running, cap, pending, nodes,
                 made, billed, spoiled>>

(* Any other error is not retried.                                         *)
Refused(j, i) ==
  /\ call[j][i].is \in {"first", "second"}
  /\ Become(j, i, EndedCall("raised"))
  /\ UNCHANGED <<accepted, learned, used, running, cap, pending, nodes,
                 made, billed, spoiled>>

(* gather has all of them: the node charges the job.                       *)
FinishNode_NoCharge(j) ==
  /\ running[j] /\ running' = [running EXCEPT ![j] = FALSE]
  /\ \A i \in DOMAIN call[j] : call[j][i].is \in Over
  /\ pending' = [pending EXCEPT ![j] = 0]
  /\ spoiled' = [spoiled EXCEPT ![j] = IF Spoilt(j) THEN @ + 1 ELSE @]
  /\ call' = [call EXCEPT ![j] = <<>>]
  /\ cap' = [cap EXCEPT ![j] = 0]
  /\ UNCHANGED <<accepted, learned, used, nodes, made, billed>>
FinishNode(j) ==
  /\ running[j] /\ running' = [running EXCEPT ![j] = FALSE]
  /\ \A i \in DOMAIN call[j] : call[j][i].is \in Over
  /\ used' = [used EXCEPT ![j] = @ + pending[j]]
  /\ pending' = [pending EXCEPT ![j] = 0]
  /\ spoiled' = [spoiled EXCEPT ![j] = IF Spoilt(j) THEN @ + 1 ELSE @]
  /\ call' = [call EXCEPT ![j] = <<>>]
  /\ cap' = [cap EXCEPT ![j] = 0]
  /\ UNCHANGED <<accepted, learned, nodes, made, billed>>

-----------------------------------------------------------------------------
CallStep(j, i) == \/ Send(j, i) \/ SwitchName(j, i) \/ Reply(j, i)
                  \/ Interrupted(j, i) \/ Refused(j, i)

Next == \E j \in Jobs :
  \/ FinishNode(j)
  \/ \E n \in 0..MaxFan, limit \in Limits : StartNode(j, n, limit)
  \/ \E i \in DOMAIN call[j] : CallStep(j, i)

Spec == Init /\ [][Next]_vars

-----------------------------------------------------------------------------
(* However many calls of however many jobs are retrying with the other     *)
(* name when one of them succeeds, the name that is kept is one the server *)
(* takes, a request sent with a kept name is not refused for it, and one   *)
(* that was corrected is not refused again (llm_client.py:129-146).        *)
LearnedNameWorks ==
  /\ learned \in accepted \cup {"none"}
  /\ \A j \in Jobs : \A i \in DOMAIN call[j] :
       call[j][i].is \in {"first", "second"} /\ call[j][i].name \notin accepted
         => call[j][i].is = "first" /\ ~call[j][i].knew

(* Parallel calls all read the budget before any of them is charged, and   *)
(* still overdraw it by no more than their prompts and the floor: the      *)
(* remainder is spent once, not once for each call (llm_client.py:302,     *)
(* analyst_agent.py:299, fact_checker_agent.py:185).                       *)
OverrunIsBounded ==
  \A j \in Jobs :
    used[j] + pending[j] <= Budget + made[j] * (MaxInput + Floor)

(* What the provider bills may be more than the account: a reply that does *)
(* not parse is paid for and not charged, so the nodes after it are told   *)
(* of a remainder that is spent already.  A node that lost a reply so      *)
(* costs the job one more budget at most, however many of its calls did    *)
(* (analyst_agent.py:213, fact_checker_agent.py:98, critic_agent.py:136).  *)
BillIsBounded ==
  \A j \in Jobs :
    billed[j] <= Budget * (1 + spoiled[j]) + made[j] * (MaxInput + Floor)
=============================================================================
