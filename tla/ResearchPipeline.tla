--------------------------- MODULE ResearchPipeline ---------------------------
(***************************************************************************)
(* The research graph of agents/graph.py: one job's ResearchState as it    *)
(* passes through orchestrate, parallel_search, parallel_scraping,         *)
(* parallel_analysis and critic_review, loops through increment_round, and *)
(* leaves through fact_checking and writer.                                *)
(*                                                                         *)
(* A node is one action: the branches a node fans out with asyncio.gather  *)
(* share no state, and their outputs are combined only after all of them   *)
(* have finished.  What the web and the model answer is a nondeterministic *)
(* choice, including failed branches and failed calls.  What the calls     *)
(* cost is in LlmClient: no branch of the graph depends on it.             *)
(*                                                                         *)
(* A claim is its text and the page it cites; a flag is a claim's text and *)
(* the query to search again.  A list that the code de-duplicates is a     *)
(* set; the choices below cover every order of its elements.               *)
(***************************************************************************)
EXTENDS Naturals, FiniteSets

CONSTANTS
  Texts,          \* what a claim may say
  Urls,           \* pages a search may return
  Unsourced,      \* the "page" of a claim that cites no fetched page
  Questions,      \* sub-questions and re-search queries, none of them blank
  Blank,          \* a blank sub-question
  MaxRounds,      \* max_rounds of the request
  MaxFlagged,     \* MAX_FLAGGED_PER_ROUND
  MaxTargeted,    \* how many flags become sub-questions of the next round
  MaxCitations    \* citations kept in the report

ASSUME MaxRoundsAssumption == MaxRounds \in Nat \ {0}
ASSUME LimitsAssumption ==
  MaxFlagged \in Nat /\ MaxTargeted \in Nat \ {0} /\ MaxCitations \in Nat
ASSUME UnsourcedAssumption == Unsourced \notin Urls
ASSUME BlankAssumption == Blank \notin Questions

VARIABLES
  (* the fields of ResearchState *)
  sub_questions, search_outputs, scraper_outputs, all_sources,
  analyst_outputs, carried_claims, critic_output,
  fact_check_results, fact_sources, final_report,
  current_round, converged, fatal_error,
  activity_log,
  (* the graph: the node that runs next *)
  pc,
  (* history: what no field records *)
  reviewed,       \* how the last critic review ended
  ever_approved,  \* claims approved by a review that asked for another round
  supersteps      \* nodes run so far

research == <<sub_questions, search_outputs, scraper_outputs, all_sources,
              analyst_outputs>>
review   == <<critic_output, converged, reviewed, ever_approved>>
loop     == <<carried_claims, current_round>>
outcome  == <<fact_check_results, fact_sources, final_report>>
control  == <<pc, supersteps, fatal_error>>

vars == <<research, review, loop, outcome, control, activity_log>>

-----------------------------------------------------------------------------
(* Types *)

Claim    == [text : Texts, url : Urls \cup {Unsourced}]
Flag     == [text : Texts, query : Questions]
Review   == [flagged : SUBSET Flag, approved : SUBSET Claim,
             needs_more : BOOLEAN]
Verdict  == {"verified", "contradicted", "inconclusive"}
Checked  == [text : Texts, verdict : Verdict]
Report   == [claims : SUBSET Claim, verified : SUBSET Texts,
             citations : SUBSET Urls, converged : BOOLEAN, rounds : Nat,
             structured : BOOLEAN]

NoReport == [claims |-> {}, verified |-> {}, citations |-> {},
             converged |-> FALSE, rounds |-> 0, structured |-> FALSE]
NoReview == [flagged |-> {}, approved |-> {}, needs_more |-> FALSE]

Agents   == {"orchestrator", "search", "scraper", "analyst", "critic",
             "fact_checker", "writer", "pipeline"}
Nodes    == {"orchestrate", "parallel_search", "parallel_scraping",
             "parallel_analysis", "critic_review", "increment_round",
             "fact_checking", "writer"}
Reviews  == {"none", "no_claims", "failed", "satisfied", "wants_more"}
Entry    == {"absent", "running", "completed", "failed", "skipped"}

TypeOK ==
  /\ sub_questions \subseteq Questions \cup {Blank}
  /\ search_outputs \subseteq Urls
  /\ scraper_outputs \subseteq Urls
  /\ all_sources \subseteq Urls
  /\ analyst_outputs \subseteq Claim
  /\ carried_claims \subseteq Claim
  /\ critic_output \in Review
  /\ fact_check_results \subseteq Checked
  /\ fact_sources \subseteq Urls
  /\ final_report \in Report
  /\ current_round \in Nat
  /\ converged \in BOOLEAN
  /\ fatal_error \in {"none", "orchestrator", "critic", "writer"}
  /\ activity_log \in [Agents -> Entry]
  /\ pc \in Nodes \cup {"end"}
  /\ reviewed \in Reviews
  /\ ever_approved \subseteq Claim
  /\ supersteps \in Nat

-----------------------------------------------------------------------------
(* Helpers.  A definition whose name ends in _ and a word is the definition *)
(* after it with a bug: no specification uses it, the mutation runs do.    *)

TextsOf(cs) == {c.text : c \in cs}

OnePerText(cs) == \A c, d \in cs : c.text = d.text => c = d

(* ResearchState.collected_claims: a carried claim hides a new one that    *)
(* says the same.                                                          *)
CollectedClaims ==
  carried_claims
    \cup {c \in analyst_outputs : c.text \notin TextsOf(carried_claims)}

(* all_sources after a search: what earlier rounds found is kept.          *)
SourcesAfter_Reset(found) == found
SourcesAfter(found) == all_sources \cup found

(* carried_claims of the next round                                        *)
ClaimsCarriedOn_Lost == carried_claims
ClaimsCarriedOn ==
  carried_claims
    \cup {c \in critic_output.approved :
            c.text \notin TextsOf(carried_claims)}

(* Approved: every claim but those whose text a flag repeats.              *)
ApprovedUnder_All(flagged) == CollectedClaims
ApprovedUnder(flagged) ==
  {c \in CollectedClaims : c.text \notin TextsOf(flagged)}

(* What flags add to the questions of a re-research round                  *)
Targeted_Flags(flags) == IF current_round > 0 THEN flags ELSE {}
Targeted_None(flags)  == {}
Targeted(flags) ==
  IF current_round > 0 THEN {f.query : f \in flags} ELSE {}

RoundsLeft_OneMore == current_round < MaxRounds
RoundsLeft == current_round < MaxRounds - 1

Converged(wants_more) == ~(wants_more /\ ~RoundsLeft)

(* What the slice [:n] of a list of the elements of S may keep.            *)
FirstOf(n, S) ==
  IF Cardinality(S) <= n THEN {S} ELSE {T \in SUBSET S : Cardinality(T) = n}

(* The next node, once the running one has returned.                       *)
Goto(node) == pc' = node /\ supersteps' = supersteps + 1

(* The graph stops at a chunk that carries a fatal error, and at a node    *)
(* that raises.                                                            *)
Halt(agent) == fatal_error' = agent /\ Goto("end")

Announce(agent, entry) ==
  activity_log' = [activity_log EXCEPT ![agent] = entry]

-----------------------------------------------------------------------------
Init ==
  /\ sub_questions = {} /\ search_outputs = {} /\ scraper_outputs = {}
  /\ all_sources = {} /\ analyst_outputs = {} /\ carried_claims = {}
  /\ critic_output = NoReview
  /\ fact_check_results = {} /\ fact_sources = {} /\ final_report = NoReport
  /\ current_round = 0 /\ converged = FALSE /\ fatal_error = "none"
  /\ activity_log = [a \in Agents |-> "absent"]
  /\ pc = "orchestrate"
  /\ reviewed = "none" /\ ever_approved = {} /\ supersteps = 0

(* orchestrate, its LLM call failing: the run is fatal.                    *)
OrchestrateFails ==
  /\ pc = "orchestrate"
  /\ Announce("orchestrator", "failed")
  /\ Halt("orchestrator")
  /\ UNCHANGED <<research, review, loop, outcome>>

(* orchestrate: the model's questions, and on a re-research round the      *)
(* first flags' queries too.                                               *)
Orchestrate ==
  /\ pc = "orchestrate"
  /\ \E asked \in SUBSET (Questions \cup {Blank}),
        targeted \in FirstOf(MaxTargeted, critic_output.flagged) :
       sub_questions' = asked \cup Targeted(targeted)
  /\ Announce("orchestrator", "completed")
  /\ Goto("parallel_search")
  /\ UNCHANGED <<search_outputs, scraper_outputs, all_sources,
                 analyst_outputs, review, loop, outcome, fatal_error>>

(* run_parallel_search: a failed branch contributes no result.             *)
ParallelSearch ==
  /\ pc = "parallel_search"
  /\ sub_questions' = sub_questions \ {Blank}
  /\ \E found \in SUBSET Urls :
       /\ sub_questions' = {} => found = {}
       /\ search_outputs' = found
       /\ all_sources' = SourcesAfter(found)
  /\ Announce("search", "completed")
  /\ Goto("parallel_scraping")
  /\ UNCHANGED <<scraper_outputs, analyst_outputs, review, loop, outcome,
                 fatal_error>>

(* run_parallel_scraping: the pages with content among the top URLs of     *)
(* each branch.                                                            *)
ParallelScraping ==
  /\ pc = "parallel_scraping"
  /\ \E pages \in SUBSET search_outputs : scraper_outputs' = pages
  /\ Announce("scraper", "completed")
  /\ Goto("parallel_analysis")
  /\ UNCHANGED <<sub_questions, search_outputs, all_sources, analyst_outputs,
                 review, loop, outcome, fatal_error>>

(* run_parallel_analysis: the claims the branches extracted, one per text  *)
(* (collected_claims, the only reader, keeps the first).  A branch without *)
(* a page calls no model; a branch whose call fails returns no claim.      *)
ParallelAnalysis ==
  /\ pc = "parallel_analysis"
  /\ \E claims \in SUBSET [text : Texts,
                            url : scraper_outputs \cup {Unsourced}] :
       /\ OnePerText(claims)
       /\ scraper_outputs = {} => claims = {}
       /\ analyst_outputs' = claims
  /\ Announce("analyst", "completed")
  /\ Goto("critic_review")
  /\ UNCHANGED <<sub_questions, search_outputs, scraper_outputs, all_sources,
                 review, loop, outcome, fatal_error>>

(* run_critic_agent without a claim to review.  converged keeps its value. *)
CriticFindsNoClaims ==
  /\ pc = "critic_review"
  /\ CollectedClaims = {}
  /\ critic_output' = NoReview
  /\ reviewed' = "no_claims"
  /\ Announce("critic", "completed")
  /\ Goto("fact_checking")
  /\ UNCHANGED <<research, converged, ever_approved, loop, outcome,
                 fatal_error>>

(* run_critic_agent, its LLM call failing: everything is approved, and the *)
(* function returns between the RUNNING entry and the one that ends it.    *)
CriticFailsOpen_KeepsConverged ==
  /\ pc = "critic_review"
  /\ CollectedClaims # {}
  /\ critic_output' = [NoReview EXCEPT !.approved = CollectedClaims]
  /\ reviewed' = "failed"
  /\ Announce("critic", "running")
  /\ Goto("fact_checking")
  /\ UNCHANGED <<research, converged, ever_approved, loop, outcome,
                 fatal_error>>
CriticFailsOpen ==
  /\ pc = "critic_review"
  /\ CollectedClaims # {}
  /\ critic_output' = [NoReview EXCEPT !.approved = CollectedClaims]
  /\ converged' = FALSE
  /\ reviewed' = "failed"
  /\ Announce("critic", "running")
  /\ Goto("fact_checking")
  /\ UNCHANGED <<research, ever_approved, loop, outcome, fatal_error>>

(* run_critic_agent, reviewed.  A flag's text is what the model wrote: it  *)
(* removes a claim only when it repeats its text.  should_continue_research*)
(* then routes on the output.                                              *)
CriticReview ==
  /\ pc = "critic_review"
  /\ CollectedClaims # {}
  /\ \E wants_more \in BOOLEAN,
        flagged \in {fs \in SUBSET Flag :
                       OnePerText(fs) /\ Cardinality(fs) <= MaxFlagged} :
       LET needs_more == wants_more /\ RoundsLeft /\ flagged # {}
       IN  /\ critic_output' = [flagged    |-> flagged,
                                approved   |-> ApprovedUnder(flagged),
                                needs_more |-> needs_more]
           /\ converged' = Converged(wants_more)
           /\ reviewed' = IF wants_more THEN "wants_more" ELSE "satisfied"
           /\ ever_approved' = ever_approved
                 \cup IF needs_more THEN ApprovedUnder(flagged) ELSE {}
           /\ Goto(IF needs_more /\ RoundsLeft THEN "increment_round"
                                             ELSE "fact_checking")
  /\ Announce("critic", "completed")
  /\ UNCHANGED <<research, loop, outcome, fatal_error>>

(* run_critic_agent given a score outside [0, 1]: CriticAgentOutput refuses *)
(* it outside the try, so the node raises and its mutations are lost.      *)
CriticRaises ==
  /\ pc = "critic_review"
  /\ CollectedClaims # {}
  /\ Halt("critic")
  /\ UNCHANGED <<research, review, loop, outcome, activity_log>>

(* increment_round                                                         *)
IncrementRound ==
  /\ pc = "increment_round"
  /\ current_round' = current_round + 1
  /\ carried_claims' = ClaimsCarriedOn
  /\ search_outputs' = {} /\ scraper_outputs' = {} /\ analyst_outputs' = {}
  /\ Announce("pipeline", "running")
  /\ Goto("orchestrate")
  /\ UNCHANGED <<sub_questions, all_sources, review, outcome, fatal_error>>

(* run_fact_checking without a flag                                        *)
SkipFactChecking_IfReviewed ==
  /\ pc = "fact_checking"
  /\ critic_output.flagged = {} /\ reviewed # "failed"
  /\ Announce("fact_checker", "skipped")
  /\ Goto("writer")
  /\ UNCHANGED <<research, review, loop, outcome, fatal_error>>
SkipFactChecking ==
  /\ pc = "fact_checking"
  /\ critic_output.flagged = {}
  /\ Announce("fact_checker", "skipped")
  /\ Goto("writer")
  /\ UNCHANGED <<research, review, loop, outcome, fatal_error>>

(* run_fact_checking: one result per flag.  A flag whose search or whose   *)
(* call fails is inconclusive, so a verdict needs a page to rest on.       *)
FactChecking ==
  /\ pc = "fact_checking"
  /\ critic_output.flagged # {}
  /\ \E verdict \in [TextsOf(critic_output.flagged) -> Verdict],
        pages \in SUBSET Urls :
       /\ (\E t \in DOMAIN verdict : verdict[t] # "inconclusive") => pages # {}
       /\ fact_check_results' =
            {[text |-> t, verdict |-> verdict[t]] : t \in DOMAIN verdict}
       /\ fact_sources' = pages
  /\ Announce("fact_checker", "completed")
  /\ Goto("writer")
  /\ UNCHANGED <<research, review, loop, final_report, fatal_error>>

(* run_writer_agent, its first LLM call failing: the run is fatal.         *)
WriterFails_NotFatal ==
  /\ pc = "writer"
  /\ Announce("writer", "failed")
  /\ Goto("end")
  /\ UNCHANGED <<research, review, loop, outcome, fatal_error>>
WriterFails ==
  /\ pc = "writer"
  /\ Announce("writer", "failed")
  /\ Halt("writer")
  /\ UNCHANGED <<research, review, loop, outcome>>

(* run_writer_agent: the reply parses, or one retry (a rewrite or a repair) *)
(* does, or the text is kept as prose.                                     *)
Writer ==
  /\ pc = "writer"
  /\ \E citations \in FirstOf(MaxCitations, all_sources \cup fact_sources),
        structured \in BOOLEAN :
       final_report' =
         [claims     |-> critic_output.approved,
          verified   |-> {r.text : r \in {x \in fact_check_results :
                                            x.verdict = "verified"}},
          citations  |-> citations,
          converged  |-> converged,
          rounds     |-> current_round + 1,
          structured |-> structured]
  /\ Announce("writer", "completed")
  /\ Goto("end")
  /\ UNCHANGED <<research, review, loop, fact_check_results, fact_sources,
                 fatal_error>>

Next ==
  \/ OrchestrateFails \/ Orchestrate
  \/ ParallelSearch \/ ParallelScraping \/ ParallelAnalysis
  \/ CriticFindsNoClaims \/ CriticFailsOpen \/ CriticReview \/ CriticRaises
  \/ IncrementRound
  \/ SkipFactChecking \/ FactChecking
  \/ WriterFails \/ Writer

Spec == Init /\ [][Next]_vars

(* Every call has a timeout and a bounded number of attempts, so a node    *)
(* that has started returns or raises.                                     *)
FairSpec == Spec /\ WF_vars(Next)
-----------------------------------------------------------------------------
(* Properties *)

Reported == final_report # NoReport
Ended    == pc = "end"

(* A job ends with a report or with a fatal error, never with neither or   *)
(* both: GET /report/{id} answers 404 on a completed job without a report  *)
(* (writer_agent.py:356-359).                                              *)
EndsWithReportOrError == Ended => (Reported <=> fatal_error = "none")

(* A claim the Critic approved when it asked for another round is still    *)
(* before the Writer, with the page it was approved with, unless the last  *)
(* review flagged it; and only once, however many rounds extracted its     *)
(* text (graph.py:50-59, schemas.py:409-418).                              *)
ApprovedClaimsSurvive ==
  Reported =>
    /\ \A c \in ever_approved :
         \/ c \in final_report.claims
         \/ c.text \in TextsOf(critic_output.flagged)
    /\ OnePerText(final_report.claims)

(* As long as nothing is cut off, each claim of the report that rests on a *)
(* page has that page among the citations, whichever round fetched it      *)
(* (schemas.py:364-368).                                                   *)
ClaimsAreCited ==
  Reported /\ Cardinality(all_sources \cup fact_sources) <= MaxCitations
    => \A c \in final_report.claims :
         c.url # Unsourced => c.url \in final_report.citations

(* What the Fact-Checker contradicted, or could not settle, is not among   *)
(* the claims the Writer gets as approved.                                 *)
NoRefutedClaimApproved ==
  Reported => \A r \in fact_check_results :
                r.verdict # "verified" => r.text \notin TextsOf(final_report.claims)

(* A report on claims that a review looked at says of its convergence what *)
(* the last review found: not a review of an earlier round, and not one    *)
(* that failed.  It is called converged if the Critic was satisfied and    *)
(* also, against critic_agent.py:210, if the Critic wanted more with       *)
(* rounds left and named nothing to search again (critic_agent.py:208,     *)
(* 216).  A last round without claims has a run of its own.                *)
NothingToSearch ==
  reviewed = "wants_more" /\ RoundsLeft /\ critic_output.flagged = {}

ConvergedWasReviewed ==
  Reported /\ reviewed # "no_claims" =>
    (final_report.converged <=> reviewed = "satisfied" \/ NothingToSearch)

(* A re-research round asks again for something that the review before it  *)
(* flagged (orchestrator.py:110-115, graph.py:65).                         *)
ReResearchIsTargeted ==
  pc = "parallel_scraping" /\ current_round > 0
    => \E f \in critic_output.flagged : f.query \in sub_questions

(* A fatal error that a node reported itself is the last word of that      *)
(* agent in the feed (orchestrator.py:92-97).                              *)
FailureIsAttributed ==
  fatal_error \in {"orchestrator", "writer"}
    => activity_log[fatal_error] = "failed"

(* The loop stops: at most MaxRounds rounds, and with the rounds a request *)
(* may ask for (schemas.py:429) fewer node runs than the 25 at which the   *)
(* graph library gives up on a run (graph.py sets no limit of its own).    *)
LoopIsBounded ==
  /\ current_round < MaxRounds
  /\ supersteps <= 6 * MaxRounds + 1

(* Every job ends.                                                         *)
JobEnds == <>Ended

(* The pipeline keeps the promise of ResearchPromise: what it hands over   *)
(* comes from the accumulators, round after round (graph.py:162-246).      *)
Phase ==
  IF ~Ended THEN "researching"
            ELSE IF fatal_error = "none" THEN "delivered" ELSE "failed"

Promise == INSTANCE ResearchPromise
             WITH phase <- Phase, round <- current_round,
                  sources <- all_sources, kept <- carried_claims,
                  answer <- final_report.claims

KeepsPromise == Promise!Spec

-----------------------------------------------------------------------------
(* Why the properties hold: inductive strengthenings, proved in            *)
(* ResearchPipelineProofs.                                                 *)

BeforeReview == {"orchestrate", "parallel_search", "parallel_scraping",
                 "parallel_analysis", "critic_review"}

(* Every node run has a place in its round.                                *)
Position == [n \in Nodes |->
  CASE n = "orchestrate" -> 0       [] n = "parallel_search" -> 1
    [] n = "parallel_scraping" -> 2 [] n = "parallel_analysis" -> 3
    [] n = "critic_review" -> 4     [] n = "increment_round" -> 5
    [] n = "fact_checking" -> 5     [] n = "writer" -> 6]

LoopInv ==
  /\ current_round < MaxRounds
  /\ pc = "increment_round" => current_round < MaxRounds - 1
  /\ pc # "end" => supersteps = 6 * current_round + Position[pc]
  /\ pc = "end" => supersteps <= 6 * current_round + 7

(* Every step runs a node of a job that has not ended, and there are only  *)
(* so many to run.                                                         *)
NodesLeft == 6 * MaxRounds + 1 - supersteps
NodesRunDown ==
  [][~Ended /\ NodesLeft \in Nat /\ NodesLeft' \in Nat /\ NodesLeft' < NodesLeft]_vars

(* A round is only started for a flag, and asks for one as soon as it has  *)
(* its questions.                                                          *)
TargetInv ==
  /\ pc = "increment_round" \/ (pc = "orchestrate" /\ current_round > 0) =>
       critic_output.flagged # {}
  /\ pc \in {"parallel_search", "parallel_scraping"} /\ current_round > 0 =>
       \E f \in critic_output.flagged : f.query \in sub_questions

(* Whatever is claimed was found, and stays found.                         *)
SourceInv ==
  /\ search_outputs \cup scraper_outputs \subseteq all_sources
  /\ \A c \in analyst_outputs \cup carried_claims \cup critic_output.approved :
       c.url \in all_sources \cup {Unsourced}

(* What is approved is carried once the next round starts, and until then  *)
(* is either carried already or in the review's output.                    *)
ReviewInv ==
  /\ OnePerText(analyst_outputs) /\ OnePerText(carried_claims)
  /\ TextsOf(critic_output.approved) \cap TextsOf(critic_output.flagged) = {}
  /\ pc \in BeforeReview => ever_approved \subseteq carried_claims
  /\ pc \in {"increment_round", "fact_checking", "writer"} \/ Reported =>
       /\ OnePerText(carried_claims \cup critic_output.approved)
       /\ ever_approved \subseteq carried_claims \cup critic_output.approved
       /\ \A c \in ever_approved :
            \/ c \in critic_output.approved
            \/ c.text \in TextsOf(critic_output.flagged)

(* The report hands over what the review before it approved.               *)
ReportInv ==
  /\ pc # "end" => final_report = NoReport /\ fatal_error = "none"
  /\ pc = "end" => (Reported <=> fatal_error = "none")
  /\ pc \notin {"writer", "end"} => fact_check_results = {}
  /\ TextsOf(fact_check_results) \subseteq TextsOf(critic_output.flagged)
  /\ (pc \in {"fact_checking", "writer"} \/ Reported) /\ reviewed # "no_claims"
       => (converged <=> reviewed = "satisfied" \/ NothingToSearch)
  /\ Reported =>
       /\ final_report.claims = critic_output.approved
       /\ final_report.converged = converged
       /\ final_report.citations
            \in FirstOf(MaxCitations, all_sources \cup fact_sources)
  /\ ~Reported => final_report.claims = {}

-----------------------------------------------------------------------------
(* What the documentation says and the code does not do *)

(* critic_agent.py:149-151: a report must not claim a bar it was never     *)
(* measured against.                                                       *)
ConvergedWasMeasured ==
  Reported /\ final_report.converged
    => reviewed \in {"satisfied", "wants_more"}
=============================================================================
