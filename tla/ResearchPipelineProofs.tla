------------------------ MODULE ResearchPipelineProofs ------------------------
(***************************************************************************)
(* The safety properties of ResearchPipeline, for any texts, pages and     *)
(* questions and any limits.                                               *)
(***************************************************************************)
EXTENDS ResearchPipeline, FiniteSetTheorems, TLAPS

(* Announcing keeps the type of the feed.                                  *)
LEMMA AnnounceType ==
  ASSUME NEW agent \in Agents, NEW entry \in Entry,
         TypeOK, Announce(agent, entry)
  PROVE  activity_log' \in [Agents -> Entry]
BY DEF TypeOK, Announce

(* What a slice keeps is part of the list.                                 *)
LEMMA FirstOfSubset ==
  ASSUME NEW n, NEW S, NEW T \in FirstOf(n, S)
  PROVE  T \subseteq S
BY DEF FirstOf

(* The claims under review are claims.                                     *)
LEMMA CollectedType ==
  ASSUME TypeOK
  PROVE  CollectedClaims \subseteq Claim
BY DEF TypeOK, CollectedClaims

(* Every field holds what ResearchState declares for it.                   *)
THEOREM TypeCorrect == Spec => []TypeOK
<1>1. Init => TypeOK
  <2> SUFFICES ASSUME Init PROVE TypeOK
    OBVIOUS
  <2>1. NoReview \in Review /\ NoReport \in Report
    BY DEF NoReview, NoReport, Review, Report
  <2>2. [a \in Agents |-> "absent"] \in [Agents -> Entry]
    BY DEF Entry
  <2> QED
    BY <2>1, <2>2 DEF Init, TypeOK, Nodes, Reviews
<1>2. TypeOK /\ [Next]_vars => TypeOK'
  <2> SUFFICES ASSUME TypeOK, [Next]_vars PROVE TypeOK'
    OBVIOUS
  <2> USE DEF research, review, loop, outcome, Goto, Halt
  <2>a. Agents = {"orchestrator", "analyst", "critic", "fact_checker",
                  "writer", "search", "scraper", "pipeline"}
    BY DEF Agents
  <2>b. /\ Nodes \cup {"end"} = {"orchestrate", "parallel_search",
             "parallel_scraping", "parallel_analysis", "critic_review",
             "increment_round", "fact_checking", "writer", "end"}
        /\ Entry = {"absent", "running", "completed", "failed", "skipped"}
    BY DEF Nodes, Entry
  <2>c. CollectedClaims \subseteq Claim
    BY CollectedType
  <2>1. CASE OrchestrateFails
    <3>1. activity_log' \in [Agents -> Entry]
      BY <2>1, <2>a, <2>b, AnnounceType DEF OrchestrateFails, TypeOK
    <3> QED
      BY <2>1, <2>b, <3>1 DEF OrchestrateFails, TypeOK
  <2>2. CASE Orchestrate
    <3>1. PICK asked \in SUBSET (Questions \cup {Blank}),
               targeted \in FirstOf(MaxTargeted, critic_output.flagged) :
            sub_questions' = asked \cup Targeted(targeted)
      BY <2>2 DEF Orchestrate
    <3>2. Targeted(targeted) \subseteq Questions
      <4>1. targeted \subseteq Flag
        BY FirstOfSubset DEF TypeOK, Review
      <4> QED
        BY <4>1 DEF Targeted, Flag
    <3>3. activity_log' \in [Agents -> Entry]
      BY <2>2, <2>a, <2>b, AnnounceType DEF Orchestrate
    <3> QED
      BY <2>2, <2>b, <3>1, <3>2, <3>3 DEF Orchestrate, TypeOK
  <2>3. CASE ParallelSearch
    <3>1. activity_log' \in [Agents -> Entry]
      BY <2>3, <2>a, <2>b, AnnounceType DEF ParallelSearch
    <3> QED
      BY <2>3, <2>b, <3>1 DEF ParallelSearch, SourcesAfter, TypeOK
  <2>4. CASE ParallelScraping
    <3>1. activity_log' \in [Agents -> Entry]
      BY <2>4, <2>a, <2>b, AnnounceType DEF ParallelScraping
    <3> QED
      BY <2>4, <2>b, <3>1 DEF ParallelScraping, TypeOK
  <2>5. CASE ParallelAnalysis
    <3>1. activity_log' \in [Agents -> Entry]
      BY <2>5, <2>a, <2>b, AnnounceType DEF ParallelAnalysis
    <3>2. analyst_outputs' \subseteq Claim
      BY <2>5 DEF ParallelAnalysis, TypeOK, Claim
    <3> QED
      BY <2>5, <2>b, <3>1, <3>2 DEF ParallelAnalysis, TypeOK
  <2>6. CASE CriticFindsNoClaims
    <3>1. activity_log' \in [Agents -> Entry]
      BY <2>6, <2>a, <2>b, AnnounceType DEF CriticFindsNoClaims
    <3> QED
      BY <2>6, <2>b, <3>1
      DEF CriticFindsNoClaims, TypeOK, NoReview, Review, Reviews
  <2>7. CASE CriticFailsOpen
    <3>1. activity_log' \in [Agents -> Entry]
      BY <2>7, <2>a, <2>b, AnnounceType DEF CriticFailsOpen, TypeOK
    <3>2. critic_output' \in Review
      BY <2>7, <2>c DEF CriticFailsOpen, NoReview, Review
    <3>3. reviewed' \in Reviews /\ converged' \in BOOLEAN
      BY <2>7 DEF CriticFailsOpen, Reviews
    <3>4. pc' \in Nodes \cup {"end"} /\ supersteps' \in Nat
      BY <2>7, <2>b DEF CriticFailsOpen, TypeOK
    <3> QED
      BY <2>7, <3>1, <3>2, <3>3, <3>4 DEF CriticFailsOpen, TypeOK
  <2>8. CASE CriticReview
    <3>1. PICK wants_more \in BOOLEAN, flagged \in SUBSET Flag :
            /\ critic_output' =
                 [flagged |-> flagged, approved |-> ApprovedUnder(flagged),
                  needs_more |-> (wants_more /\ RoundsLeft /\ flagged # {})]
            /\ converged' = Converged(wants_more)
            /\ reviewed' = IF wants_more THEN "wants_more" ELSE "satisfied"
            /\ ever_approved' = ever_approved
                 \cup IF wants_more /\ RoundsLeft /\ flagged # {}
                        THEN ApprovedUnder(flagged) ELSE {}
            /\ pc' = IF (wants_more /\ RoundsLeft /\ flagged # {}) /\ RoundsLeft
                       THEN "increment_round" ELSE "fact_checking"
            /\ supersteps' = supersteps + 1
      BY <2>8, Zenon DEF CriticReview
    <3>2. ApprovedUnder(flagged) \subseteq Claim
      BY <2>c DEF ApprovedUnder
    <3>3. critic_output' \in Review /\ ever_approved' \subseteq Claim
      BY <3>1, <3>2 DEF Review, TypeOK
    <3>4. converged' \in BOOLEAN /\ reviewed' \in Reviews
      BY <3>1 DEF Converged, Reviews
    <3>5. activity_log' \in [Agents -> Entry]
      BY <2>8, <2>a, <2>b, AnnounceType DEF CriticReview
    <3> QED
      BY <2>8, <2>b, <3>1, <3>3, <3>4, <3>5 DEF CriticReview, TypeOK
  <2>9. CASE CriticRaises
    BY <2>9, <2>b DEF CriticRaises, TypeOK
  <2>10. CASE IncrementRound
    <3>1. activity_log' \in [Agents -> Entry]
      BY <2>10, <2>a, <2>b, AnnounceType DEF IncrementRound
    <3>2. carried_claims' \subseteq Claim
      BY <2>10 DEF IncrementRound, ClaimsCarriedOn, TypeOK, Review
    <3> QED
      BY <2>10, <2>b, <3>1, <3>2 DEF IncrementRound, TypeOK
  <2>11. CASE SkipFactChecking
    <3>1. activity_log' \in [Agents -> Entry]
      BY <2>11, <2>a, <2>b, AnnounceType DEF SkipFactChecking
    <3> QED
      BY <2>11, <2>b, <3>1 DEF SkipFactChecking, TypeOK
  <2>12. CASE FactChecking
    <3>1. activity_log' \in [Agents -> Entry]
      BY <2>12, <2>a, <2>b, AnnounceType DEF FactChecking
    <3>2. fact_check_results' \subseteq Checked
      <4>1. TextsOf(critic_output.flagged) \subseteq Texts
        BY DEF TypeOK, Review, Flag, TextsOf
      <4> QED
        BY <2>12, <4>1 DEF FactChecking, Checked
    <3> QED
      BY <2>12, <2>b, <3>1, <3>2 DEF FactChecking, TypeOK
  <2>13. CASE WriterFails
    <3>1. activity_log' \in [Agents -> Entry]
      BY <2>13, <2>a, <2>b, AnnounceType DEF WriterFails
    <3> QED
      BY <2>13, <2>b, <3>1 DEF WriterFails, TypeOK
  <2>14. CASE Writer
    <3>1. activity_log' \in [Agents -> Entry]
      BY <2>14, <2>a, <2>b, AnnounceType DEF Writer
    <3>2. final_report' \in Report
      <4>1. PICK citations \in FirstOf(MaxCitations,
                                       all_sources \cup fact_sources),
                 structured \in BOOLEAN :
              final_report' =
                [claims |-> critic_output.approved,
                 verified |-> {r.text : r \in {x \in fact_check_results :
                                                 x.verdict = "verified"}},
                 citations |-> citations, converged |-> converged,
                 rounds |-> current_round + 1, structured |-> structured]
        BY <2>14 DEF Writer
      <4>2. citations \subseteq Urls
        BY FirstOfSubset DEF TypeOK
      <4>3. {r.text : r \in {x \in fact_check_results :
                               x.verdict = "verified"}} \subseteq Texts
        BY DEF TypeOK, Checked
      <4> QED
        BY <4>1, <4>2, <4>3 DEF Report, TypeOK, Review
    <3> QED
      BY <2>14, <2>b, <3>1, <3>2 DEF Writer, TypeOK
  <2>15. CASE UNCHANGED vars
    BY <2>15 DEF vars, control, TypeOK
  <2> QED
    BY <2>1, <2>2, <2>3, <2>4, <2>5, <2>6, <2>7, <2>8, <2>9, <2>10, <2>11,
       <2>12, <2>13, <2>14, <2>15 DEF Next
<1> QED
  BY <1>1, <1>2, PTL DEF Spec

-----------------------------------------------------------------------------
(* The loop *)

(* The values of Position.                                                 *)
LEMMA PositionOf ==
  /\ Position["orchestrate"] = 0       /\ Position["parallel_search"] = 1
  /\ Position["parallel_scraping"] = 2 /\ Position["parallel_analysis"] = 3
  /\ Position["critic_review"] = 4     /\ Position["increment_round"] = 5
  /\ Position["fact_checking"] = 5     /\ Position["writer"] = 6
BY DEF Position, Nodes

(* Each node run has its place in its round.                               *)
THEOREM LoopInvariant == Spec => []LoopInv
<1>1. Init => LoopInv
  BY PositionOf, MaxRoundsAssumption DEF Init, LoopInv
<1>2. TypeOK /\ LoopInv /\ [Next]_vars => LoopInv'
  <2> SUFFICES ASSUME TypeOK, LoopInv, [Next]_vars PROVE LoopInv'
    OBVIOUS
  <2> USE PositionOf, MaxRoundsAssumption
          DEF LoopInv, TypeOK, Goto, Halt, loop
  <2>1. CASE OrchestrateFails
    BY <2>1 DEF OrchestrateFails
  <2>2. CASE Orchestrate
    BY <2>2 DEF Orchestrate
  <2>3. CASE ParallelSearch
    BY <2>3 DEF ParallelSearch
  <2>4. CASE ParallelScraping
    BY <2>4 DEF ParallelScraping
  <2>5. CASE ParallelAnalysis
    BY <2>5 DEF ParallelAnalysis
  <2>6. CASE CriticFindsNoClaims
    BY <2>6 DEF CriticFindsNoClaims
  <2>7. CASE CriticFailsOpen
    BY <2>7 DEF CriticFailsOpen
  <2>8. CASE CriticReview
    <3>1. /\ \/ pc' = "increment_round" /\ RoundsLeft
             \/ pc' = "fact_checking"
          /\ supersteps' = supersteps + 1
          /\ current_round' = current_round
      BY <2>8, Zenon DEF CriticReview
    <3> QED
      BY <2>8, <3>1 DEF CriticReview, RoundsLeft
  <2>9. CASE CriticRaises
    BY <2>9 DEF CriticRaises
  <2>10. CASE IncrementRound
    BY <2>10 DEF IncrementRound
  <2>11. CASE SkipFactChecking
    BY <2>11 DEF SkipFactChecking
  <2>12. CASE FactChecking
    BY <2>12 DEF FactChecking
  <2>13. CASE WriterFails
    BY <2>13 DEF WriterFails
  <2>14. CASE Writer
    BY <2>14 DEF Writer
  <2>15. CASE UNCHANGED vars
    BY <2>15 DEF vars, control
  <2> QED
    BY <2>1, <2>2, <2>3, <2>4, <2>5, <2>6, <2>7, <2>8, <2>9, <2>10, <2>11, <2>12, <2>13, <2>14, <2>15 DEF Next
<1> QED
  BY <1>1, <1>2, TypeCorrect, PTL DEF Spec

(* The re-research loop runs at most MaxRounds rounds, and the graph a     *)
(* bounded number of nodes.                                                *)
THEOREM LoopStops == Spec => []LoopIsBounded
<1>1. TypeOK /\ LoopInv => LoopIsBounded
  <2> SUFFICES ASSUME TypeOK, LoopInv PROVE LoopIsBounded
    OBVIOUS
  <2>1. pc # "end" => Position[pc] \in 0..6
    BY PositionOf DEF TypeOK, Nodes
  <2> QED
    BY <2>1, MaxRoundsAssumption DEF LoopInv, LoopIsBounded, TypeOK
<1> QED
  BY <1>1, TypeCorrect, LoopInvariant, PTL

(* Every step runs a node of a job that has not ended and leaves fewer to  *)
(* run: a job runs out of steps, and an ended one takes none.              *)
THEOREM NodesRunOut == Spec => NodesRunDown
<1> DEFINE Left == NodesLeft \in Nat
           Down == ~Ended /\ NodesLeft \in Nat /\ NodesLeft' \in Nat
                   /\ NodesLeft' < NodesLeft
<1>1. TypeOK /\ LoopIsBounded => Left
  BY MaxRoundsAssumption DEF TypeOK, LoopIsBounded, NodesLeft
<1>2. TypeOK' /\ LoopIsBounded' => Left'
  <2> HIDE DEF Left
  <2> QED
    BY <1>1, PTL
<1>3. TypeOK /\ Next => pc # "end" /\ supersteps' = supersteps + 1
  <2> SUFFICES ASSUME TypeOK, Next
               PROVE  pc # "end" /\ supersteps' = supersteps + 1
    OBVIOUS
  <2> USE DEF Goto, Halt
  <2>1. CASE OrchestrateFails \/ Orchestrate
    BY <2>1 DEF OrchestrateFails, Orchestrate
  <2>2. CASE ParallelSearch \/ ParallelScraping \/ ParallelAnalysis
    BY <2>2 DEF ParallelSearch, ParallelScraping, ParallelAnalysis
  <2>3. CASE CriticFindsNoClaims \/ CriticFailsOpen \/ CriticRaises
    BY <2>3 DEF CriticFindsNoClaims, CriticFailsOpen, CriticRaises
  <2>4. CASE CriticReview
    BY <2>4, Zenon DEF CriticReview
  <2>5. CASE IncrementRound \/ SkipFactChecking \/ FactChecking
    BY <2>5 DEF IncrementRound, SkipFactChecking, FactChecking
  <2>6. CASE WriterFails \/ Writer
    BY <2>6 DEF WriterFails, Writer
  <2> QED
    BY <2>1, <2>2, <2>3, <2>4, <2>5, <2>6 DEF Next
<1>4. TypeOK /\ TypeOK' /\ LoopIsBounded /\ LoopIsBounded' /\ [Next]_vars
        => Down \/ UNCHANGED vars
  <2> SUFFICES ASSUME TypeOK, TypeOK', LoopIsBounded, LoopIsBounded', Next
               PROVE  Down
    OBVIOUS
  <2>1. NodesLeft \in Nat /\ NodesLeft' \in Nat
    BY <1>1, <1>2
  <2>2. supersteps \in Nat /\ supersteps' = supersteps + 1
    BY <1>3 DEF TypeOK
  <2>3. NodesLeft' < NodesLeft
    BY <2>2, MaxRoundsAssumption DEF NodesLeft
  <2> QED
    BY <1>3, <2>1, <2>3 DEF Ended
<1> QED
  BY <1>4, TypeCorrect, LoopStops, PTL DEF Spec, NodesRunDown

-----------------------------------------------------------------------------
(* Re-research *)

(* A slice that may keep an element of a list keeps one.                   *)
LEMMA FirstOfNonempty ==
  ASSUME NEW n \in Nat \ {0}, NEW S, S # {}, NEW T \in FirstOf(n, S)
  PROVE  T # {}
<1>1. CASE Cardinality(S) <= n
  BY <1>1 DEF FirstOf
<1>2. CASE ~(Cardinality(S) <= n)
  <2>1. Cardinality(T) = n
    BY <1>2 DEF FirstOf
  <2>2. Cardinality({}) = 0
    BY FS_EmptySet
  <2> QED
    BY <2>1, <2>2
<1> QED
  BY <1>1, <1>2

(* A round after the first has a flag before it, and asks for its query    *)
(* before anything is searched.                                            *)
THEOREM TargetInvariant == Spec => []TargetInv
<1>1. Init => TargetInv
  BY DEF Init, TargetInv
<1>2. TypeOK /\ TargetInv /\ [Next]_vars => TargetInv'
  <2> SUFFICES ASSUME TypeOK, TargetInv, [Next]_vars PROVE TargetInv'
    OBVIOUS
  <2> USE DEF Goto, Halt, loop, review
  <2>a. current_round \in Nat /\ critic_output \in Review
    BY DEF TypeOK
  <2>b. ASSUME pc' \notin {"increment_round", "orchestrate",
                           "parallel_search", "parallel_scraping"}
        PROVE  TargetInv'
    BY <2>b DEF TargetInv
  <2>1. CASE Orchestrate
    <3>1. PICK asked \in SUBSET (Questions \cup {Blank}),
               targeted \in FirstOf(MaxTargeted, critic_output.flagged) :
            sub_questions' = asked \cup Targeted(targeted)
      BY <2>1 DEF Orchestrate
    <3>2. /\ pc = "orchestrate" /\ pc' = "parallel_search"
          /\ critic_output' = critic_output /\ current_round' = current_round
      BY <2>1 DEF Orchestrate
    <3> SUFFICES ASSUME current_round > 0
                 PROVE  \E f \in critic_output.flagged : f.query \in sub_questions'
      BY <3>2 DEF TargetInv
    <3>3. critic_output.flagged # {}
      BY <3>2 DEF TargetInv
    <3>4. PICK f \in targeted : TRUE
      BY <3>3, LimitsAssumption, FirstOfNonempty
    <3>5. f \in critic_output.flagged
      BY FirstOfSubset
    <3>6. f.query \in Targeted(targeted)
      BY DEF Targeted
    <3> QED
      BY <3>1, <3>5, <3>6
  <2>2. CASE ParallelSearch
    <3>1. /\ pc = "parallel_search" /\ pc' = "parallel_scraping"
          /\ critic_output' = critic_output /\ current_round' = current_round
          /\ sub_questions' = sub_questions \ {Blank}
      BY <2>2 DEF ParallelSearch
    <3>2. \A f \in critic_output.flagged : f.query # Blank
      BY <2>a, BlankAssumption DEF Review, Flag
    <3> QED
      BY <3>1, <3>2 DEF TargetInv
  <2>3. CASE CriticReview
    <3>1. PICK wants_more \in BOOLEAN, flagged \in SUBSET Flag :
            LET needs_more == wants_more /\ RoundsLeft /\ flagged # {}
            IN  /\ critic_output' = [flagged    |-> flagged,
                                     approved   |-> ApprovedUnder(flagged),
                                     needs_more |-> needs_more]
                /\ Goto(IF needs_more /\ RoundsLeft THEN "increment_round"
                                                  ELSE "fact_checking")
      BY <2>3 DEF CriticReview
    <3>2. pc' = "increment_round" => critic_output'.flagged # {}
      BY <3>1
    <3>3. pc' \in {"increment_round", "fact_checking"}
      BY <3>1
    <3> QED
      BY <3>2, <3>3 DEF TargetInv
  <2>4. CASE IncrementRound
    <3>1. /\ pc = "increment_round" /\ pc' = "orchestrate"
          /\ critic_output' = critic_output
      BY <2>4 DEF IncrementRound
    <3> QED
      BY <3>1 DEF TargetInv
  <2>5. CASE \/ OrchestrateFails \/ ParallelScraping \/ ParallelAnalysis
             \/ CriticFindsNoClaims \/ CriticFailsOpen \/ CriticRaises
             \/ SkipFactChecking \/ FactChecking \/ WriterFails \/ Writer
    BY <2>5, <2>b
    DEF OrchestrateFails, ParallelScraping, ParallelAnalysis,
        CriticFindsNoClaims, CriticFailsOpen, CriticRaises,
        SkipFactChecking, FactChecking, WriterFails, Writer
  <2>6. CASE UNCHANGED vars
    BY <2>6 DEF vars, control, research, TargetInv
  <2> QED
    BY <2>1, <2>2, <2>3, <2>4, <2>5, <2>6 DEF Next
<1> QED
  BY <1>1, <1>2, TypeCorrect, PTL DEF Spec

(* No re-research round searches without asking again for something that   *)
(* the review before it flagged.                                           *)
THEOREM RoundsAreTargeted == Spec => []ReResearchIsTargeted
<1>1. TargetInv => ReResearchIsTargeted
  BY DEF TargetInv, ReResearchIsTargeted
<1> QED
  BY <1>1, TargetInvariant, PTL

-----------------------------------------------------------------------------
(* Sources *)

(* What a review hands on comes from the claims under review.              *)
LEMMA ReviewedFromCollected ==
  ASSUME CriticFindsNoClaims \/ CriticFailsOpen \/ CriticReview,
         NEW c \in critic_output'.approved
  PROVE  c \in CollectedClaims
<1>1. CASE CriticFindsNoClaims
  BY <1>1 DEF CriticFindsNoClaims, NoReview
<1>2. CASE CriticFailsOpen
  BY <1>2 DEF CriticFailsOpen, NoReview
<1>3. CASE CriticReview
  <2>1. PICK flagged : critic_output'.approved = ApprovedUnder(flagged)
    BY <1>3 DEF CriticReview
  <2> QED
    BY <2>1 DEF ApprovedUnder
<1> QED
  BY <1>1, <1>2, <1>3

(* Every claim the pipeline holds cites a page it found, or none.          *)
THEOREM SourceInvariant == Spec => []SourceInv
<1>1. Init => SourceInv
  BY DEF Init, SourceInv, NoReview
<1>2. TypeOK /\ SourceInv /\ [Next]_vars => SourceInv'
  <2> SUFFICES ASSUME TypeOK, SourceInv, [Next]_vars PROVE SourceInv'
    OBVIOUS
  <2> USE DEF SourceInv, research, review, loop
  <2>1. CASE OrchestrateFails
    BY <2>1 DEF OrchestrateFails
  <2>2. CASE Orchestrate
    BY <2>2 DEF Orchestrate
  <2>3. CASE ParallelSearch
    BY <2>3 DEF ParallelSearch, SourcesAfter
  <2>4. CASE ParallelScraping
    BY <2>4 DEF ParallelScraping
  <2>5. CASE ParallelAnalysis
    BY <2>5 DEF ParallelAnalysis
  <2>6. CASE CriticFindsNoClaims
    <3>1. \A c \in critic_output'.approved : c \in CollectedClaims
      BY <2>6, ReviewedFromCollected
    <3> QED
      BY <2>6, <3>1 DEF CriticFindsNoClaims, CollectedClaims
  <2>7. CASE CriticFailsOpen
    <3>1. \A c \in critic_output'.approved : c \in CollectedClaims
      BY <2>7, ReviewedFromCollected
    <3> QED
      BY <2>7, <3>1 DEF CriticFailsOpen, CollectedClaims
  <2>8. CASE CriticReview
    <3>1. \A c \in critic_output'.approved : c \in CollectedClaims
      BY <2>8, ReviewedFromCollected
    <3> QED
      BY <2>8, <3>1 DEF CriticReview, CollectedClaims
  <2>9. CASE CriticRaises
    BY <2>9 DEF CriticRaises
  <2>10. CASE IncrementRound
    BY <2>10 DEF IncrementRound, ClaimsCarriedOn
  <2>11. CASE SkipFactChecking
    BY <2>11 DEF SkipFactChecking
  <2>12. CASE FactChecking
    BY <2>12 DEF FactChecking
  <2>13. CASE WriterFails
    BY <2>13 DEF WriterFails
  <2>14. CASE Writer
    BY <2>14 DEF Writer
  <2>15. CASE UNCHANGED vars
    BY <2>15 DEF vars
  <2> QED
    BY <2>1, <2>2, <2>3, <2>4, <2>5, <2>6, <2>7, <2>8, <2>9, <2>10, <2>11, <2>12, <2>13, <2>14, <2>15 DEF Next
<1> QED
  BY <1>1, <1>2, TypeCorrect, PTL DEF Spec

-----------------------------------------------------------------------------
(* Reviews *)

(* The claims under review say each thing once, and include what is        *)
(* carried.                                                                *)
LEMMA CollectedOnePerText ==
  ASSUME OnePerText(carried_claims), OnePerText(analyst_outputs)
  PROVE  OnePerText(CollectedClaims) /\ carried_claims \subseteq CollectedClaims
BY DEF OnePerText, CollectedClaims, TextsOf

(* A claim approved once is carried, or before the Writer, or flagged.     *)
THEOREM ReviewInvariant == Spec => [](ReviewInv /\ ReportInv)
<1> DEFINE Inv == ReviewInv /\ ReportInv
<1>1. Init => Inv
  BY DEF Init, ReviewInv, ReportInv, NoReview, NoReport, Reported, OnePerText,
         TextsOf, BeforeReview
<1>2. TypeOK /\ Inv /\ [Next]_vars => Inv'
  <2> SUFFICES ASSUME TypeOK, ReviewInv, ReportInv, [Next]_vars
               PROVE  ReviewInv' /\ ReportInv'
    OBVIOUS
  <2> USE DEF research, review, loop, outcome, Goto, Halt, Reported,
          BeforeReview
  <2>a. OnePerText(CollectedClaims) /\ carried_claims \subseteq CollectedClaims
    BY CollectedOnePerText DEF ReviewInv
  <2>b. ASSUME UNCHANGED <<reviewed, critic_output, current_round>>
        PROVE  NothingToSearch' <=> NothingToSearch
    BY <2>b DEF NothingToSearch, RoundsLeft
  <2>1. CASE OrchestrateFails
    BY <2>1 DEF OrchestrateFails, ReviewInv, ReportInv, NoReport
  <2>2. CASE Orchestrate
    BY <2>2 DEF Orchestrate, ReviewInv, ReportInv
  <2>3. CASE ParallelSearch
    BY <2>3 DEF ParallelSearch, ReviewInv, ReportInv
  <2>4. CASE ParallelScraping
    BY <2>4 DEF ParallelScraping, ReviewInv, ReportInv
  <2>5. CASE ParallelAnalysis
    BY <2>5 DEF ParallelAnalysis, ReviewInv, ReportInv
  <2>6. CASE CriticFindsNoClaims
    <3>1. carried_claims = {} /\ ever_approved = {}
      BY <2>6, <2>a DEF CriticFindsNoClaims, ReviewInv
    <3> QED
      BY <2>6, <3>1
      DEF CriticFindsNoClaims, ReviewInv, ReportInv, NoReview, TextsOf, OnePerText
  <2>7. CASE CriticFailsOpen
    <3>1. /\ critic_output'.approved = CollectedClaims
          /\ critic_output'.flagged = {}
      BY <2>7 DEF CriticFailsOpen, NoReview
    <3>2. carried_claims \cup critic_output'.approved = CollectedClaims
      BY <2>a, <3>1
    <3>3. ReviewInv'
      BY <2>7, <2>a, <3>1, <3>2
      DEF CriticFailsOpen, ReviewInv, TextsOf
    <3>4. ReportInv'
      BY <2>7, <3>1 DEF CriticFailsOpen, ReportInv, NothingToSearch, TextsOf
    <3> QED
      BY <3>3, <3>4
  <2>8. CASE CriticReview
    <3>1. PICK wants_more \in BOOLEAN, flagged \in SUBSET Flag :
            /\ critic_output' =
                 [flagged |-> flagged, approved |-> ApprovedUnder(flagged),
                  needs_more |-> (wants_more /\ RoundsLeft /\ flagged # {})]
            /\ converged' = Converged(wants_more)
            /\ reviewed' = IF wants_more THEN "wants_more" ELSE "satisfied"
            /\ ever_approved' = ever_approved
                 \cup IF wants_more /\ RoundsLeft /\ flagged # {}
                        THEN ApprovedUnder(flagged) ELSE {}
            /\ pc' = IF (wants_more /\ RoundsLeft /\ flagged # {}) /\ RoundsLeft
                       THEN "increment_round" ELSE "fact_checking"
      BY <2>8, Zenon DEF CriticReview
    <3>2. /\ critic_output'.approved = ApprovedUnder(flagged)
          /\ critic_output'.flagged = flagged
      BY <3>1
    <3>3. /\ ApprovedUnder(flagged) \subseteq CollectedClaims
          /\ \A c \in CollectedClaims :
               c \in ApprovedUnder(flagged) \/ c.text \in TextsOf(flagged)
          /\ \A c \in ApprovedUnder(flagged) : c.text \notin TextsOf(flagged)
      BY DEF ApprovedUnder
    <3>4. ever_approved \subseteq carried_claims
      BY <2>8 DEF CriticReview, ReviewInv
    <3>5. OnePerText(carried_claims \cup ApprovedUnder(flagged))
      BY <2>a, <3>3 DEF OnePerText
    <3>6. ReviewInv'
      <4>1. TextsOf(critic_output'.approved) \cap TextsOf(critic_output'.flagged)
              = {}
        BY <3>2, <3>3 DEF TextsOf
      <4>2. /\ ever_approved' \subseteq carried_claims \cup ApprovedUnder(flagged)
            /\ \A c \in ever_approved' :
                 c \in ApprovedUnder(flagged) \/ c.text \in TextsOf(flagged)
        BY <2>a, <3>1, <3>3, <3>4
      <4> QED
        BY <2>8, <3>1, <3>2, <3>5, <4>1, <4>2 DEF CriticReview, ReviewInv
    <3>7. ReportInv'
      <4>1. pc' = "fact_checking" =>
              (converged' <=> reviewed' = "satisfied" \/ NothingToSearch')
        <5>1. RoundsLeft' <=> RoundsLeft
          BY <2>8 DEF CriticReview, RoundsLeft
        <5>2. CASE wants_more
          <6>1. reviewed' = "wants_more" /\ (converged' <=> RoundsLeft)
            BY <3>1, <5>2, Zenon DEF Converged
          <6>2. pc' = "fact_checking" => ~RoundsLeft \/ flagged = {}
            BY <3>1, <5>2
          <6> QED
            BY <3>2, <5>1, <6>1, <6>2 DEF NothingToSearch
        <5>3. CASE ~wants_more
          BY <3>1, <5>3, Zenon DEF Converged
        <5> QED
          BY <5>2, <5>3
      <4> QED
        BY <2>8, <3>1, <4>1 DEF CriticReview, ReportInv, TextsOf
    <3> QED
      BY <3>6, <3>7
  <2>9. CASE CriticRaises
    BY <2>9 DEF CriticRaises, ReviewInv, ReportInv, NoReport
  <2>10. CASE IncrementRound
    <3>1. carried_claims' = carried_claims \cup critic_output.approved
      BY <2>10 DEF IncrementRound, ReviewInv, ClaimsCarriedOn, OnePerText,
                   TextsOf
    <3>2. ReviewInv'
      BY <2>10, <3>1 DEF IncrementRound, ReviewInv, OnePerText
    <3>3. ReportInv'
      BY <2>10 DEF IncrementRound, ReportInv
    <3> QED
      BY <3>2, <3>3
  <2>11. CASE SkipFactChecking
    BY <2>11, <2>b DEF SkipFactChecking, ReviewInv, ReportInv
  <2>12. CASE FactChecking
    <3>1. TextsOf(fact_check_results') \subseteq TextsOf(critic_output.flagged)
      BY <2>12 DEF FactChecking, TextsOf
    <3> QED
      BY <2>12, <2>b, <3>1 DEF FactChecking, ReviewInv, ReportInv
  <2>13. CASE WriterFails
    BY <2>13 DEF WriterFails, ReviewInv, ReportInv, NoReport
  <2>14. CASE Writer
    <3>1. PICK citations \in FirstOf(MaxCitations, all_sources \cup fact_sources),
               structured \in BOOLEAN :
            final_report' =
              [claims |-> critic_output.approved,
               verified |-> {r.text : r \in {x \in fact_check_results :
                                               x.verdict = "verified"}},
               citations |-> citations, converged |-> converged,
               rounds |-> current_round + 1, structured |-> structured]
      BY <2>14 DEF Writer
    <3>2. /\ final_report'.claims = critic_output.approved
          /\ final_report'.converged = converged
          /\ final_report'.citations = citations
          /\ final_report'.rounds = current_round + 1
      BY <3>1
    <3>3. final_report' # NoReport
      BY <3>2 DEF NoReport, TypeOK
    <3>4. ReviewInv'
      BY <2>14 DEF Writer, ReviewInv
    <3>5. ReportInv'
      <4>1. /\ pc = "writer" /\ pc' = "end" /\ fatal_error' = "none"
            /\ UNCHANGED <<critic_output, converged, reviewed, current_round,
                           all_sources, fact_check_results, fact_sources>>
        BY <2>14 DEF Writer, ReportInv
      <4>2. NothingToSearch' <=> NothingToSearch
        BY <2>b, <4>1
      <4>3. final_report'.citations
              \in FirstOf(MaxCitations, all_sources \cup fact_sources)
        BY <3>1, <3>2
      <4> QED
        BY <3>2, <3>3, <4>1, <4>2, <4>3 DEF ReportInv
    <3> QED
      BY <3>4, <3>5
  <2>15. CASE UNCHANGED vars
    BY <2>15, <2>b DEF vars, control, ReviewInv, ReportInv
  <2> QED
    BY <2>1, <2>2, <2>3, <2>4, <2>5, <2>6, <2>7, <2>8, <2>9, <2>10, <2>11, <2>12, <2>13, <2>14, <2>15 DEF Next
<1> QED
  BY <1>1, <1>2, TypeCorrect, PTL DEF Spec

-----------------------------------------------------------------------------
(* What a job ends with *)

(* A job ends with a report or a fatal error, never with both or neither.  *)
THEOREM JobOutcome == Spec => []EndsWithReportOrError
<1>1. TypeOK /\ SourceInv /\ ReviewInv /\ ReportInv => EndsWithReportOrError
  BY DEF ReportInv, EndsWithReportOrError, Ended
<1> QED
  BY <1>1, TypeCorrect, SourceInvariant, ReviewInvariant, PTL

(* An agent that failed the run is FAILED in the feed, for good.           *)
THEOREM FailureStaysAttributed == Spec => []FailureIsAttributed
<1>1. Init => FailureIsAttributed
  BY DEF Init, FailureIsAttributed
<1>2. TypeOK /\ ReportInv /\ FailureIsAttributed /\ [Next]_vars
        => FailureIsAttributed'
  <2> SUFFICES ASSUME TypeOK, ReportInv, FailureIsAttributed, [Next]_vars
               PROVE  FailureIsAttributed'
    OBVIOUS
  <2> USE DEF FailureIsAttributed
  <2>a. ASSUME pc # "end", fatal_error' = fatal_error
        PROVE  FailureIsAttributed'
    BY <2>a DEF ReportInv
  <2>b. ASSUME NEW agent \in Agents, Announce(agent, "failed"),
               fatal_error' = agent
        PROVE  FailureIsAttributed'
    BY <2>b DEF Announce, TypeOK
  <2>1. CASE OrchestrateFails
    BY <2>1, <2>b DEF OrchestrateFails, Halt, Agents
  <2>2. CASE CriticRaises
    BY <2>2 DEF CriticRaises, Halt
  <2>3. CASE WriterFails
    BY <2>3, <2>b DEF WriterFails, Halt, Agents
  <2>4. CASE Orchestrate \/ ParallelSearch \/ ParallelScraping \/ ParallelAnalysis
    BY <2>4, <2>a DEF Orchestrate, ParallelSearch, ParallelScraping, ParallelAnalysis
  <2>5. CASE CriticFindsNoClaims \/ CriticFailsOpen \/ CriticReview
    BY <2>5, <2>a DEF CriticFindsNoClaims, CriticFailsOpen, CriticReview
  <2>6. CASE IncrementRound \/ SkipFactChecking \/ FactChecking \/ Writer
    BY <2>6, <2>a DEF IncrementRound, SkipFactChecking, FactChecking, Writer
  <2>7. CASE UNCHANGED vars
    BY <2>7 DEF vars, control
  <2> QED
    BY <2>1, <2>2, <2>3, <2>4, <2>5, <2>6, <2>7 DEF Next
<1> QED
  BY <1>1, <1>2, TypeCorrect, ReviewInvariant, PTL DEF Spec

(* No claim approved in an earlier round is dropped but by a later flag,   *)
(* and the Writer gets one claim per text.                                 *)
THEOREM ApprovedClaimsReachTheWriter == Spec => []ApprovedClaimsSurvive
<1>1. TypeOK /\ SourceInv /\ ReviewInv /\ ReportInv => ApprovedClaimsSurvive
  BY DEF ReviewInv, ReportInv, ApprovedClaimsSurvive, OnePerText
<1> QED
  BY <1>1, TypeCorrect, SourceInvariant, ReviewInvariant, PTL

(* Unless the list is cut, each claim's page is among the citations.       *)
THEOREM ClaimsKeepTheirCitation == Spec => []ClaimsAreCited
<1>1. TypeOK /\ SourceInv /\ ReviewInv /\ ReportInv => ClaimsAreCited
  BY DEF SourceInv, ReportInv, ClaimsAreCited, FirstOf
<1> QED
  BY <1>1, TypeCorrect, SourceInvariant, ReviewInvariant, PTL

(* No claim the Fact-Checker did not verify is among the approved ones.    *)
THEOREM RefutedClaimsStayOut == Spec => []NoRefutedClaimApproved
<1>1. TypeOK /\ SourceInv /\ ReviewInv /\ ReportInv => NoRefutedClaimApproved
  BY DEF ReviewInv, ReportInv, NoRefutedClaimApproved, TextsOf
<1> QED
  BY <1>1, TypeCorrect, SourceInvariant, ReviewInvariant, PTL

(* What a report says of its convergence is what the last review found, of *)
(* this round and not an earlier one, unless that round had no claims.     *)
THEOREM ConvergenceIsHonest == Spec => []ConvergedWasReviewed
<1>1. TypeOK /\ SourceInv /\ ReviewInv /\ ReportInv => ConvergedWasReviewed
  BY DEF ReportInv, ConvergedWasReviewed
<1> QED
  BY <1>1, TypeCorrect, SourceInvariant, ReviewInvariant, PTL

-----------------------------------------------------------------------------
(* The promise *)

(* The pipeline implements ResearchPromise.                                *)
THEOREM PipelineKeepsPromise == Spec => KeepsPromise
<1> DEFINE IInv == TypeOK /\ LoopInv /\ SourceInv /\ ReviewInv /\ ReportInv
           promised == <<Phase, current_round, all_sources, carried_claims,
                         final_report.claims>>
<1>1. Init => Promise!Init
  BY DEF Init, Promise!Init, Phase, Ended, NoReport
<1>2. IInv /\ IInv' /\ [Next]_vars => [Promise!Next]_promised
  <2> SUFFICES ASSUME IInv, IInv', [Next]_vars
               PROVE  Promise!Next \/ UNCHANGED promised
    BY DEF Promise!promise
  <2> USE DEF research, review, loop, outcome, Goto, Halt
  <2>a. ASSUME pc # "end", pc' # "end", UNCHANGED final_report
        PROVE  UNCHANGED <<Phase, final_report.claims>> /\ Phase = "researching"
    BY <2>a DEF Phase, Ended
  <2>b. ASSUME pc # "end", pc' = "end", fatal_error' # "none",
               UNCHANGED <<current_round, all_sources, carried_claims,
                           final_report>>
        PROVE  Promise!Next
    BY <2>b DEF Promise!Fail, Promise!Next, Phase, Ended
  <2>1. CASE OrchestrateFails
    BY <2>1, <2>b DEF OrchestrateFails
  <2>2. CASE Orchestrate
    BY <2>2, <2>a DEF Orchestrate
  <2>3. CASE ParallelSearch
    <3>1. Promise!Search
      BY <2>3, <2>a DEF ParallelSearch, Promise!Search, SourcesAfter
    <3> QED
      BY <3>1 DEF Promise!Next
  <2>4. CASE ParallelScraping
    BY <2>4, <2>a DEF ParallelScraping
  <2>5. CASE ParallelAnalysis
    BY <2>5, <2>a DEF ParallelAnalysis
  <2>6. CASE CriticFindsNoClaims
    BY <2>6, <2>a DEF CriticFindsNoClaims
  <2>7. CASE CriticFailsOpen
    BY <2>7, <2>a DEF CriticFailsOpen
  <2>8. CASE CriticReview
    <3>1. pc' \in {"increment_round", "fact_checking"}
      BY <2>8 DEF CriticReview
    <3> QED
      BY <2>8, <2>a, <3>1 DEF CriticReview
  <2>9. CASE CriticRaises
    BY <2>9, <2>b DEF CriticRaises
  <2>10. CASE IncrementRound
    <3>1. /\ carried_claims' = carried_claims \cup critic_output.approved
          /\ critic_output.approved \subseteq Claim
      BY <2>10 DEF IncrementRound, ReviewInv, ClaimsCarriedOn, OnePerText,
                   TextsOf, TypeOK, Review
    <3>2. Promise!Vouched(carried_claims')
      BY <2>10, <3>1
      DEF IncrementRound, SourceInv, ReviewInv, OnePerText, Promise!Vouched
    <3>3. current_round + 1 < MaxRounds
      BY <2>10, MaxRoundsAssumption DEF IncrementRound, LoopInv, TypeOK
    <3>4. Promise!GoRoundAgain
      BY <2>10, <2>a, <3>1, <3>2, <3>3
      DEF IncrementRound, Promise!GoRoundAgain, Promise!Claims, Claim
    <3> QED
      BY <3>4 DEF Promise!Next
  <2>11. CASE SkipFactChecking
    BY <2>11, <2>a DEF SkipFactChecking
  <2>12. CASE FactChecking
    BY <2>12, <2>a DEF FactChecking
  <2>13. CASE WriterFails
    BY <2>13, <2>b DEF WriterFails
  <2>14. CASE Writer
    <3>1. pc # "end" /\ pc' = "end" /\ fatal_error = "none"
          /\ UNCHANGED <<fatal_error, current_round, all_sources, carried_claims>>
      BY <2>14 DEF Writer, ReportInv
    <3>2. /\ Reported'
          /\ final_report'.claims = critic_output'.approved
      BY <3>1 DEF ReportInv
    <3>3. final_report'.claims \subseteq Claim
      BY <3>2 DEF TypeOK, Review
    <3>4. Promise!Vouched(final_report'.claims)
      BY <2>14, <3>2
      DEF Writer, SourceInv, ReviewInv, OnePerText, Promise!Vouched
    <3>5. Promise!Deliver
      BY <3>1, <3>3, <3>4
      DEF Promise!Deliver, Promise!Claims, Claim, Phase, Ended
    <3> QED
      BY <3>5 DEF Promise!Next
  <2>15. CASE UNCHANGED vars
    BY <2>15 DEF vars, control, Phase, Ended
  <2> QED
    BY <2>1, <2>2, <2>3, <2>4, <2>5, <2>6, <2>7, <2>8, <2>9, <2>10, <2>11, <2>12, <2>13, <2>14, <2>15 DEF Next, Promise!Next
<1> QED
  BY <1>1, <1>2, TypeCorrect, LoopInvariant, SourceInvariant, ReviewInvariant,
     PTL DEF Spec, KeepsPromise, Promise!Spec, Promise!promise
=============================================================================
