-------------------------- MODULE MCResearchPipeline --------------------------
(* Instances of ResearchPipeline for TLC.                                  *)
EXTENDS ResearchPipeline, TLC

\* Texts are interchangeable, and so are pages.
Symmetry == Permutations(Texts) \cup Permutations(Urls)
=============================================================================
