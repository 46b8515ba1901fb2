----------------------------- MODULE MCLlmClient -----------------------------
(* Instances of LlmClient for TLC.                                         *)
EXTENDS LlmClient, TLC

\* Jobs are interchangeable.
Symmetry == Permutations(Jobs)
=============================================================================
