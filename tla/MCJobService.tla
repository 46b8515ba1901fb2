----------------------------- MODULE MCJobService -----------------------------
(* Instances of JobService for TLC.                                        *)
EXTENDS JobService, TLC

\* Requests are interchangeable.
Symmetry == Permutations(Jobs)
=============================================================================
