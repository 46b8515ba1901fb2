---------------------------- MODULE MCCeleryWorker ----------------------------
(* Instances of CeleryWorker for TLC.                                      *)
EXTENDS CeleryWorker, TLC

\* The slots of a worker are interchangeable.
Symmetry == Permutations(Slots)
=============================================================================
