---------------------------- MODULE MCEvalRunner -----------------------------
(* Instances of EvalRunner for TLC.                                        *)
EXTENDS EvalRunner, TLC

\* Processes are interchangeable.
Symmetry == Permutations(Pids)

\* Every prompt costs at most two units.
MCWorstOf == [S \in SUBSET Prompts |-> 2 * Cardinality(S)]
MCCreditsOf == [q \in Queries |-> 1]

\* One question under pipeline_r2 and pipeline_r1, which share the first
\* prompt of the pipeline; the second also makes a search.
CONSTANTS q1, r1, r2, w1
MCDesign == <<"d", "c">>
MCCallsOf == [d |-> {r1, r2}, c |-> {q1, r1, w1}]
MCPlannedOf == [d |-> {r1, r2}, c |-> {q1, w1}]
=============================================================================
