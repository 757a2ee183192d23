---------------------------- MODULE MCOrchestrator ----------------------------
(* Small instances of Orchestrator: two crates, two workers. *)
EXTENDS Orchestrator, TLC

CONSTANTS p1, p2, w1, w2

MCProbes     == {p1, p2}
MCProbes1    == {p1}
MCWorkers    == {w1, w2}
MCPopRank    == [p \in Probes |-> IF p = p1 THEN 1 ELSE 2]
MCRandKey    == [p \in Probes |-> IF p = p1 THEN 2 ELSE 1]
MCReported   == {"excluded_resolve", "excluded_resource", "harness_error"}
MCQueueCycle == <<"popular", "random">>

WorkerSymmetry == Permutations(MCWorkers)
=============================================================================
