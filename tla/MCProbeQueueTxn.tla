---------------------------- MODULE MCProbeQueueTxn ----------------------------
(* A small instance of ProbeQueueTxn: two crates, two workers, two connections. *)
EXTENDS ProbeQueueTxn, TLC

CONSTANTS p1, p2, w1, w2, s1, s2

MCProbes   == {p1, p2}
MCWorkers  == {w1, w2}
MCSessions == {s1, s2}
MCPopRank  == (p1 :> 1) @@ (p2 :> 2)
MCRandKey  == (p1 :> 2) @@ (p2 :> 1)
MCReported == {"pass", "harness_error"}

\* Workers and connections are interchangeable.
MCSymmetry == Permutations(MCWorkers) \cup Permutations(MCSessions)
=============================================================================
