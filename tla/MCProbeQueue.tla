----------------------------- MODULE MCProbeQueue -----------------------------
(* A small instance of ProbeQueue and Stats: three crates whose two queue orders disagree. *)
EXTENDS Stats, TLC

CONSTANTS p1, p2, p3, w1, w2

MCProbes  == {p1, p2, p3}
MCWorkers == {w1, w2}
MCPopRank == (p1 :> 1) @@ (p2 :> 2) @@ (p3 :> 3)
MCRandKey == (p1 :> 2) @@ (p2 :> 3) @@ (p3 :> 1)
MCReported == {"pass", "harness_error"}

\* Worker names are interchangeable; the crates are not, their ranks differ.
WorkerSymmetry == Permutations(MCWorkers)
=============================================================================
