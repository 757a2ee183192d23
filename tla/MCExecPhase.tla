----------------------------- MODULE MCExecPhase -----------------------------
(* Small instances of ExecPhase: two crates, so that evidence can be mixed up. *)
EXTENDS ExecPhase

CONSTANTS c1, c2, w1

MCCrates == {c1, c2}
=============================================================================
