------------------------------ MODULE MCDashboard ------------------------------
(* Dashboard with one page. *)
EXTENDS Dashboard

CONSTANTS a

MCPages == {a}
=============================================================================
