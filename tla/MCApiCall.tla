------------------------------- MODULE MCApiCall -------------------------------
(* Small instances of ApiCall for TLC; without symmetry, which liveness forbids. *)
EXTENDS ApiCall
=============================================================================
