--------------------------- MODULE MCUpstreamSession ---------------------------
(* Small instances of UpstreamSession for TLC.  The runs check liveness or      *)
(* have distinct roles for the handlers, so none uses symmetry.                 *)
EXTENDS UpstreamSession
=============================================================================
