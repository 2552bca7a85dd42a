---------------------------- MODULE MCUploadBackend ----------------------------
(* Small instances of UploadBackend for TLC.                                   *)
EXTENDS UploadBackend, TLC

CONSTANTS u1, u2, k1, k2

\* Captures with a row each.
MCRows == [u \in {u1, u2} |-> IF u = u1 THEN {k1} ELSE {k2}]
\* The threads are interchangeable.
Symmetry == Permutations(Handlers)
=============================================================================
