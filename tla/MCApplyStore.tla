----------------------------- MODULE MCApplyStore -----------------------------
(* Small instances of ApplyStore for TLC. *)
EXTENDS ApplyStore, TLC

\* Ids and the threads of one program are interchangeable.
Symmetry == Permutations(AppIds) \cup Permutations(PyThreads) \cup Permutations(GoThreads)
=============================================================================
