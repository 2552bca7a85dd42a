------------------------------- MODULE MCBotApps -------------------------------
(* Small instances of BotApps for TLC. *)
EXTENDS BotApps, TLC

\* Apps are interchangeable, and so are IDs.
Symmetry == Permutations(Apps) \cup Permutations(Ids)
=============================================================================
