----------------------------- MODULE MCDeckService -----------------------------
(* Small instances of DeckService for TLC.                                     *)
EXTENDS DeckService

CONSTANTS c1, c2

\* Two clients with data of their own; they are interchangeable.
MCClients == {c1, c2}
MCData    == [c \in MCClients |-> c]
Symmetry  == Permutations(MCClients)
=============================================================================
