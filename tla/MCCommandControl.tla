---------------------------- MODULE MCCommandControl ---------------------------
(* Small instances of CommandControl for TLC.                                  *)
EXTENDS CommandControl

CONSTANTS e1, e2, e3, e4, u1, u2, x, y

\* Two users; the first two commands ask for each other's IDs.
MCUser  == [e \in {e1, e2, e3, e4} |-> IF e \in {e1, e3} THEN u1 ELSE u2]
MCNeeds == [e \in {e1, e2, e3, e4} |-> CASE e = e1 -> << x, y >>
                                         [] e = e2 -> << y, x >>
                                         [] OTHER  -> << x >>]
=============================================================================
