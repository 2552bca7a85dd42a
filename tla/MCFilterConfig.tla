----------------------------- MODULE MCFilterConfig -----------------------------
(* Small instances of FilterConfig for TLC.                                    *)
EXTENDS FilterConfig

CONSTANT g1

MCStarts   == {[mode |-> "default", ids |-> {}, own |-> {}],
               [mode |-> "whitelist", ids |-> {g1}, own |-> {}]}
MCDefaults == {[mode |-> "on", ids |-> {}], [mode |-> "blacklist", ids |-> {g1}],
               [mode |-> "typo", ids |-> {}]}

\* Without the mode that is refused, and without IDs of the app's own.
MCFollow == {[mode |-> "default", ids |-> {}, own |-> {}]}
MCValid  == {[mode |-> "on", ids |-> {}], [mode |-> "off", ids |-> {}]}
=============================================================================
