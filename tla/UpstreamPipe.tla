----------------------------- MODULE UpstreamPipe -----------------------------
(***************************************************************************)
(* What the gateway promises about the frames of the OneBot client: those  *)
(* of a connection are processed in the order in which they were sent,     *)
(* none skipped and none twice, up to the point where the connection is    *)
(* given up.  Module UpstreamSession shows how the goroutines of a session *)
(* keep the promise, and when they do not.                                 *)
(***************************************************************************)
EXTENDS Integers, Sequences

CONSTANT Handlers  \* the connections, named by the handler that accepted them

VARIABLE log       \* log[c]: the places in the stream of c of the frames processed

Init == log = [c \in Handlers |-> << >>]

Process(c) == log' = [log EXCEPT ![c] = Append(@, Len(@) + 1)]

Next == \E c \in Handlers : Process(c)

Spec == Init /\ [][Next]_log
=============================================================================
