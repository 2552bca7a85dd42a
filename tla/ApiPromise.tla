------------------------------ MODULE ApiPromise ------------------------------
(***************************************************************************)
(* What CallAPI promises: a call begins once, and ends once, with the      *)
(* client's answer to this very call or with an error.  An error says      *)
(* nothing about what the client did or will do with the request.          *)
(***************************************************************************)
CONSTANTS Calls, None

VARIABLES outcome,   \* outcome[c]: "new", "open", "answer" or "error"
          answer,    \* answer[c]: the call whose answer c was given, or None
          performed  \* calls the client has performed

Init == /\ outcome = [c \in Calls |-> "new"]
        /\ answer = [c \in Calls |-> None]
        /\ performed = {}

Begin(c) == /\ outcome[c] = "new"
            /\ outcome' = [outcome EXCEPT ![c] = "open"]
            /\ UNCHANGED << answer, performed >>

Perform(c) == /\ outcome[c] # "new"
              /\ performed' = performed \cup {c}
              /\ UNCHANGED << outcome, answer >>

Answer(c) == /\ outcome[c] = "open"
             /\ c \in performed
             /\ outcome' = [outcome EXCEPT ![c] = "answer"]
             /\ answer' = [answer EXCEPT ![c] = c]
             /\ UNCHANGED performed

Fail(c) == /\ outcome[c] \in {"new", "open"}
           /\ outcome' = [outcome EXCEPT ![c] = "error"]
           /\ UNCHANGED << answer, performed >>

Next == \E c \in Calls : Begin(c) \/ Perform(c) \/ Answer(c) \/ Fail(c)

Spec == Init /\ [][Next]_<< outcome, answer, performed >>
=============================================================================
