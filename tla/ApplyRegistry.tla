---------------------------- MODULE ApplyRegistry ----------------------------
(***************************************************************************)
(* What applications.json promises to its users: one document, on which    *)
(* every accepted request takes effect at once, on the document as it is   *)
(* at that moment.  Module ApplyStore shows how two programs with private  *)
(* copies and a lock file keep this promise.                               *)
(***************************************************************************)
EXTENDS ApplyDocument

VARIABLE doc

Init == doc \in FreshDocuments

Perform(r) == Allowed(doc, r) /\ doc' = Effect(doc, r)

Next == \E r \in Request : Perform(r)

Spec == Init /\ [][Next]_doc
=============================================================================
