---------------------------- MODULE CommandControl -----------------------------
(***************************************************************************)
(* How lunabot admits and ends a command (plugins/utils/handler.py).  All  *)
(* handlers run in one event loop and change places only at an await.      *)
(*                                                                         *)
(*   RateLimit   counts the uses of each user in a period, in a FileDB;    *)
(*               a refusal awaits the sending of its message between       *)
(*               reading the counts and writing them back;                 *)
(*   block       keeps commands with the same block ID from running at     *)
(*               once: it polls for the ID, and fails after a time-out;    *)
(*   handle      runs both, then the command, and gives the IDs back       *)
(*               however the command ends.                                 *)
(*                                                                         *)
(* FileDB.get returns the object in the database itself, FileDB.set puts a *)
(* copy in its place: a reference follows the changes others make to the   *)
(* object until the next set, and not those after it.                      *)
(*                                                                         *)
(* The commands are of one handler with one limit.  Superusers, whom the   *)
(* limit does not concern, and the checks that keep no state are left out. *)
(***************************************************************************)
EXTENDS Integers, Sequences, SequencesExt

CONSTANTS Commands,    \* commands that are sent
          Users, User, \* User[e]: who sends command e
          Ids, Needs,  \* Needs[e]: the block IDs it asks for, in order
          Limit,
          MaxPeriods   \* bound: periods

ASSUME ControlAssumption == /\ User \in [Commands -> Users]
                            /\ Needs \in [Commands -> Seq(Ids)]
                            /\ Limit \in Nat \ {0} /\ MaxPeriods \in Nat

VARIABLES pc,         \* pc[e]: where command e is
          got,        \* context.block_ids: how many of its IDs e has
          block_set,
          stored,     \* rate_limit_count in the database
          last,       \* last_check_time: its period
          held,       \* held[e]: the counts a refusal will write back
          period,     \* the period by the clock
          uses,       \* uses[u]: commands of u admitted in this period
          overtaken,  \* overtaken[e]: a command was admitted, or a period began,
                      \* while the refusal of e was being sent
          spoiled     \* such a refusal has written its counts

limitVars == << stored, last, held, uses, overtaken, spoiled >>
vars == << pc, got, block_set, limitVars, period >>

Counts == [Users -> 0..Limit]

\* live: the reference is to the object in the database.
Live      == [live |-> TRUE, count |-> [u \in Users |-> 0]]
Frozen(c) == [live |-> FALSE, count |-> c]

Refusing == {e \in Commands : pc[e] = "refusing"}
Running  == {e \in Commands : pc[e] \in {"running", "failing"}}
Has(e)   == ToSet(SubSeq(Needs[e], 1, got[e]))

TypeOK ==
    /\ pc \in [Commands -> {"idle", "refusing", "running", "failing", "done"}]
    /\ got \in [Commands -> Nat]
    /\ \A e \in Commands : got[e] <= Len(Needs[e])
    /\ block_set \subseteq Ids
    /\ stored \in Counts
    /\ period \in 0..MaxPeriods /\ last \in 0..period
    /\ held \in [Commands -> [live : BOOLEAN, count : Counts]]
    /\ uses \in [Users -> Nat]
    /\ overtaken \in [Commands -> BOOLEAN] /\ spoiled \in BOOLEAN

Init ==
    /\ pc = [e \in Commands |-> "idle"]
    /\ got = [e \in Commands |-> 0]
    /\ block_set = {}
    /\ stored = [u \in Users |-> 0] /\ last = 0
    /\ held = [e \in Commands |-> Live]
    /\ period = 0
    /\ uses = [u \in Users |-> 0]
    /\ overtaken = [e \in Commands |-> FALSE] /\ spoiled = FALSE

-----------------------------------------------------------------------------
(* RateLimit.check. *)

\* Mutant: the counts of the last period go on.
CarriedOver == stored

\* The counts as the check sees them.
Current == IF period > last THEN [u \in Users |-> 0] ELSE stored

\* Mutant: one too many.
AboveLimit(e) == Current[User[e]] > Limit

OverLimit(e) == Current[User[e]] >= Limit

\* set: from now on references to the object replaced, with its value c, differ
\* from the database.
Detach(c) ==
    held' = [e \in Commands |-> IF pc[e] = "refusing" /\ held[e].live THEN Frozen(c) ELSE held[e]]

\* The use is counted in the object that was read, or in a new one if the period
\* is, and that is stored, without an await in between.
Admit(e) ==
    /\ pc[e] = "idle"
    /\ ~ OverLimit(e)
    /\ LET new == [Current EXCEPT ![User[e]] = @ + 1]
       IN /\ stored' = new
          /\ Detach(IF period > last THEN stored ELSE new)
    /\ last' = period
    /\ pc' = [pc EXCEPT ![e] = "running"]
    /\ uses' = [uses EXCEPT ![User[e]] = @ + 1]
    /\ overtaken' = [f \in Commands |-> overtaken[f] \/ f \in Refusing]
    /\ UNCHANGED << got, block_set, period, spoiled >>

\* The message of the refusal is being sent.
Refuse(e) ==
    /\ pc[e] = "idle"
    /\ OverLimit(e)
    /\ pc' = [pc EXCEPT ![e] = "refusing"]
    /\ held' = [held EXCEPT ![e] = Live]
    /\ UNCHANGED << got, block_set, stored, last, uses, overtaken, spoiled, period >>

\* It was sent, or not: the counts are written back, and the time of the check
\* is that of now.
Refused(e) ==
    /\ pc[e] = "refusing"
    /\ stored' = IF held[e].live THEN stored ELSE held[e].count
    /\ Detach(stored)
    /\ last' = period
    /\ pc' = [pc EXCEPT ![e] = "done"]
    /\ spoiled' = (spoiled \/ overtaken[e])
    /\ UNCHANGED << got, block_set, uses, overtaken, period >>

Tick ==
    /\ period < MaxPeriods
    /\ period' = period + 1
    /\ uses' = [u \in Users |-> 0]
    /\ overtaken' = [e \in Commands |-> overtaken[e] \/ e \in Refusing]
    /\ UNCHANGED << pc, got, block_set, stored, last, held, spoiled >>

-----------------------------------------------------------------------------
(* HandlerContext.block, and the end of a command. *)

Wanted(e) == Needs[e][got[e] + 1]

Block(e) ==
    /\ pc[e] = "running"
    /\ got[e] < Len(Needs[e])
    /\ Wanted(e) \notin block_set
    /\ block_set' = block_set \cup {Wanted(e)}
    /\ got' = [got EXCEPT ![e] = @ + 1]
    /\ UNCHANGED << pc, limitVars, period >>

\* Mutant: it waits for ever.
WaitForEver(e) == FALSE /\ UNCHANGED vars

\* The ID was taken for three minutes.
BlockTimeout(e) ==
    /\ pc[e] = "running"
    /\ got[e] < Len(Needs[e])
    /\ Wanted(e) \in block_set
    /\ pc' = [pc EXCEPT ![e] = "failing"]
    /\ UNCHANGED << got, block_set, limitVars, period >>

\* The command itself fails.
Raise(e) ==
    /\ pc[e] = "running"
    /\ got[e] = Len(Needs[e])
    /\ pc' = [pc EXCEPT ![e] = "failing"]
    /\ UNCHANGED << got, block_set, limitVars, period >>

\* Mutant: the IDs are given back when the command returns, but not when it fails.
FinishInTry(e) ==
    /\ \/ pc[e] = "running" /\ got[e] = Len(Needs[e]) /\ block_set' = block_set \ Has(e)
       \/ pc[e] = "failing" /\ UNCHANGED block_set
    /\ got' = [got EXCEPT ![e] = 0]
    /\ pc' = [pc EXCEPT ![e] = "done"]
    /\ UNCHANGED << limitVars, period >>

\* finally: it has returned, or its error was answered.
Finish(e) ==
    /\ \/ pc[e] = "running" /\ got[e] = Len(Needs[e])
       \/ pc[e] = "failing"
    /\ block_set' = block_set \ Has(e)
    /\ got' = [got EXCEPT ![e] = 0]
    /\ pc' = [pc EXCEPT ![e] = "done"]
    /\ UNCHANGED << limitVars, period >>

-----------------------------------------------------------------------------

\* What goes on by itself.
Goes(e) == Refused(e) \/ Block(e) \/ BlockTimeout(e) \/ Finish(e)

Next ==
    \/ Tick
    \/ \E e \in Commands : Admit(e) \/ Refuse(e) \/ Raise(e) \/ Goes(e)

Spec == Init /\ [][Next]_vars /\ \A e \in Commands : WF_vars(Goes(e))

-----------------------------------------------------------------------------
(* Properties. *)

\* The counts of this period are the uses of this period, although they are read
\* and written as a whole around an await, unless a refusal was overtaken while
\* its message was sent (handler.py:1468-1508).
CountExactUnlessOvertaken ==
    ~ spoiled /\ last = period => stored = uses

\* An ID is in block_set exactly while one running command has it, whether the
\* commands before it returned, failed or timed out (handler.py:2209-2224, 2577).
BlockExact ==
    /\ block_set = UNION {Has(e) : e \in Running}
    /\ \A e, f \in Running : e # f => Has(e) \cap Has(f) = {}

\* Every command ends, also when two ask for each other's IDs.
EveryCommandEnds == \A e \in Commands : pc[e] # "idle" ~> pc[e] = "done"
=============================================================================
