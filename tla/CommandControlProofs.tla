------------------------- MODULE CommandControlProofs -------------------------
(***************************************************************************)
(* Theorems about CommandControl for any commands, users, IDs and limit.   *)
(***************************************************************************)
EXTENDS CommandControl, SequenceTheorems, TLAPS

-----------------------------------------------------------------------------
(* Lemmas about the IDs of a command. *)

\* The first n elements of a sequence.
LEMMA PrefixSet ==
    ASSUME NEW S, NEW s \in Seq(S), NEW n \in 0..Len(s)
    PROVE  ToSet(SubSeq(s, 1, n)) = {s[i] : i \in 1..n}
<1>1. /\ SubSeq(s, 1, n) \in Seq(S)
      /\ Len(SubSeq(s, 1, n)) = n
      /\ \A i \in 1..n : SubSeq(s, 1, n)[i] = s[i]
  <2>1. CASE n = 0
    <3>1. SubSeq(s, 1, 0) = << >> BY SubSeqEmpty
    <3>2. QED BY <2>1, <3>1
  <2>2. CASE n # 0
    <3>1. \A i \in 1..n : i \in 1..Len(s) /\ s[i] \in S BY <2>2
    <3>2. QED BY <2>2, <3>1, SubSeqProperties
  <2>3. QED BY <2>1, <2>2
<1>2. DOMAIN SubSeq(s, 1, n) = 1..n BY <1>1
<1>3. QED BY <1>1, <1>2 DEF ToSet

\* The IDs a command has, by their positions.
LEMMA HasPrefix ==
    ASSUME TypeOK, NEW e \in Commands
    PROVE  Has(e) = {Needs[e][i] : i \in 1..got[e]}
BY PrefixSet, ControlAssumption DEF Has, TypeOK

-----------------------------------------------------------------------------
(* The inductive invariant. *)

\* Only a command that runs has IDs: it is admitted with none and keeps none.
OnlyRunningHave == \A e \in Commands : e \notin Running => got[e] = 0

\* Until a command is admitted in a period nobody has used it.
NewPeriod == last < period => uses = [u \in Users |-> 0]

\* What a refusal that nothing overtook will write back is what is stored.
RefusalKeeps ==
    ~ spoiled => \A e \in Refusing :
        ~ overtaken[e] => /\ last = period
                          /\ held[e].live \/ held[e].count = stored

BlockInv == OnlyRunningHave /\ BlockExact
CountInv == NewPeriod /\ RefusalKeeps /\ CountExactUnlessOvertaken
IInv     == TypeOK /\ BlockInv /\ CountInv

\* The part of TypeOK without the counts and the histories.
PlainTypes ==
    /\ pc \in [Commands -> {"idle", "refusing", "running", "failing", "done"}]
    /\ got \in [Commands -> Nat]
    /\ \A e \in Commands : got[e] <= Len(Needs[e])
    /\ block_set \subseteq Ids
    /\ period \in 0..MaxPeriods /\ last \in 0..period

LEMMA InitInvariant == Init => IInv
<1> SUFFICES ASSUME Init PROVE IInv OBVIOUS
<1>1. TypeOK
  <2>1. Live \in [live : BOOLEAN, count : Counts]
    <3>1. [u \in Users |-> 0] \in Counts BY ControlAssumption DEF Counts
    <3> HIDE DEF Counts
    <3>2. QED BY <3>1 DEF Live
  <2>2. stored \in Counts BY ControlAssumption DEF Init, Counts
  <2>3. PlainTypes /\ uses \in [Users -> Nat] BY ControlAssumption DEF Init, PlainTypes
  <2>4. held \in [Commands -> [live : BOOLEAN, count : Counts]] BY <2>1 DEF Init
  <2>5. overtaken \in [Commands -> BOOLEAN] /\ spoiled \in BOOLEAN BY DEF Init
  <2>6. QED BY <2>2, <2>3, <2>4, <2>5, Zenon DEF TypeOK, PlainTypes
<1>2. Running = {} /\ Refusing = {} BY DEF Init, Running, Refusing
<1>3. BlockInv BY <1>2 DEF Init, BlockInv, OnlyRunningHave, BlockExact
<1>4. CountInv
  BY <1>2 DEF Init, CountInv, NewPeriod, RefusalKeeps, CountExactUnlessOvertaken
<1>5. QED BY <1>1, <1>3, <1>4 DEF IInv

\* The counts of the check are counts.
LEMMA CurrentType == ASSUME TypeOK PROVE Current \in Counts
BY ControlAssumption DEF TypeOK, Current, Counts

\* Detach keeps the type of the references.
LEMMA DetachType ==
    ASSUME TypeOK, NEW c \in Counts, Detach(c)
    PROVE  held' \in [Commands -> [live : BOOLEAN, count : Counts]]
BY DEF TypeOK, Detach, Frozen

LEMMA TypeStep == ASSUME TypeOK, [Next]_vars PROVE TypeOK'
<1> USE ControlAssumption
<1>1. CASE Tick
  <2>1. overtaken' \in [Commands -> BOOLEAN]
    <3>1. overtaken' = [e \in Commands |-> overtaken[e] \/ e \in Refusing]
      BY <1>1 DEF Tick
    <3>2. QED BY <3>1, Zenon
  <2>2. QED BY <1>1, <2>1 DEF TypeOK, Tick
<1>2. ASSUME NEW e \in Commands, Admit(e) PROVE TypeOK'
  <2> DEFINE new == [Current EXCEPT ![User[e]] = @ + 1]
  <2>1. Current \in Counts BY CurrentType
  <2>2. new \in Counts
    BY <1>2, <2>1 DEF Admit, OverLimit, Counts
  <2>3. stored' \in Counts BY <1>2, <2>2 DEF Admit
  <2>4. held' \in [Commands -> [live : BOOLEAN, count : Counts]]
    <3>1. (IF period > last THEN stored ELSE new) \in Counts BY <2>2 DEF TypeOK
    <3>2. Detach(IF period > last THEN stored ELSE new) BY <1>2 DEF Admit
    <3> HIDE DEF new
    <3>3. QED BY <3>1, <3>2, DetachType
  <2>5. uses' \in [Users -> Nat] BY <1>2 DEF Admit, TypeOK
  <2>6. overtaken' \in [Commands -> BOOLEAN]
    <3>1. overtaken' = [f \in Commands |-> overtaken[f] \/ f \in Refusing]
      BY <1>2 DEF Admit
    <3>2. QED BY <3>1, Zenon
  <2>7. PlainTypes' BY <1>2 DEF Admit, TypeOK, PlainTypes
  <2>8. spoiled' \in BOOLEAN BY <1>2 DEF Admit, TypeOK
  <2>9. QED BY <2>3, <2>4, <2>5, <2>6, <2>7, <2>8, Zenon DEF TypeOK, PlainTypes
<1>3. ASSUME NEW e \in Commands, Refuse(e) PROVE TypeOK'
  <2>1. Live \in [live : BOOLEAN, count : Counts] BY DEF Live, Counts
  <2>2. held' \in [Commands -> [live : BOOLEAN, count : Counts]]
    BY <1>3, <2>1 DEF Refuse, TypeOK
  <2>3. QED BY <1>3, <2>2 DEF Refuse, TypeOK
<1>4. ASSUME NEW e \in Commands, Refused(e) PROVE TypeOK'
  <2>1. stored' \in Counts BY <1>4 DEF Refused, TypeOK
  <2>2. held' \in [Commands -> [live : BOOLEAN, count : Counts]]
    BY <1>4, DetachType DEF Refused, TypeOK
  <2>3. spoiled' \in BOOLEAN
    <3>1. spoiled' = (spoiled \/ overtaken[e]) BY <1>4 DEF Refused
    <3>2. QED BY <3>1, Zenon
  <2>4. PlainTypes' BY <1>4 DEF Refused, TypeOK, PlainTypes
  <2>5. uses' \in [Users -> Nat] /\ overtaken' \in [Commands -> BOOLEAN]
    BY <1>4 DEF Refused, TypeOK
  <2>6. QED BY <2>1, <2>2, <2>3, <2>4, <2>5, Zenon DEF TypeOK, PlainTypes
<1>5. ASSUME NEW e \in Commands, Block(e) PROVE TypeOK'
  <2>1. Wanted(e) \in Ids BY <1>5 DEF Block, Wanted, TypeOK
  <2>2. QED BY <1>5, <2>1 DEF Block, TypeOK, limitVars
<1>6. ASSUME NEW e \in Commands, BlockTimeout(e) \/ Raise(e) PROVE TypeOK'
  BY <1>6 DEF BlockTimeout, Raise, TypeOK, limitVars
<1>7. ASSUME NEW e \in Commands, Finish(e) PROVE TypeOK'
  BY <1>7 DEF Finish, TypeOK, limitVars
<1>8. CASE UNCHANGED vars BY <1>8 DEF TypeOK, vars, limitVars
<1>9. QED BY <1>1, <1>2, <1>3, <1>4, <1>5, <1>6, <1>7, <1>8 DEF Next, Goes

\* A step that changes neither the places, nor the IDs, nor block_set.
LEMMA BlockUnchanged ==
    ASSUME BlockInv, got' = got, block_set' = block_set,
           Running' = Running \/ \E e \in Commands : Running' = Running \cup {e} /\ got[e] = 0,
           TypeOK
    PROVE  BlockInv'
<1>1. \A e \in Commands : Has(e)' = Has(e) BY DEF Has
<1>2. \A e \in Commands : got[e] = 0 => Has(e) = {} BY HasPrefix
<1>3. OnlyRunningHave' BY DEF BlockInv, OnlyRunningHave, Running
<1>4. BlockExact' BY <1>1, <1>2 DEF BlockInv, BlockExact, Running
<1>5. QED BY <1>3, <1>4 DEF BlockInv

LEMMA BlockStep == ASSUME TypeOK, TypeOK', BlockInv, [Next]_vars PROVE BlockInv'
<1> USE ControlAssumption
<1>1. CASE Tick
  <2>1. Running' = Running BY <1>1 DEF Tick, Running
  <2>2. QED BY <1>1, <2>1, BlockUnchanged DEF Tick
<1>2. ASSUME NEW e \in Commands, Admit(e) PROVE BlockInv'
  <2>1. Running' = Running \cup {e} BY <1>2 DEF Admit, Running, TypeOK
  <2>2. got[e] = 0 BY <1>2 DEF Admit, BlockInv, OnlyRunningHave, Running
  <2>3. QED BY <1>2, <2>1, <2>2, BlockUnchanged DEF Admit
<1>3. ASSUME NEW e \in Commands, Refuse(e) \/ Refused(e) \/ BlockTimeout(e) \/ Raise(e)
      PROVE BlockInv'
  <2>1. Running' = Running
    BY <1>3 DEF Refuse, Refused, BlockTimeout, Raise, Running, TypeOK
  <2>2. QED BY <1>3, <2>1, BlockUnchanged DEF Refuse, Refused, BlockTimeout, Raise
<1>5. ASSUME NEW e \in Commands, Block(e) PROVE BlockInv'
  <2>1. Running' = Running /\ e \in Running BY <1>5 DEF Block, Running
  <2>2. Has(e)' = Has(e) \cup {Wanted(e)}
    <3>1. Has(e) = {Needs[e][i] : i \in 1..got[e]} BY HasPrefix
    <3>2. Has(e)' = {Needs[e][i] : i \in 1..got'[e]}
      BY PrefixSet, ControlAssumption DEF Has, TypeOK
    <3>3. got'[e] = got[e] + 1 /\ got[e] \in Nat BY <1>5 DEF Block, TypeOK
    <3>4. 1..got'[e] = 1..got[e] \cup {got[e] + 1} BY <3>3
    <3>5. QED BY <3>1, <3>2, <3>4 DEF Wanted
  <2>3. \A f \in Commands \ {e} : Has(f)' = Has(f) BY <1>5 DEF Block, Has, TypeOK
  <2>4. Wanted(e) \notin block_set /\ block_set' = block_set \cup {Wanted(e)}
    BY <1>5 DEF Block
  <2>5. OnlyRunningHave'
    BY <1>5, <2>1 DEF Block, BlockInv, OnlyRunningHave, TypeOK
  <2>6. BlockExact'
    <3>1. block_set = UNION {Has(f) : f \in Running} BY DEF BlockInv, BlockExact
    <3>2. Running \subseteq Commands BY DEF Running
    <3>3. block_set' = UNION {Has(f)' : f \in Running}
      BY <2>1, <2>2, <2>3, <2>4, <3>1, <3>2
    <3>4. \A f \in Running : Wanted(e) \notin Has(f) BY <2>4, <3>1
    <3>5. \A f, g \in Running : f # g => Has(f)' \cap Has(g)' = {}
      BY <2>2, <2>3, <3>2, <3>4, SMTT(30) DEF BlockInv, BlockExact
    <3>6. QED BY <2>1, <3>3, <3>5 DEF BlockExact
  <2>7. QED BY <2>5, <2>6 DEF BlockInv
<1>6. ASSUME NEW e \in Commands, Finish(e) PROVE BlockInv'
  <2>1. Running' = Running \ {e} /\ e \in Running BY <1>6 DEF Finish, Running, TypeOK
  <2>2. \A f \in Commands \ {e} : Has(f)' = Has(f) BY <1>6 DEF Finish, Has, TypeOK
  <2>3. block_set' = block_set \ Has(e) BY <1>6 DEF Finish
  <2>4. OnlyRunningHave'
    BY <1>6, <2>1 DEF Finish, BlockInv, OnlyRunningHave, TypeOK
  <2>5. BlockExact' BY <2>1, <2>2, <2>3 DEF BlockInv, BlockExact, Running
  <2>6. QED BY <2>4, <2>5 DEF BlockInv
<1>7. CASE UNCHANGED vars
  BY <1>7, BlockUnchanged DEF vars, Running
<1>8. QED BY <1>1, <1>2, <1>3, <1>5, <1>6, <1>7 DEF Next, Goes

\* What keeps the counts exact.
LEMMA CountStep == ASSUME TypeOK, TypeOK', CountInv, [Next]_vars PROVE CountInv'
<1> USE ControlAssumption
<1>1. CASE Tick
  <2>1. Refusing' = Refusing BY <1>1 DEF Tick, Refusing
  <2>2. \A e \in Refusing : overtaken'[e] BY <1>1 DEF Tick, Refusing
  <2>3. NewPeriod' BY <1>1 DEF Tick, NewPeriod
  <2>4. RefusalKeeps' BY <2>1, <2>2 DEF RefusalKeeps
  <2>5. CountExactUnlessOvertaken'
    BY <1>1 DEF Tick, CountExactUnlessOvertaken, TypeOK
  <2>6. QED BY <2>3, <2>4, <2>5 DEF CountInv
<1>2. ASSUME NEW e \in Commands, Admit(e) PROVE CountInv'
  <2>1. NewPeriod' BY <1>2 DEF Admit, NewPeriod, TypeOK
  <2>2. \A f \in Refusing' : f \in Refusing /\ overtaken'[f]
    BY <1>2 DEF Admit, Refusing, TypeOK
  <2>3. RefusalKeeps' BY <2>2 DEF RefusalKeeps
  <2>4. CountExactUnlessOvertaken'
    <3>1. ~ spoiled => Current = uses
      BY DEF Current, CountInv, NewPeriod, CountExactUnlessOvertaken, TypeOK
    <3>2. stored' = [Current EXCEPT ![User[e]] = @ + 1]
          /\ uses' = [uses EXCEPT ![User[e]] = @ + 1] /\ spoiled' = spoiled
      BY <1>2 DEF Admit
    <3>3. QED BY <3>1, <3>2 DEF CountExactUnlessOvertaken
  <2>5. QED BY <2>1, <2>3, <2>4 DEF CountInv
<1>3. ASSUME NEW e \in Commands, Refuse(e) PROVE CountInv'
  <2>1. last = period
    <3>1. User[e] \in Users OBVIOUS
    <3>2. CASE period > last
      BY <1>3, <3>1, <3>2 DEF Refuse, OverLimit, Current
    <3>3. QED BY <3>2 DEF TypeOK
  <2>2. held'[e].live BY <1>3 DEF Refuse, Live, TypeOK
  <2>3. \A f \in Refusing' : f = e \/ (f \in Refusing /\ held'[f] = held[f])
    BY <1>3 DEF Refuse, Refusing, TypeOK
  <2>4. RefusalKeeps'
    BY <1>3, <2>1, <2>2, <2>3 DEF Refuse, CountInv, RefusalKeeps
  <2>5. QED
    BY <1>3, <2>4 DEF Refuse, CountInv, NewPeriod, CountExactUnlessOvertaken
<1>4. ASSUME NEW e \in Commands, Refused(e) PROVE CountInv'
  <2>1. NewPeriod' BY <1>4 DEF Refused, NewPeriod, TypeOK
  <2>2. e \in Refusing BY <1>4 DEF Refused, Refusing
  <2>3. ASSUME ~ spoiled' PROVE stored' = stored /\ last = period /\ ~ spoiled
    <3>1. ~ spoiled /\ ~ overtaken[e] BY <1>4, <2>3 DEF Refused
    <3>2. QED BY <1>4, <2>2, <3>1 DEF Refused, CountInv, RefusalKeeps
  <2>4. \A f \in Refusing' : f \in Refusing /\ held'[f] = IF held[f].live THEN Frozen(stored) ELSE held[f]
    BY <1>4 DEF Refused, Refusing, TypeOK, Detach
  <2>5. RefusalKeeps'
    <3> SUFFICES ASSUME ~ spoiled', NEW f \in Refusing', ~ overtaken'[f]
                 PROVE  last' = period' /\ (held'[f].live \/ held'[f].count = stored')
      BY DEF RefusalKeeps
    <3>1. last' = period' BY <1>4 DEF Refused
    <3>2. ~ overtaken[f] BY <1>4 DEF Refused
    <3>3. held[f].live \/ held[f].count = stored
      BY <2>3, <2>4, <3>2 DEF CountInv, RefusalKeeps
    <3>4. Frozen(stored).count = stored BY DEF Frozen
    <3>5. QED BY <2>3, <2>4, <3>1, <3>3, <3>4
  <2>6. CountExactUnlessOvertaken'
    BY <1>4, <2>3 DEF Refused, CountInv, CountExactUnlessOvertaken
  <2>7. QED BY <2>1, <2>5, <2>6 DEF CountInv
<1>5. ASSUME NEW e \in Commands, Block(e) \/ BlockTimeout(e) \/ Raise(e) \/ Finish(e)
      PROVE CountInv'
  <2>1. Refusing' = Refusing /\ UNCHANGED << limitVars, period >>
    BY <1>5 DEF Block, BlockTimeout, Raise, Finish, Refusing, TypeOK
  <2>2. QED
    BY <2>1 DEF limitVars, CountInv, NewPeriod, RefusalKeeps, CountExactUnlessOvertaken
<1>6. CASE UNCHANGED vars
  BY <1>6 DEF vars, limitVars, CountInv, NewPeriod, RefusalKeeps,
              CountExactUnlessOvertaken, Refusing
<1>7. QED BY <1>1, <1>2, <1>3, <1>4, <1>5, <1>6 DEF Next, Goes

LEMMA Invariance == Spec => []IInv
<1>1. IInv /\ [Next]_vars => IInv'
  BY TypeStep, BlockStep, CountStep DEF IInv
<1>2. QED BY <1>1, InitInvariant, PTL DEF Spec

-----------------------------------------------------------------------------
(* The theorems. *)

\* Every variable keeps its type; the counts stored never exceed the limit
\* (handler.py:1468-1508).
THEOREM ControlTypes == Spec => []TypeOK
<1>1. IInv => TypeOK BY DEF IInv
<1>2. QED BY <1>1, Invariance, PTL

\* The counts are the uses of the period, unless a refusal was overtaken while
\* its message was sent (handler.py:1468-1508).
THEOREM CountsAreExact == Spec => []CountExactUnlessOvertaken
<1>1. IInv => CountExactUnlessOvertaken BY DEF IInv, CountInv
<1>2. QED BY <1>1, Invariance, PTL

\* block_set has the IDs of the commands that run, each of one command
\* (handler.py:2209-2224, 2577).
THEOREM BlocksAreExact == Spec => []BlockExact
<1>1. IInv => BlockExact BY DEF IInv, BlockInv
<1>2. QED BY <1>1, Invariance, PTL

-----------------------------------------------------------------------------
(* Without liveness: what EveryCommandEnds rests on. *)

\* How far command e is from its end: the IDs it has still to ask for count.
Left(e) == IF pc[e] = "running" THEN 2 + (Len(Needs[e]) - got[e]) ELSE
           IF pc[e] \in {"refusing", "failing"} THEN 1 ELSE 0

\* Whatever others do, a command that was sent does not get further from its end, and
\* each of its own steps is one nearer: no ID is asked for twice.
EndNearer ==
    \A e \in Commands : pc[e] # "idle" =>
        /\ pc'[e] # "idle" /\ Left(e)' <= Left(e)
        /\ Goes(e) => Left(e)' < Left(e)


\* A command that was sent moves by its own steps only, and towards its end.
LEMMA CommandMoves ==
    ASSUME TypeOK, [Next]_vars, NEW e \in Commands, pc[e] # "idle"
    PROVE  \/ pc'[e] = pc[e] /\ got'[e] = got[e]
           \/ pc[e] = "running" /\ pc'[e] = "running" /\ got[e] < Len(Needs[e]) /\ got'[e] = got[e] + 1
           \/ pc[e] = "running" /\ pc'[e] \in {"failing", "done"}
           \/ pc[e] \in {"refusing", "failing"} /\ pc'[e] = "done"
<1>1. DOMAIN pc = Commands /\ DOMAIN got = Commands BY DEF TypeOK
<1>2. ASSUME NEW f \in Commands, Admit(f) \/ Refuse(f) PROVE pc'[e] = pc[e] /\ got'[e] = got[e]
  <2>1. pc[f] = "idle" /\ got' = got BY <1>2 DEF Admit, Refuse
  <2>2. \E s : pc' = [pc EXCEPT ![f] = s] BY <1>2 DEF Admit, Refuse
  <2>3. QED BY <1>1, <2>1, <2>2
<1>3. ASSUME NEW f \in Commands, f # e, Raise(f) \/ Goes(f) PROVE pc'[e] = pc[e] /\ got'[e] = got[e]
  BY <1>1, <1>3 DEF Raise, Goes, Refused, Block, BlockTimeout, Finish
<1>4. ASSUME Raise(e) \/ Goes(e)
      PROVE  \/ pc[e] = "running" /\ pc'[e] = "running" /\ got[e] < Len(Needs[e]) /\ got'[e] = got[e] + 1
             \/ pc[e] = "running" /\ pc'[e] \in {"failing", "done"}
             \/ pc[e] \in {"refusing", "failing"} /\ pc'[e] = "done"
  BY <1>1, <1>4 DEF Raise, Goes, Refused, Block, BlockTimeout, Finish
<1>5. ASSUME Tick \/ UNCHANGED vars PROVE pc' = pc /\ got' = got BY <1>5 DEF Tick, vars
<1>6. QED BY <1>2, <1>3, <1>4, <1>5 DEF Next

\* Every command comes to its end in as many steps as it has IDs, and two, whatever the
\* others do: with two that wait for each other's IDs, neither goes back to ask again.
THEOREM CommandsAdvance == Spec => [][EndNearer]_vars
<1>1. TypeOK /\ [Next]_vars => [EndNearer]_vars
  <2> SUFFICES ASSUME TypeOK, [Next]_vars, NEW e \in Commands, pc[e] # "idle"
               PROVE  /\ pc'[e] # "idle" /\ Left(e)' <= Left(e)
                      /\ Goes(e) => Left(e)' < Left(e)
    BY DEF EndNearer
  <2>1. PICK n : n = Len(Needs[e]) OBVIOUS
  <2>2. got[e] \in Nat /\ n \in Nat /\ got[e] <= n BY <2>1, ControlAssumption DEF TypeOK
  <2>3. pc'[e] # "idle" BY CommandMoves
  <2>4. Left(e)' <= Left(e) BY <2>1, <2>2, CommandMoves DEF Left
  <2>5. ASSUME Goes(e) PROVE Left(e)' < Left(e)
    <3>1. DOMAIN pc = Commands /\ DOMAIN got = Commands BY DEF TypeOK
    <3>2. QED
      BY <2>1, <2>2, <2>5, <3>1 DEF Left, Goes, Refused, Block, BlockTimeout, Finish
  <2>6. QED BY <2>3, <2>4, <2>5
<1>2. QED BY <1>1, ControlTypes, PTL DEF Spec
=============================================================================
