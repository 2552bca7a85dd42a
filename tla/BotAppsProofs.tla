----------------------------- MODULE BotAppsProofs -----------------------------
(***************************************************************************)
(* Theorems about BotApps for any apps, IDs, redials and events.           *)
(***************************************************************************)
EXTENDS BotApps, SequenceTheorems, FiniteSetTheorems, TLAPS

-----------------------------------------------------------------------------
(* The inductive invariant. *)

Editing == {"append", "shift", "shorten"}
Served  == {"announce", "serve", "remove", "shift"}

\* What a place of an array holds, and what one of the list does.
At(x, i) == heap[x][i]
Entry(i) == heap[slice.arr][i]

\* A client that was put into the list: of a connection before, unless its handler has
\* come past the append.
Old(c) ==
    /\ c \in Clients
    /\ c[2] <= dials[c[1]]
    /\ c[2] = dials[c[1]] => pc[c[1]] \notin {"add", "append"}

\* Slices, also those that handlers have in their hands, show clients and stay within
\* their arrays, however edits overlap.
RefInv ==
    /\ \A i \in 1..slice.len : Old(Entry(i))
    /\ \A a \in Apps :
          /\ seen[a].len <= Len(heap[seen[a].arr])
          /\ \A i \in 1..seen[a].len : Old(At(seen[a].arr, i))
          /\ pc[a] \in {"shift", "shorten"} => seen[a].place \in 1..seen[a].len
          /\ pc[a] \notin {"wait", "dial"} => dials[a] # 0

\* So does the slice that readLoop ranges over, and its loop has an event.
RangeInv ==
    /\ range # NoRange => range.next <= range.len /\ sent # 0
    /\ range.len <= Len(heap[range.arr])
    /\ \A i \in 1..range.len : Old(At(range.arr, i))

\* As long as edits have not overlapped, the slice in a handler's hands is the list,
\* and the list has every app that is served, once.
OnceInv ==
    ~ raced =>
        /\ \A a, b \in Apps : pc[a] \in Editing /\ pc[b] \in Editing => a = b
        /\ \A a \in Apps : pc[a] \in Editing => seen[a].arr = slice.arr /\ seen[a].len = slice.len
        /\ \A a \in Apps : pc[a] = "shift" => Entry(seen[a].place) = Client(a)
        /\ \A i \in 1..Kept : Entry(i) = Client(Entry(i)[1]) /\ pc[Entry(i)[1]] \in Served
        /\ \A i, j \in 1..Kept : Entry(i)[1] = Entry(j)[1] => i = j
        /\ \A a \in Apps : pc[a] \in Served => \E i \in 1..Kept : Entry(i) = Client(a)

\* An app has the ID that is in force, or its dial was overtaken, or its connection
\* is closed; while an ID is about to be stored there is no other way.
IdInv ==
    /\ BotID = None => \A a \in Apps : pc[a] = "wait"
    /\ changing # None => changing # BotID
    /\ ~ raced => \A a \in Apps \ overtaken :
          /\ pc[a] \in {"dial", "add", "append"} => changing = None /\ selfId[a] = BotID
          /\ pc[a] \in {"announce", "serve"} /\ Client(a) \in up
                => changing = None /\ selfId[a] = BotID

\* The alarm of an outage waits or was told, from the disconnect until the app is back.
NoticeInv ==
    /\ \A a \in timers : pc[a] # "serve"
    /\ \A a \in Apps :
          \/ a \in timers \cup told
          \/ pc[a] \in {"announce", "serve"}
          \/ dials[a] = 0
          \/ dials[a] = 1 /\ pc[a] \in {"add", "append"}

IInv == TypeOK /\ RefInv /\ RangeInv /\ OnceInv /\ IdInv /\ NoticeInv

\* The bounds are natural numbers.
LEMMA Bounds == /\ Depth \in Nat \ {0} /\ MaxRedials \in Nat /\ MaxEvents \in Nat
                /\ MaxChanges \in Nat
BY AppsAssumption

-----------------------------------------------------------------------------
(* Sequences. *)

\* A function on 1..n is a sequence.
LEMMA FunctionIsSeq ==
    ASSUME NEW S, NEW n \in Nat, NEW f \in [1..n -> S]
    PROVE  f \in Seq(S) /\ Len(f) = n /\ DOMAIN f = 1..n
OBVIOUS

Places == Seq(Clients \cup {None})

\* One array of the heap is written in place.
LEMMA HeapPut ==
    ASSUME NEW h \in Seq(Places), NEW x \in 1..Len(h),
           NEW g \in [1..Len(h[x]) -> Clients \cup {None}]
    PROVE  /\ [h EXCEPT ![x] = g] \in Seq(Places)
           /\ Len([h EXCEPT ![x] = g]) = Len(h)
           /\ \A y \in 1..Len(h) : [h EXCEPT ![x] = g][y] = IF y = x THEN g ELSE h[y]
           /\ Len(g) = Len(h[x])
<1>1. h[x] \in Places BY ElementOfSeq
<1>2. Len(h[x]) \in Nat BY <1>1 DEF Places
<1>3. g \in Places /\ Len(g) = Len(h[x]) BY <1>2, FunctionIsSeq DEF Places
<1>4. QED BY <1>3, ExceptSeq

\* The list is what the slice shows.
LEMMA ListedFacts ==
    ASSUME TypeOK
    PROVE  /\ DOMAIN Listed = 1..slice.len
           /\ \A i \in 1..slice.len : Listed[i] = Entry(i) /\ Entry(i) \in Clients \cup {None}
           /\ \A a : PlacesOf(a) = {i \in 1..slice.len : Entry(i)[1] = a}
<1>1. /\ heap \in Seq(Places) /\ slice.arr \in 1..Len(heap) /\ slice.len \in Nat
      /\ slice.len <= Len(heap[slice.arr])
  BY DEF TypeOK, Places
<1>2. heap[slice.arr] \in Places BY <1>1, ElementOfSeq
<1>3. \A i \in 1..slice.len : heap[slice.arr][i] \in Clients \cup {None}
  BY <1>1, <1>2, ElementOfSeq DEF Places
<1>4. /\ Listed \in Seq(Clients \cup {None}) /\ Len(Listed) = slice.len
      /\ \A i \in 1..slice.len : Listed[i] = heap[slice.arr][i]
  BY <1>1, <1>3, SubSeqProperties DEF Listed
<1>5. QED BY <1>3, <1>4 DEF Entry, PlacesOf

\* What is kept is in the slice.
LEMMA KeptFacts ==
    ASSUME TypeOK
    PROVE  /\ \A i \in 1..Kept : i \in 1..slice.len
           /\ slice.len \in Nat
           /\ (\A b \in Apps : pc[b] # "shorten") => Kept = slice.len
           /\ (\E b \in Apps : pc[b] = "shorten") => Kept = slice.len - 1
<1>1. slice.len \in Nat BY DEF TypeOK
<1>2. QED BY <1>1 DEF Kept

-----------------------------------------------------------------------------
(* Edits of the list. *)

\* What append stores: the slice in hand, and the client after it.
LEMMA AppendEffect ==
    ASSUME TypeOK, RefInv, NEW a \in Apps, StoreAppended(a)
    PROVE  /\ heap' \in Seq(Places) /\ Len(heap') >= Len(heap)
           /\ slice' \in [arr : 1..Len(heap'), len : Nat]
           /\ slice'.len = seen[a].len + 1 /\ slice'.len <= Len(heap'[slice'.arr])
           /\ \A x \in 1..Len(heap) : Len(heap'[x]) = Len(heap[x])
           /\ \A x \in 1..Len(heap) : \A i \in 1..Len(heap[x]) :
                  At(x, i)' = At(x, i) \/ At(x, i)' = Client(a)
           /\ \A i \in 1..seen[a].len : Entry(i)' = At(seen[a].arr, i)
           /\ \A m : m = seen[a].len + 1 => Entry(m)' = Client(a)
           /\ \A x \in 1..Len(heap) : \A i \in 1..Len(heap[x]) :
                  At(x, i)' = IF x = slice'.arr /\ i = slice'.len THEN Client(a) ELSE At(x, i)
           /\ slice'.arr = seen[a].arr \/ slice'.arr = Len(heap) + 1
           /\ Client(a) \in Clients
<1>1. PICK s, r, cap, k : s = seen[a] /\ r = s.arr /\ cap = Len(heap[r]) /\ k = Client(a) OBVIOUS
<1>2. /\ heap \in Seq(Places) /\ Len(heap) \in Nat
      /\ r \in 1..Len(heap) /\ s.len \in Nat /\ s.len <= cap
  <2>1. heap \in Seq(Places) /\ seen[a] \in [arr : 1..Len(heap), len : Nat, place : Nat]
    BY DEF TypeOK, Places
  <2>2. seen[a].len <= Len(heap[seen[a].arr]) BY DEF RefInv
  <2>3. Len(heap) \in Nat BY <2>1, LenProperties
  <2>4. QED BY <1>1, <2>1, <2>2, <2>3
<1>3. heap[r] \in Places /\ cap \in Nat /\ DOMAIN heap[r] = 1..cap
  BY <1>1, <1>2, ElementOfSeq DEF Places
<1>4. \A i \in 1..cap : heap[r][i] \in Clients \cup {None}
  BY <1>1, <1>3, ElementOfSeq DEF Places
<1>5. k \in Clients /\ Client(a) = k
  <2>1. dials[a] \in 0..(MaxRedials + 1) /\ MaxRedials \in Nat BY AppsAssumption DEF TypeOK
  <2>2. dials[a] # 0 BY DEF StoreAppended, RefInv
  <2>3. dials[a] \in 1..(MaxRedials + 1) BY <2>1, <2>2
  <2>4. QED BY <1>1, <2>3 DEF Client, Clients
<1>6. \A x \in 1..Len(heap) : heap[x] \in Places /\ Len(heap[x]) \in Nat
  BY <1>2, ElementOfSeq DEF Places
<1>7. CASE s.len < cap
  <2>1. PICK g : g = [i \in 1..cap |-> IF i = s.len + 1 THEN k ELSE heap[r][i]] OBVIOUS
  <2>2. g \in [1..cap -> Clients \cup {None}] BY <1>4, <1>5, <2>1
  <2>3. heap' = [heap EXCEPT ![r] = g] /\ slice' = [arr |-> r, len |-> s.len + 1]
    BY <1>1, <1>3, <1>7, <2>1 DEF StoreAppended
  <2>4. g \in [1..Len(heap[r]) -> Clients \cup {None}] BY <1>1, <2>2
  <2>5. /\ heap' \in Seq(Places) /\ Len(heap') = Len(heap)
        /\ \A y \in 1..Len(heap) : heap'[y] = IF y = r THEN g ELSE heap[y]
        /\ Len(g) = cap
    <3>1. heap \in Seq(Places) /\ r \in 1..Len(heap) BY <1>2
    <3>2. QED BY <1>1, <2>3, <2>4, <3>1, HeapPut
  <2>6. slice'.arr = r /\ slice'.len = s.len + 1 /\ slice' \in [arr : 1..Len(heap'), len : Nat]
    BY <1>2, <2>3, <2>5
  <2>7. \A x \in 1..Len(heap) : Len(heap'[x]) = Len(heap[x]) BY <1>1, <2>5
  <2>8. \A x \in 1..Len(heap) : \A i \in 1..Len(heap[x]) : heap'[x][i] = heap[x][i] \/ heap'[x][i] = k
    BY <1>1, <2>1, <2>5
  <2>9. (\A i \in 1..s.len : heap'[r][i] = heap[r][i]) /\ heap'[r][s.len + 1] = k
    <3>1. heap'[r] = g BY <1>2, <2>5
    <3>2. \A i \in 1..s.len : i \in 1..cap /\ i # s.len + 1 BY <1>2, <1>3
    <3>3. s.len + 1 \in 1..cap BY <1>2, <1>3, <1>7
    <3>4. QED BY <2>1, <3>1, <3>2, <3>3
  <2>10. slice'.len <= Len(heap'[slice'.arr]) BY <1>2, <1>3, <1>7, <2>5, <2>6
  <2>11. \A i \in 1..seen[a].len : Entry(i)' = At(seen[a].arr, i) BY <1>1, <2>6, <2>9 DEF At, Entry
  <2>12. \A m : m = seen[a].len + 1 => Entry(m)' = Client(a) BY <1>1, <2>6, <2>9 DEF Entry
  <2>13. \A x \in 1..Len(heap) : \A i \in 1..Len(heap[x]) :
             At(x, i)' = At(x, i) \/ At(x, i)' = Client(a)
    BY <1>1, <2>8 DEF At
  <2>14. slice'.len = seen[a].len + 1 /\ Len(heap') >= Len(heap) BY <1>1, <1>2, <2>5, <2>6
  <2>15. Client(a) \in Clients BY <1>5
  <2>17. \A x \in 1..Len(heap) : \A i \in 1..Len(heap[x]) :
             At(x, i)' = IF x = slice'.arr /\ i = slice'.len THEN Client(a) ELSE At(x, i)
    BY <1>1, <2>1, <2>5, <2>6 DEF At
  <2>18. slice'.arr = seen[a].arr BY <1>1, <2>6
  <2>16. QED BY <2>5, <2>6, <2>7, <2>10, <2>11, <2>12, <2>13, <2>14, <2>15, <2>17, <2>18
<1>8. CASE s.len = cap
  <2>1. PICK n \in Nat : n = IF cap = 0 THEN 1 ELSE 2 * cap BY <1>3
  <2>2. PICK g : g = [i \in 1..n |-> IF i <= cap THEN heap[r][i]
                                     ELSE IF i = cap + 1 THEN k ELSE None]
    OBVIOUS
  <2>3. n >= cap + 1 BY <1>3, <2>1
  <2>4. g \in [1..n -> Clients \cup {None}] BY <1>3, <1>4, <1>5, <2>2
  <2>5. g \in Places /\ Len(g) = n BY <2>4, FunctionIsSeq DEF Places
  <2>6. heap' = Append(heap, g) /\ slice' = [arr |-> Len(heap) + 1, len |-> s.len + 1]
    <3>1. /\ heap' = Append(heap, [i \in 1..(IF cap = 0 THEN 1 ELSE 2 * cap) |->
                          IF i <= cap THEN heap[r][i] ELSE IF i = cap + 1 THEN k ELSE None])
          /\ slice' = [arr |-> Len(heap) + 1, len |-> s.len + 1]
      BY <1>1, <1>8 DEF StoreAppended
    <3>2. QED BY <2>1, <2>2, <3>1
  <2>7. /\ heap' \in Seq(Places) /\ Len(heap') = Len(heap) + 1
        /\ \A y \in 1..Len(heap) : heap'[y] = heap[y]
        /\ heap'[Len(heap) + 1] = g
    BY <1>2, <2>5, <2>6, AppendProperties
  <2>8. /\ slice'.arr = Len(heap) + 1 /\ slice'.len = s.len + 1
        /\ slice' \in [arr : 1..Len(heap'), len : Nat]
    BY <1>2, <2>6, <2>7
  <2>9. (\A i \in 1..s.len : g[i] = heap[r][i]) /\ g[s.len + 1] = k
    BY <1>2, <1>3, <1>8, <2>2, <2>3
  <2>10. slice'.len <= Len(heap'[slice'.arr]) BY <1>8, <2>3, <2>5, <2>7, <2>8
  <2>11. \A i \in 1..seen[a].len : Entry(i)' = At(seen[a].arr, i)
    BY <1>1, <2>7, <2>8, <2>9 DEF At, Entry
  <2>12. \A m : m = seen[a].len + 1 => Entry(m)' = Client(a) BY <1>1, <2>7, <2>8, <2>9 DEF Entry
  <2>13. \A x \in 1..Len(heap) : \A i \in 1..Len(heap[x]) : At(x, i)' = At(x, i)
    BY <2>7 DEF At
  <2>14. \A x \in 1..Len(heap) : Len(heap'[x]) = Len(heap[x]) BY <2>7
  <2>15. slice'.len = seen[a].len + 1 /\ Len(heap') >= Len(heap) BY <1>1, <1>2, <2>7, <2>8
  <2>16. \A x \in 1..Len(heap) : \A i \in 1..Len(heap[x]) :
             At(x, i)' = At(x, i) \/ At(x, i)' = Client(a)
    BY <2>13
  <2>17. Client(a) \in Clients BY <1>5
  <2>19. \A x \in 1..Len(heap) : x # slice'.arr BY <1>2, <2>8
  <2>20. \A x \in 1..Len(heap) : \A i \in 1..Len(heap[x]) :
             At(x, i)' = IF x = slice'.arr /\ i = slice'.len THEN Client(a) ELSE At(x, i)
    BY <2>13, <2>19
  <2>18. QED BY <2>7, <2>8, <2>10, <2>11, <2>12, <2>14, <2>15, <2>16, <2>17, <2>20
<1>9. QED BY <1>1, <1>7, <1>8 DEF StoreAppended

\* What the removal moves in the array: all behind the place it found.
LEMMA ShiftEffect ==
    ASSUME TypeOK, RefInv, NEW a \in Apps, Shift(a)
    PROVE  /\ heap' \in Seq(Places) /\ Len(heap') = Len(heap)
           /\ \A x \in 1..Len(heap) : Len(heap'[x]) = Len(heap[x])
           /\ \A x \in 1..Len(heap) : \A i \in 1..Len(heap[x]) :
                  At(x, i)' = IF x = seen[a].arr /\ seen[a].place <= i /\ i < seen[a].len
                              THEN At(x, i + 1) ELSE At(x, i)
<1>1. PICK s, r, cap : s = seen[a] /\ r = s.arr /\ cap = Len(heap[r]) OBVIOUS
<1>2. /\ heap \in Seq(Places) /\ Len(heap) \in Nat
      /\ r \in 1..Len(heap) /\ s.len \in Nat /\ s.len <= cap /\ s.place \in 1..s.len
  <2>1. heap \in Seq(Places) /\ seen[a] \in [arr : 1..Len(heap), len : Nat, place : Nat]
    BY DEF TypeOK, Places
  <2>2. pc[a] = "shift" BY DEF Shift
  <2>3. seen[a].len <= Len(heap[seen[a].arr]) /\ seen[a].place \in 1..seen[a].len
    BY <2>2 DEF RefInv
  <2>4. Len(heap) \in Nat BY <2>1, LenProperties
  <2>5. QED BY <1>1, <2>1, <2>3, <2>4
<1>3. heap[r] \in Places /\ cap \in Nat /\ DOMAIN heap[r] = 1..cap
  BY <1>1, <1>2, ElementOfSeq DEF Places
<1>4. \A i \in 1..cap : heap[r][i] \in Clients \cup {None}
  BY <1>1, <1>3, ElementOfSeq DEF Places
<1>5. PICK g : g = [i \in 1..cap |-> IF s.place <= i /\ i < s.len THEN heap[r][i + 1]
                                     ELSE heap[r][i]]
  OBVIOUS
<1>6. g \in [1..Len(heap[r]) -> Clients \cup {None}]
  <2>1. \A i \in 1..cap : s.place <= i /\ i < s.len => i + 1 \in 1..cap BY <1>2, <1>3
  <2>2. \A i \in 1..cap : (IF s.place <= i /\ i < s.len THEN heap[r][i + 1] ELSE heap[r][i])
                             \in Clients \cup {None}
    BY <1>4, <2>1
  <2>3. g \in [1..cap -> Clients \cup {None}] BY <1>5, <2>2
  <2>4. QED BY <1>1, <2>3
<1>7. heap' = [heap EXCEPT ![r] = g]
  BY <1>1, <1>3, <1>5 DEF Shift
<1>8. /\ heap' \in Seq(Places) /\ Len(heap') = Len(heap)
      /\ \A y \in 1..Len(heap) : heap'[y] = IF y = r THEN g ELSE heap[y]
      /\ Len(g) = cap
  <2>1. heap \in Seq(Places) /\ r \in 1..Len(heap) BY <1>2
  <2>2. QED BY <1>1, <1>6, <1>7, <2>1, HeapPut
<1>9. \A x \in 1..Len(heap) : heap[x] \in Places /\ Len(heap[x]) \in Nat
  BY <1>2, ElementOfSeq DEF Places
<1>11. \A x \in 1..Len(heap) : Len(heap'[x]) = Len(heap[x]) BY <1>1, <1>8
<1>13. \A x \in 1..Len(heap) : \A i \in 1..Len(heap[x]) :
           heap'[x][i] = IF x = r /\ s.place <= i /\ i < s.len THEN heap[x][i + 1] ELSE heap[x][i]
  BY <1>1, <1>5, <1>8
<1>14. QED BY <1>1, <1>8, <1>11, <1>13 DEF At

-----------------------------------------------------------------------------
(* Steps that leave the list alone. *)

\* Handlers go on; connections are only added, and only to apps that dial.
Moves ==
    \A a \in Apps :
        \/ pc'[a] = pc[a] /\ dials'[a] = dials[a]
        \/ pc[a] = "dial" /\ pc'[a] = "add" /\ dials'[a] = dials[a] + 1
        \/ /\ dials'[a] = dials[a]
           /\ << pc[a], pc'[a] >> \in
                  {<< "wait", "dial" >>, << "dial", "wait" >>, << "add", "wait" >>,
                   << "announce", "serve" >>, << "serve", "remove" >>, << "pause", "wait" >>}
        \/ raced /\ dials'[a] = dials[a] /\ pc[a] = "remove" /\ pc'[a] = "pause"

\* A client stays old: a connection is made before its handler adds or appends.
LEMMA OldKept ==
    ASSUME TypeOK, NEW c, Old(c),
           \A a \in Apps :
               \/ /\ dials'[a] = dials[a]
                  /\ pc'[a] \in {"add", "append"} => pc[a] \in {"add", "append"}
               \/ dials'[a] = dials[a] + 1
    PROVE  Old(c)'
<1>1. c \in Clients /\ c[1] \in Apps /\ c[2] \in Nat BY DEF Old, Clients
<1>2. dials \in [Apps -> 0..(MaxRedials + 1)] BY DEF TypeOK
<1>3. dials[c[1]] \in Nat BY <1>1, <1>2, Bounds
<1>4. QED BY <1>1, <1>3 DEF Old

LEMMA QuietKeeps ==
    ASSUME IInv, Moves, UNCHANGED << heap, slice, seen, raced >>
    PROVE  RefInv' /\ OnceInv' /\ (UNCHANGED << range, sent >> => RangeInv')
<1>1. TypeOK /\ RefInv /\ RangeInv /\ OnceInv BY DEF IInv
<1>2. dials \in [Apps -> Nat] BY <1>1, AppsAssumption DEF TypeOK
<1>3. \A a \in Apps :
          \/ /\ dials'[a] = dials[a]
             /\ pc'[a] \in {"add", "append"} => pc[a] \in {"add", "append"}
          \/ dials'[a] = dials[a] + 1
  BY DEF Moves
<1>4. \A c : Old(c) => Old(c)' BY <1>1, <1>3, OldKept
<1>5. RefInv'
  <2>1. \A i \in 1..slice.len : Old(heap[slice.arr][i])' BY <1>1, <1>4 DEF RefInv, Entry
  <2>2. \A a \in Apps : \A i \in 1..seen[a].len : Old(heap[seen[a].arr][i])'
    BY <1>1, <1>4 DEF RefInv, At
  <2>3. \A a \in Apps : (pc'[a] \in {"shift", "shorten"} => pc[a] = pc'[a])
                        /\ (pc'[a] \notin {"wait", "dial"} => dials'[a] # 0)
    BY <1>1, <1>2 DEF Moves, RefInv
  <2>4. QED BY <1>1, <2>1, <2>2, <2>3 DEF RefInv, Entry, At
<1>8. ASSUME UNCHANGED << range, sent >> PROVE RangeInv'
  <2>1. \A i \in 1..range.len : Old(heap[range.arr][i])' BY <1>1, <1>4, <1>8 DEF RangeInv, At
  <2>2. QED BY <1>1, <1>8, <2>1 DEF RangeInv, At
<1>9. Kept' = Kept /\ (~ raced => \A i \in 1..Kept : i \in 1..slice.len)
  <2>1. \A a \in Apps : pc'[a] = "shorten" <=> pc[a] = "shorten" BY DEF Moves
  <2>2. Kept' = Kept BY <2>1 DEF Kept
  <2>3. slice.len \in Nat BY <1>1 DEF TypeOK
  <2>4. QED BY <2>2, <2>3 DEF Kept
<1>6. OnceInv'
  <2>1. SUFFICES ASSUME ~ raced PROVE OnceInv' BY DEF OnceInv
  <2>2. \A a \in Apps : /\ pc'[a] \in Editing => pc[a] \in Editing /\ pc'[a] = pc[a]
                        /\ pc'[a] \in Served <=> pc[a] \in Served
                        /\ pc[a] \in Served => Client(a)' = Client(a)
    BY <2>1 DEF Moves, Editing, Served, Client
  <2>3. \A i \in 1..Kept : Entry(i)' = Entry(i) /\ Entry(i)[1] \in Apps
    BY <1>1, <1>9, <2>1 DEF Entry, RefInv, Old, Clients
  <2>4. \A a, b \in Apps : pc'[a] \in Editing /\ pc'[b] \in Editing => a = b
    BY <1>1, <2>1, <2>2 DEF OnceInv
  <2>5. \A a \in Apps : pc'[a] \in Editing => seen[a].arr = slice.arr /\ seen[a].len = slice.len
    BY <1>1, <2>1, <2>2 DEF OnceInv
  <2>6. ASSUME NEW a \in Apps, pc'[a] = "shift" PROVE Entry(seen[a].place)' = Client(a)'
    <3>1. pc[a] = "shift" /\ Client(a)' = Client(a) BY <2>2, <2>6 DEF Editing, Served
    <3>2. QED BY <1>1, <2>1, <3>1 DEF OnceInv, Entry
  <2>7. ASSUME NEW i \in 1..Kept
        PROVE  (Entry(i) = Client(Entry(i)[1]) /\ pc[Entry(i)[1]] \in Served)'
    <3>1. PICK e : e = Entry(i) OBVIOUS
    <3>2. e = Client(e[1]) /\ pc[e[1]] \in Served /\ Entry(i)' = e /\ e[1] \in Apps
      BY <1>1, <2>1, <2>3, <3>1 DEF OnceInv
    <3>3. Client(e[1])' = Client(e[1]) /\ pc'[e[1]] \in Served BY <2>2, <3>2
    <3>4. QED BY <3>2, <3>3 DEF Client
  <2>8. \A i, j \in 1..Kept : Entry(i)'[1] = Entry(j)'[1] => i = j
    BY <1>1, <2>1, <2>3 DEF OnceInv
  <2>9. \A a \in Apps : pc'[a] \in Served => \E i \in 1..Kept : Entry(i)' = Client(a)'
    BY <1>1, <2>1, <2>2, <2>3 DEF OnceInv
  <2>10. QED BY <1>9, <2>4, <2>5, <2>6, <2>7, <2>8, <2>9 DEF OnceInv
<1>7. QED BY <1>5, <1>6, <1>8

-----------------------------------------------------------------------------
(* Actions that leave the list alone. *)

\* An ID that is about to be replaced overtakes the dial.
LEMMA ReadBotIDKeeps == ASSUME IInv, NEW a \in Apps, ReadBotID(a) PROVE IInv'
<1>1. TypeOK /\ IdInv /\ NoticeInv BY DEF IInv
<1>2. /\ UNCHANGED << heap, slice, seen, raced, range, disturbed >>
      /\ pc[a] = "wait" /\ BotID # None /\ selfId' = [selfId EXCEPT ![a] = BotID]
      /\ overtaken' = (IF changing = None THEN overtaken ELSE overtaken \cup {a})
      /\ pc' = [pc EXCEPT ![a] = "dial"]
      /\ UNCHANGED << BotID, changing, changes, dials, up, sent, since, inflight, out,
                      got, timers, told >>
  BY <1>1 DEF ReadBotID, idVars, listVars, rangeVars, eventVars, noticeVars, Goto, StartOver
<1>3. TypeOK'
  BY <1>1, <1>2, AppsAssumption DEF TypeOK
<1>4. Moves BY <1>1, <1>2, AppsAssumption DEF Moves, TypeOK
<1>5. RefInv' /\ RangeInv' /\ OnceInv' BY <1>2, <1>4, QuietKeeps
<1>6. IdInv' BY <1>1, <1>2, AppsAssumption DEF IdInv, TypeOK, Client
<1>7. NoticeInv' BY <1>1, <1>2 DEF NoticeInv, TypeOK
<1>8. QED BY <1>3, <1>5, <1>6, <1>7 DEF IInv

\* The app is dialled, with the ID that was read.
LEMMA DialKeeps == ASSUME IInv, NEW a \in Apps, Dial(a) PROVE IInv'
<1>1. TypeOK /\ IdInv /\ NoticeInv BY DEF IInv
<1>2. /\ UNCHANGED << heap, slice, seen, raced, range, disturbed >>
      /\ pc[a] = "dial" /\ dials[a] <= MaxRedials /\ dials' = [dials EXCEPT ![a] = @ + 1]
      /\ up' = up \cup {<< a, dials[a] + 1 >>} /\ pc' = [pc EXCEPT ![a] = "add"]
      /\ UNCHANGED << BotID, changing, changes, overtaken, selfId, sent, since, inflight,
                      out, got, timers, told >>
  BY <1>1 DEF Dial, idVars, listVars, rangeVars, eventVars, noticeVars, Goto, StartOver
<1>3. TypeOK'
  <2>1. dials[a] \in 0..(MaxRedials + 1) BY <1>1 DEF TypeOK
  <2>2. dials[a] \in Nat /\ dials[a] + 1 \in 1..(MaxRedials + 1) BY <1>2, <2>1, Bounds
  <2>3. dials' \in [Apps -> 0..(MaxRedials + 1)] BY <1>1, <1>2, <2>2 DEF TypeOK
  <2>4. up' \subseteq Clients BY <1>1, <1>2, <2>2 DEF TypeOK, Clients
  <2>5. QED BY <1>1, <1>2, <2>3, <2>4 DEF TypeOK
<1>4. Moves BY <1>1, <1>2, AppsAssumption DEF Moves, TypeOK
<1>5. RefInv' /\ RangeInv' /\ OnceInv' BY <1>2, <1>4, QuietKeeps
<1>6. IdInv' BY <1>1, <1>2, AppsAssumption DEF IdInv, TypeOK, Client
<1>7. NoticeInv'
  <2>1. dials \in [Apps -> Nat] /\ DOMAIN pc = Apps /\ timers \subseteq Apps
    BY <1>1, Bounds DEF TypeOK
  <2>2. \A b \in Apps : \/ b = a /\ pc'[b] = "add" /\ dials'[b] = dials[b] + 1
                        \/ b # a /\ pc'[b] = pc[b] /\ dials'[b] = dials[b]
    BY <1>2, <2>1
  <2>3. QED BY <1>1, <1>2, <2>1, <2>2 DEF NoticeInv
<1>8. QED BY <1>3, <1>5, <1>6, <1>7 DEF IInv

\* Nothing was connected.
LEMMA DialFailsKeeps == ASSUME IInv, NEW a \in Apps, DialFails(a) PROVE IInv'
<1>1. TypeOK /\ IdInv /\ NoticeInv BY DEF IInv
<1>2. /\ UNCHANGED << heap, slice, seen, raced, range, disturbed >>
      /\ pc[a] = "dial"
      /\ pc' = [pc EXCEPT ![a] = "wait"] /\ selfId' = [selfId EXCEPT ![a] = None]
      /\ overtaken' = overtaken \ {a}
      /\ UNCHANGED << BotID, changing, changes, dials, up, sent, since, inflight, out,
                      got, timers, told >>
  BY <1>1 DEF DialFails, idVars, listVars, rangeVars, eventVars, noticeVars, Goto, StartOver
<1>3. TypeOK'
  BY <1>1, <1>2, AppsAssumption DEF TypeOK
<1>4. Moves BY <1>1, <1>2, AppsAssumption DEF Moves, TypeOK
<1>5. RefInv' /\ RangeInv' /\ OnceInv' BY <1>2, <1>4, QuietKeeps
<1>6. IdInv' BY <1>1, <1>2, AppsAssumption DEF IdInv, TypeOK, Client
<1>7. NoticeInv' BY <1>1, <1>2 DEF NoticeInv, TypeOK
<1>8. QED BY <1>3, <1>5, <1>6, <1>7 DEF IInv

\* The alarm of the outage is over.
LEMMA AnnounceKeeps == ASSUME IInv, NEW a \in Apps, Announce(a) PROVE IInv'
<1>1. TypeOK /\ IdInv /\ NoticeInv BY DEF IInv
<1>2. /\ UNCHANGED << heap, slice, seen, raced, range, disturbed >>
      /\ pc[a] = "announce" /\ timers' = timers \ {a} /\ told' = told \ {a}
      /\ pc' = [pc EXCEPT ![a] = "serve"]
      /\ UNCHANGED << BotID, changing, changes, overtaken, dials, selfId, up, sent,
                      since, inflight, out, got >>
  BY <1>1 DEF Announce, idVars, listVars, rangeVars, eventVars, noticeVars, Goto, StartOver
<1>3. TypeOK'
  BY <1>1, <1>2, AppsAssumption DEF TypeOK
<1>4. Moves BY <1>1, <1>2, AppsAssumption DEF Moves, TypeOK
<1>5. RefInv' /\ RangeInv' /\ OnceInv' BY <1>2, <1>4, QuietKeeps
<1>6. IdInv' BY <1>1, <1>2, AppsAssumption DEF IdInv, TypeOK, Client
<1>7. NoticeInv' BY <1>1, <1>2 DEF NoticeInv, TypeOK
<1>8. QED BY <1>3, <1>5, <1>6, <1>7 DEF IInv

\* The alarm of the outage waits.
LEMMA DisconnectKeeps == ASSUME IInv, NEW a \in Apps, Disconnect(a) PROVE IInv'
<1>1. TypeOK /\ IdInv /\ NoticeInv BY DEF IInv
<1>2. /\ UNCHANGED << heap, slice, seen, raced, range, disturbed >>
      /\ pc[a] = "serve" /\ timers' = timers \cup {a} /\ pc' = [pc EXCEPT ![a] = "remove"]
      /\ UNCHANGED << BotID, changing, changes, overtaken, dials, selfId, up, sent,
                      since, inflight, out, got, told >>
  BY <1>1 DEF Disconnect, idVars, listVars, rangeVars, eventVars, noticeVars, Goto, StartOver
<1>3. TypeOK'
  BY <1>1, <1>2, AppsAssumption DEF TypeOK
<1>4. Moves BY <1>1, <1>2, AppsAssumption DEF Moves, TypeOK
<1>5. RefInv' /\ RangeInv' /\ OnceInv' BY <1>2, <1>4, QuietKeeps
<1>6. IdInv' BY <1>1, <1>2, AppsAssumption DEF IdInv, TypeOK, Client
<1>7. NoticeInv' BY <1>1, <1>2 DEF NoticeInv, TypeOK
<1>8. QED BY <1>3, <1>5, <1>6, <1>7 DEF IInv

\* The client is gone; its handler starts over.
LEMMA CloseKeeps == ASSUME IInv, NEW a \in Apps, CloseClient(a) PROVE IInv'
<1>1. TypeOK /\ IdInv /\ NoticeInv BY DEF IInv
<1>2. /\ UNCHANGED << heap, slice, seen, raced, range, disturbed >>
      /\ pc[a] = "pause"
      /\ pc' = [pc EXCEPT ![a] = "wait"] /\ selfId' = [selfId EXCEPT ![a] = None]
      /\ overtaken' = overtaken \ {a}
      /\ got' = [got EXCEPT ![Client(a)] = [n \in 1..MaxEvents |-> 0]]
      /\ since' = [since EXCEPT ![Client(a)] = 0]
      /\ UNCHANGED << BotID, changing, changes, dials, up, sent, inflight, out, timers,
                      told >>
  BY <1>1 DEF CloseClient, idVars, listVars, rangeVars, eventVars, noticeVars, Goto, StartOver
<1>3. TypeOK'
  <2>1. got' \in [Clients -> [1..MaxEvents -> Nat]] BY <1>1, <1>2 DEF TypeOK
  <2>2. since \in [Clients -> 0..MaxEvents] /\ 0 \in 0..MaxEvents BY <1>1, Bounds DEF TypeOK
  <2>3. since' \in [Clients -> 0..MaxEvents] BY <1>2, <2>2
  <2>4. QED BY <1>1, <1>2, <2>1, <2>3 DEF TypeOK
<1>4. Moves BY <1>1, <1>2, AppsAssumption DEF Moves, TypeOK
<1>5. RefInv' /\ RangeInv' /\ OnceInv' BY <1>2, <1>4, QuietKeeps
<1>6. IdInv' BY <1>1, <1>2, AppsAssumption DEF IdInv, TypeOK, Client
<1>7. NoticeInv' BY <1>1, <1>2 DEF NoticeInv, TypeOK
<1>8. QED BY <1>3, <1>5, <1>6, <1>7 DEF IInv

\* A connection breaks.
LEMMA SocketKeeps == ASSUME IInv, NEW c \in Clients, SocketCloses(c) PROVE IInv'
<1>1. TypeOK /\ IdInv /\ NoticeInv BY DEF IInv
<1>2. /\ UNCHANGED << heap, slice, seen, raced, range, disturbed >>
      /\ up' = up \ {c}
      /\ UNCHANGED << BotID, changing, changes, overtaken, pc, dials, selfId, sent,
                      since, inflight, out, got, timers, told >>
  BY <1>1 DEF SocketCloses, idVars, listVars, rangeVars, eventVars, noticeVars, Goto, StartOver
<1>3. TypeOK'
  BY <1>1, <1>2, AppsAssumption DEF TypeOK
<1>4. Moves BY <1>1, <1>2, AppsAssumption DEF Moves, TypeOK
<1>5. RefInv' /\ RangeInv' /\ OnceInv' BY <1>2, <1>4, QuietKeeps
<1>6. IdInv' BY <1>1, <1>2, AppsAssumption DEF IdInv, TypeOK, Client
<1>7. NoticeInv' BY <1>1, <1>2 DEF NoticeInv, TypeOK
<1>8. QED BY <1>3, <1>5, <1>6, <1>7 DEF IInv

\* An alarm that waits is told.
LEMMA DueKeeps == ASSUME IInv, NEW a \in Apps, NoticeDue(a) PROVE IInv'
<1>1. TypeOK /\ IdInv /\ NoticeInv BY DEF IInv
<1>2. /\ UNCHANGED << heap, slice, seen, raced, range, disturbed >>
      /\ a \in timers /\ timers' = timers \ {a} /\ told' = told \cup {a}
      /\ UNCHANGED << BotID, changing, changes, overtaken, pc, dials, selfId, up, sent,
                      since, inflight, out, got >>
  BY <1>1 DEF NoticeDue, idVars, listVars, rangeVars, eventVars, noticeVars, Goto, StartOver
<1>3. TypeOK'
  BY <1>1, <1>2, AppsAssumption DEF TypeOK
<1>4. Moves BY <1>1, <1>2, AppsAssumption DEF Moves, TypeOK
<1>5. RefInv' /\ RangeInv' /\ OnceInv' BY <1>2, <1>4, QuietKeeps
<1>6. IdInv' BY <1>1, <1>2, AppsAssumption DEF IdInv, TypeOK, Client
<1>7. NoticeInv' BY <1>1, <1>2 DEF NoticeInv, TypeOK
<1>8. QED BY <1>3, <1>5, <1>6, <1>7 DEF IInv

\* An event is queued.
LEMMA WriteKeeps == ASSUME IInv, NEW f \in inflight, WriteMessage(f) PROVE IInv'
<1>1. TypeOK /\ IdInv /\ NoticeInv BY DEF IInv
<1>2. /\ UNCHANGED << heap, slice, seen, raced, range, disturbed >>
      /\ inflight' = inflight \ {f} /\ Len(out[f[1]]) < Depth
      /\ out' = [out EXCEPT ![f[1]] = Append(@, f[2])]
      /\ UNCHANGED << BotID, changing, changes, overtaken, pc, dials, selfId, up, sent,
                      since, got, timers, told >>
  BY <1>1 DEF WriteMessage, idVars, listVars, rangeVars, eventVars, noticeVars, Goto, StartOver
<1>3. TypeOK'
  <2>1. f[1] \in Clients /\ f[2] \in 1..MaxEvents BY <1>1 DEF TypeOK
  <2>2. /\ out \in [Clients -> Seq(1..MaxEvents)] /\ \A c \in Clients : Len(out[c]) <= Depth
        /\ inflight \subseteq Clients \X (1..MaxEvents) \X Nat
    BY <1>1 DEF TypeOK
  <2>3. PICK q : q = Append(out[f[1]], f[2]) OBVIOUS
  <2>4. q \in Seq(1..MaxEvents) /\ Len(q) = Len(out[f[1]]) + 1 BY <2>1, <2>2, <2>3, AppendProperties
  <2>5. Len(q) <= Depth
    <3>1. Len(out[f[1]]) \in Nat BY <2>1, <2>2, LenProperties
    <3>2. QED BY <1>2, <2>4, <3>1, Bounds
  <2>6. out' = [out EXCEPT ![f[1]] = q] BY <1>2, <2>3
  <2>7. out' \in [Clients -> Seq(1..MaxEvents)] BY <2>2, <2>4, <2>6
  <2>8. \A c \in Clients : Len(out'[c]) <= Depth BY <2>1, <2>2, <2>5, <2>6
  <2>9. inflight' \subseteq Clients \X (1..MaxEvents) \X Nat BY <1>2, <2>2
  <2>10. QED BY <1>1, <1>2, <2>7, <2>8, <2>9 DEF TypeOK
<1>4. Moves BY <1>1, <1>2, AppsAssumption DEF Moves, TypeOK
<1>5. RefInv' /\ RangeInv' /\ OnceInv' BY <1>2, <1>4, QuietKeeps
<1>6. IdInv' BY <1>1, <1>2, AppsAssumption DEF IdInv, TypeOK, Client
<1>7. NoticeInv' BY <1>1, <1>2 DEF NoticeInv, TypeOK
<1>8. QED BY <1>3, <1>5, <1>6, <1>7 DEF IInv

\* An event leaves the queue.
LEMMA writeLoopKeeps == ASSUME IInv, NEW c \in Clients, writeLoop(c) PROVE IInv'
<1>1. TypeOK /\ IdInv /\ NoticeInv BY DEF IInv
<1>2. /\ UNCHANGED << heap, slice, seen, raced, range, disturbed >>
      /\ out[c] # << >>
      /\ got' = [got EXCEPT ![c][Head(out[c])] = IF c \in up THEN @ + 1 ELSE @]
      /\ out' = [out EXCEPT ![c] = Tail(@)]
      /\ UNCHANGED << BotID, changing, changes, overtaken, pc, dials, selfId, up, sent,
                      since, inflight, timers, told >>
  BY <1>1 DEF writeLoop, idVars, listVars, rangeVars, eventVars, noticeVars, Goto, StartOver
<1>3. TypeOK'
  <2>1. out[c] \in Seq(1..MaxEvents) /\ out[c] # << >> BY <1>1, <1>2 DEF TypeOK
  <2>2. /\ Head(out[c]) \in 1..MaxEvents /\ Tail(out[c]) \in Seq(1..MaxEvents)
        /\ Len(Tail(out[c])) = Len(out[c]) - 1 /\ Len(out[c]) \in Nat
    BY <2>1, HeadTailProperties, LenProperties
  <2>3. got[c] \in [1..MaxEvents -> Nat] BY <1>1 DEF TypeOK
  <2>4. PICK h, v, g : /\ h = Head(out[c]) /\ v = (IF c \in up THEN got[c][h] + 1 ELSE got[c][h])
                       /\ g = [got[c] EXCEPT ![h] = v]
    OBVIOUS
  <2>5. h \in 1..MaxEvents BY <2>2, <2>4
  <2>6. got[c][h] \in Nat BY <2>3, <2>5
  <2>7. h \in 1..MaxEvents /\ v \in Nat BY <2>4, <2>5, <2>6
  <2>8. g \in [1..MaxEvents -> Nat] BY <2>3, <2>4, <2>7
  <2>9. got' = [got EXCEPT ![c] = g] BY <1>2, <2>4
  <2>10. got' \in [Clients -> [1..MaxEvents -> Nat]] BY <1>1, <2>8, <2>9 DEF TypeOK
  <2>11. out' \in [Clients -> Seq(1..MaxEvents)] BY <1>1, <1>2, <2>2 DEF TypeOK
  <2>12. \A d \in Clients : Len(out'[d]) <= Depth BY <1>1, <1>2, <2>2, AppsAssumption DEF TypeOK
  <2>13. QED BY <1>1, <1>2, <2>10, <2>11, <2>12 DEF TypeOK
<1>4. Moves BY <1>1, <1>2, AppsAssumption DEF Moves, TypeOK
<1>5. RefInv' /\ RangeInv' /\ OnceInv' BY <1>2, <1>4, QuietKeeps
<1>6. IdInv' BY <1>1, <1>2, AppsAssumption DEF IdInv, TypeOK, Client
<1>7. NoticeInv' BY <1>1, <1>2 DEF NoticeInv, TypeOK
<1>8. QED BY <1>3, <1>5, <1>6, <1>7 DEF IInv

\* The new ID is in force.
LEMMA StoreIDKeeps == ASSUME IInv, StoreBotID PROVE IInv'
<1>1. TypeOK /\ IdInv /\ NoticeInv BY DEF IInv
<1>2. /\ UNCHANGED << heap, slice, seen, raced, range, disturbed >>
      /\ changing # None /\ BotID' = changing /\ changing' = None
      /\ UNCHANGED << changes, overtaken, pc, dials, selfId, up, sent, since, inflight,
                      out, got, timers, told >>
  BY <1>1 DEF StoreBotID, idVars, listVars, rangeVars, eventVars, noticeVars, Goto, StartOver
<1>3. TypeOK'
  BY <1>1, <1>2, AppsAssumption DEF TypeOK
<1>4. Moves BY <1>1, <1>2, AppsAssumption DEF Moves, TypeOK
<1>5. RefInv' /\ RangeInv' /\ OnceInv' BY <1>2, <1>4, QuietKeeps
<1>6. IdInv' BY <1>1, <1>2, AppsAssumption DEF IdInv, TypeOK, Client
<1>7. NoticeInv' BY <1>1, <1>2 DEF NoticeInv, TypeOK
<1>8. QED BY <1>3, <1>5, <1>6, <1>7 DEF IInv

\* Nothing happens.
LEMMA StutterKeeps == ASSUME IInv, UNCHANGED vars PROVE IInv'
<1>1. TypeOK /\ IdInv /\ NoticeInv BY DEF IInv
<1>2. /\ UNCHANGED << heap, slice, seen, raced, range, disturbed >>
      /\ UNCHANGED << BotID, changing, changes, overtaken, pc, dials, selfId, up, sent,
                      since, inflight, out, got,
                      timers, told >>
  BY <1>1 DEF vars, idVars, listVars, rangeVars, eventVars, noticeVars, Goto, StartOver
<1>3. TypeOK'
  BY <1>1, <1>2, AppsAssumption DEF TypeOK
<1>4. Moves BY <1>1, <1>2, AppsAssumption DEF Moves, TypeOK
<1>5. RefInv' /\ RangeInv' /\ OnceInv' BY <1>2, <1>4, QuietKeeps
<1>6. IdInv' BY <1>1, <1>2, AppsAssumption DEF IdInv, TypeOK, Client
<1>7. NoticeInv' BY <1>1, <1>2 DEF NoticeInv, TypeOK
<1>8. QED BY <1>3, <1>5, <1>6, <1>7 DEF IInv

-----------------------------------------------------------------------------
(* A handler reads the list. *)

\* A slice is read as it is; unless another handler has one in its hands, the edits
\* do not overlap.
LEMMA ReadKeeps ==
    ASSUME IInv, NEW a \in Apps, NEW place \in Nat, Read(a, place),
           UNCHANGED << dials, range, sent >>,
           \/ pc[a] = "add" /\ place = 0 /\ pc' = [pc EXCEPT ![a] = "append"]
           \/ /\ pc[a] = "remove" /\ pc' = [pc EXCEPT ![a] = "shift"]
              /\ place \in 1..slice.len /\ Entry(place)[1] = a
    PROVE  /\ seen' \in [Apps -> [arr : 1..Len(heap), len : Nat, place : Nat]]
           /\ raced' \in BOOLEAN
           /\ RefInv' /\ RangeInv' /\ OnceInv'
<1>1. TypeOK /\ RefInv /\ RangeInv /\ OnceInv BY DEF IInv
<1>2. PICK s : s = [arr |-> slice.arr, len |-> slice.len, place |-> place] OBVIOUS
<1>3. /\ seen' = [seen EXCEPT ![a] = s] /\ UNCHANGED << heap, slice >>
      /\ raced' = (raced \/ \E b \in Apps \ {a} : pc[b] \in {"append", "shift", "shorten"})
  BY <1>2 DEF Read
<1>4. /\ slice.arr \in 1..Len(heap) /\ slice.len \in Nat /\ slice.len <= Len(heap[slice.arr])
      /\ seen \in [Apps -> [arr : 1..Len(heap), len : Nat, place : Nat]]
      /\ DOMAIN pc = Apps
  BY <1>1 DEF TypeOK
<1>5. s \in [arr : 1..Len(heap), len : Nat, place : Nat] /\ s.arr = slice.arr /\ s.len = slice.len
      /\ s.place = place
  BY <1>2, <1>4
<1>6. seen' \in [Apps -> [arr : 1..Len(heap), len : Nat, place : Nat]] BY <1>3, <1>4, <1>5
<1>7. raced' \in BOOLEAN BY <1>1, <1>3 DEF TypeOK
<1>8. /\ seen'[a] = s /\ \A b \in Apps \ {a} : seen'[b] = seen[b] /\ pc'[b] = pc[b]
      /\ \/ pc[a] = "add" /\ pc'[a] = "append"
         \/ /\ pc[a] = "remove" /\ pc'[a] = "shift"
            /\ place \in 1..slice.len /\ Entry(place)[1] = a
  <2>1. seen'[a] = s /\ \A b \in Apps \ {a} : seen'[b] = seen[b] BY <1>3, <1>4
  <2>4. pc' = [pc EXCEPT ![a] = "append"] \/ pc' = [pc EXCEPT ![a] = "shift"] OBVIOUS
  <2>2. \A b \in Apps \ {a} : pc'[b] = pc[b] BY <1>4, <2>4
  <2>3. \/ pc[a] = "add" /\ pc'[a] = "append"
        \/ /\ pc[a] = "remove" /\ pc'[a] = "shift"
           /\ place \in 1..slice.len /\ Entry(place)[1] = a
    BY <1>4
  <2>5. QED BY <2>1, <2>2, <2>3
<1>9. \A c : Old(c) => Old(c)' BY <1>1, <1>8, OldKept
<1>10. RefInv'
  <2>1. \A i \in 1..slice.len : \A c : c = heap[slice.arr][i] => Old(c)'
    BY <1>1, <1>9 DEF RefInv, Entry
  <2>2. \A b \in Apps \ {a} : \A i \in 1..seen[b].len : \A c : c = heap[seen[b].arr][i] => Old(c)'
    BY <1>1, <1>9 DEF RefInv, At
  <2>3. \A b \in Apps : /\ seen'[b].len <= Len(heap[seen'[b].arr])
                        /\ \A i \in 1..seen'[b].len : \A c : c = heap[seen'[b].arr][i] => Old(c)'
    <3>1. /\ seen'[a].len <= Len(heap[seen'[a].arr])
          /\ \A i \in 1..seen'[a].len : \A c : c = heap[seen'[a].arr][i] => Old(c)'
      BY <1>4, <1>5, <1>8, <2>1
    <3>2. \A b \in Apps \ {a} : seen'[b].len <= Len(heap[seen'[b].arr]) BY <1>1, <1>8 DEF RefInv
    <3>3. \A b \in Apps \ {a} : \A i \in 1..seen'[b].len : \A c : c = heap[seen'[b].arr][i] => Old(c)'
      BY <1>8, <2>2
    <3>4. QED BY <3>1, <3>2, <3>3
  <2>4. \A b \in Apps : /\ pc'[b] \in {"shift", "shorten"} => seen'[b].place \in 1..seen'[b].len
                        /\ pc'[b] \notin {"wait", "dial"} => dials[b] # 0
    BY <1>1, <1>5, <1>8 DEF RefInv
  <2>5. QED BY <1>3, <2>1, <2>3, <2>4 DEF RefInv, Entry, At
<1>13. RangeInv'
  <2>1. \A i \in 1..range.len : \A c : c = heap[range.arr][i] => Old(c)'
    BY <1>1, <1>9 DEF RangeInv, At
  <2>2. QED BY <1>1, <1>3, <2>1 DEF RangeInv, At
<1>11. OnceInv'
  <2>1. SUFFICES ASSUME ~ raced' PROVE OnceInv' BY DEF OnceInv
  <2>2. ~ raced /\ \A b \in Apps \ {a} : pc[b] \notin Editing BY <1>3, <2>1 DEF Editing
  <2>11. /\ \A b \in Apps : pc[b] # "shorten" /\ pc'[b] # "shorten"
         /\ Kept = slice.len /\ Kept' = slice.len
    <3>1. \A b \in Apps : pc[b] # "shorten" /\ pc'[b] # "shorten" BY <1>8, <2>2 DEF Editing
    <3>2. QED BY <1>3, <3>1 DEF Kept
  <2>3. \A b \in Apps : /\ pc'[b] \in Editing => b = a
                        /\ pc'[b] \in Served <=> pc[b] \in Served
                        /\ Client(b)' = Client(b)
    BY <1>8, <2>2 DEF Served, Client
  <2>4. \A i \in 1..slice.len : Entry(i)' = Entry(i) /\ Entry(i)[1] \in Apps
    BY <1>1, <1>3 DEF Entry, RefInv, Old, Clients
  <2>5. \A b \in Apps : pc'[b] \in Editing => seen'[b].arr = slice.arr /\ seen'[b].len = slice.len
    BY <1>5, <1>8, <2>3
  <2>6. ASSUME NEW b \in Apps, pc'[b] = "shift" PROVE Entry(seen[b].place)' = Client(b)'
    <3>1. b = a BY <2>3, <2>6 DEF Editing
    <3>2. place \in 1..slice.len /\ Entry(place)[1] = a BY <1>8, <2>6, <3>1
    <3>3. Entry(place) = Client(a) BY <1>1, <2>2, <2>11, <3>2 DEF OnceInv
    <3>4. seen'[b].place = place BY <1>5, <1>8, <3>1
    <3>5. heap[slice.arr][place] = Client(a) BY <3>3 DEF Entry
    <3>6. Client(b)' = Client(a) BY <2>3, <3>1
    <3>7. QED BY <1>3, <3>4, <3>5, <3>6 DEF Entry
  <2>7. ASSUME NEW i \in 1..slice.len
        PROVE  (Entry(i) = Client(Entry(i)[1]) /\ pc[Entry(i)[1]] \in Served)'
    <3>1. PICK e : e = Entry(i) OBVIOUS
    <3>2. e = Client(e[1]) /\ pc[e[1]] \in Served /\ Entry(i)' = e /\ e[1] \in Apps
      BY <1>1, <2>2, <2>4, <2>11, <3>1 DEF OnceInv
    <3>3. Client(e[1])' = Client(e[1]) /\ pc'[e[1]] \in Served BY <2>3, <3>2
    <3>4. QED BY <3>2, <3>3 DEF Client
  <2>8. \A i, j \in 1..slice.len : Entry(i)'[1] = Entry(j)'[1] => i = j
    BY <1>1, <2>2, <2>4, <2>11 DEF OnceInv
  <2>9. \A b \in Apps : pc'[b] \in Served => \E i \in 1..slice.len : Entry(i)' = Client(b)'
    BY <1>1, <2>2, <2>3, <2>4, <2>11 DEF OnceInv
  <2>10. QED BY <1>3, <2>11, <2>3, <2>5, <2>6, <2>7, <2>8, <2>9 DEF OnceInv
<1>12. QED BY <1>6, <1>7, <1>10, <1>11, <1>13

\* The client is to be appended, or another one of that app refuses it: then the
\* outage was told of already, or is about to be.
LEMMA AddKeeps == ASSUME IInv, NEW a \in Apps, AddWsClient(a) PROVE IInv'
<1>1. TypeOK /\ RefInv /\ IdInv /\ NoticeInv BY DEF IInv
<1>2. /\ pc[a] = "add"
      /\ UNCHANGED << heap, slice, range, disturbed, dials, BotID, changing, changes, sent, since,
                      inflight, out, got,
                      timers, told >>
  BY DEF AddWsClient, idVars, listVars, rangeVars, eventVars, noticeVars, Read, StartOver
<1>3. CASE PlacesOf(a) = {}
  <2>1. /\ Read(a, 0) /\ pc' = [pc EXCEPT ![a] = "append"]
        /\ UNCHANGED << overtaken, selfId, up >>
    BY <1>3 DEF AddWsClient, idVars, Goto
  <2>2. /\ seen' \in [Apps -> [arr : 1..Len(heap), len : Nat, place : Nat]]
        /\ raced' \in BOOLEAN /\ RefInv' /\ RangeInv' /\ OnceInv'
    BY <1>2, <2>1, ReadKeeps
  <2>3. TypeOK' BY <1>1, <1>2, <2>1, <2>2 DEF TypeOK
  <2>4. raced => raced' BY <2>1 DEF Read
  <2>5. IdInv' BY <1>1, <1>2, <2>1, <2>4 DEF IdInv, TypeOK, Client
  <2>6. NoticeInv' BY <1>1, <1>2, <2>1 DEF NoticeInv, TypeOK
  <2>7. QED BY <2>2, <2>3, <2>5, <2>6 DEF IInv
<1>4. CASE PlacesOf(a) # {}
  <2>1. /\ UNCHANGED << heap, slice, seen, raced >> /\ up' = up \ {Client(a)}
        /\ pc' = [pc EXCEPT ![a] = "wait"] /\ selfId' = [selfId EXCEPT ![a] = None]
        /\ overtaken' = overtaken \ {a}
    BY <1>4 DEF AddWsClient, StartOver, Goto, listVars
  <2>2. Moves BY <1>1, <1>2, <2>1 DEF Moves, TypeOK
  <2>3. RefInv' /\ RangeInv' /\ OnceInv' BY <1>2, <2>1, <2>2, QuietKeeps
  <2>4. TypeOK' BY <1>1, <1>2, <2>1, AppsAssumption DEF TypeOK
  <2>5. IdInv' BY <1>1, <1>2, <2>1 DEF IdInv, TypeOK, Client
  <2>6. dials[a] # 0 BY <1>1, <1>2 DEF RefInv
  <2>7. dials[a] # 1
    <3>1. PICK i \in 1..slice.len : Entry(i)[1] = a BY <1>1, <1>4, ListedFacts
    <3>2. PICK c : c = Entry(i) OBVIOUS
    <3>3. c \in Clients /\ c[1] = a /\ c[2] <= dials[a] /\ c[2] # dials[a]
      BY <1>1, <1>2, <3>1, <3>2 DEF RefInv, Old
    <3>4. c[2] \in Nat /\ c[2] >= 1 BY <3>3, Bounds DEF Clients
    <3>5. QED BY <3>3, <3>4
  <2>8. NoticeInv'
    <3>1. DOMAIN pc = Apps /\ timers \subseteq Apps BY <1>1 DEF TypeOK
    <3>2. pc'[a] = "wait" /\ \A b \in Apps \ {a} : pc'[b] = pc[b] BY <2>1, <3>1
    <3>3. a \in timers \cup told BY <1>1, <1>2, <2>6, <2>7 DEF NoticeInv
    <3>4. timers' = timers /\ told' = told /\ dials' = dials BY <1>2
    <3>5. \A b \in timers' : pc'[b] # "serve" BY <1>1, <3>1, <3>2, <3>4 DEF NoticeInv
    <3>6. ASSUME NEW b \in Apps
          PROVE  \/ b \in timers \cup told
                 \/ pc'[b] \in {"announce", "serve"}
                 \/ dials[b] = 0
                 \/ dials[b] = 1 /\ pc'[b] \in {"add", "append"}
      <4>1. \/ b \in timers \cup told
            \/ pc[b] \in {"announce", "serve"}
            \/ dials[b] = 0
            \/ dials[b] = 1 /\ pc[b] \in {"add", "append"}
        BY <1>1 DEF NoticeInv
      <4>2. CASE b = a BY <3>3, <4>2
      <4>3. CASE b # a BY <3>2, <4>1, <4>3
      <4>4. QED BY <4>2, <4>3
    <3>7. QED BY ONLY <3>4, <3>5, <3>6 DEF NoticeInv
  <2>9. QED BY <2>3, <2>4, <2>5, <2>8 DEF IInv
<1>5. QED BY <1>3, <1>4

\* The client is found; only after a race it may be missing.
LEMMA RemoveKeeps == ASSUME IInv, NEW a \in Apps, RemoveWsClient(a) PROVE IInv'
<1>1. TypeOK /\ OnceInv /\ IdInv /\ NoticeInv BY DEF IInv
<1>2. /\ pc[a] = "remove"
      /\ UNCHANGED << heap, slice, range, disturbed, dials, BotID, changing, changes, overtaken, selfId,
                      up, sent, since,
                      inflight, out, got, timers, told >>
  BY DEF RemoveWsClient, idVars, listVars, rangeVars, eventVars, noticeVars, Read
<1>3. CASE PlacesOf(a) # {}
  <2>1. PICK i \in PlacesOf(a) : Read(a, i) /\ pc' = [pc EXCEPT ![a] = "shift"]
    BY <1>3 DEF RemoveWsClient, Goto
  <2>2. i \in 1..slice.len /\ i \in Nat /\ Entry(i)[1] = a BY <1>1, <2>1, ListedFacts
  <2>3. /\ seen' \in [Apps -> [arr : 1..Len(heap), len : Nat, place : Nat]]
        /\ raced' \in BOOLEAN /\ RefInv' /\ RangeInv' /\ OnceInv'
    BY <1>2, <2>1, <2>2, ReadKeeps
  <2>4. TypeOK' BY <1>1, <1>2, <2>1, <2>3 DEF TypeOK
  <2>5. raced => raced' BY <2>1 DEF Read
  <2>6. IdInv' BY <1>1, <1>2, <2>1, <2>5 DEF IdInv, TypeOK, Client
  <2>7. NoticeInv' BY <1>1, <1>2, <2>1 DEF NoticeInv, TypeOK
  <2>8. QED BY <2>3, <2>4, <2>6, <2>7 DEF IInv
<1>4. CASE PlacesOf(a) = {}
  <2>1. UNCHANGED << heap, slice, seen, raced >> /\ pc' = [pc EXCEPT ![a] = "pause"]
    BY <1>4 DEF RemoveWsClient, Goto, listVars
  <2>2. raced
    <3>1. SUFFICES ASSUME ~ raced PROVE FALSE OBVIOUS
    <3>2. PICK i \in 1..slice.len : Entry(i) = Client(a)
      <4>1. PICK i \in 1..Kept : Entry(i) = Client(a) BY <1>1, <1>2, <3>1 DEF OnceInv, Served
      <4>2. slice.len \in Nat BY <1>1 DEF TypeOK
      <4>3. i \in 1..slice.len BY <4>2 DEF Kept
      <4>4. QED BY <4>1, <4>3
    <3>3. Entry(i)[1] = a BY <3>2 DEF Client
    <3>4. QED BY <1>1, <1>4, <3>3, ListedFacts
  <2>3. Moves BY <1>1, <1>2, <2>1, <2>2 DEF Moves, TypeOK
  <2>4. RefInv' /\ RangeInv' /\ OnceInv' BY <1>2, <2>1, <2>3, QuietKeeps
  <2>5. TypeOK' BY <1>1, <1>2, <2>1 DEF TypeOK
  <2>6. IdInv' BY <1>1, <1>2, <2>1 DEF IdInv, TypeOK, Client
  <2>7. NoticeInv' BY <1>1, <1>2, <2>1 DEF NoticeInv, TypeOK
  <2>8. QED BY <2>4, <2>5, <2>6, <2>7 DEF IInv
<1>5. QED BY <1>3, <1>4

\* The client is in the list; slices in the hands of others show old clients still.
LEMMA AppendKeeps == ASSUME IInv, NEW a \in Apps, StoreAppended(a) PROVE IInv'
<1>1. TypeOK /\ RefInv /\ RangeInv /\ OnceInv /\ IdInv /\ NoticeInv BY DEF IInv
<1>2. PICK k : k = Client(a) OBVIOUS
<1>3. /\ pc[a] = "append" /\ pc' = [pc EXCEPT ![a] = "announce"]
      /\ since' = [since EXCEPT ![k] = sent] /\ seen' = [seen EXCEPT ![a] = Nothing]
      /\ UNCHANGED << BotID, changing, changes, overtaken, dials, selfId, up, raced,
                      range, sent, inflight,
                      out, got, timers, told >>
      /\ \/ disturbed' = disturbed
         \/ /\ Reach(seen[a].arr, seen[a].len + 1)
            /\ disturbed' = disturbed \cup {<< k, sent >>}
  <2>1. /\ pc[a] = "append" /\ pc' = [pc EXCEPT ![a] = "announce"]
        /\ since' = [since EXCEPT ![k] = sent] /\ seen' = [seen EXCEPT ![a] = Nothing]
        /\ UNCHANGED << BotID, changing, changes, overtaken, dials, selfId, up, raced,
                        range, sent, inflight,
                        out, got, timers, told >>
    BY <1>2 DEF StoreAppended, idVars, noticeVars, Goto
  <2>2. \/ disturbed' = disturbed
        \/ disturbed' = IF Reach(seen[a].arr, seen[a].len + 1)
                        THEN disturbed \cup {<< k, sent >>} ELSE disturbed
    BY <1>2 DEF StoreAppended
  <2>3. QED BY <2>1, <2>2
<1>4. /\ heap' \in Seq(Places) /\ Len(heap') >= Len(heap)
      /\ slice' \in [arr : 1..Len(heap'), len : Nat]
      /\ slice'.len = seen[a].len + 1 /\ slice'.len <= Len(heap'[slice'.arr])
      /\ \A x \in 1..Len(heap) : Len(heap'[x]) = Len(heap[x])
      /\ \A x \in 1..Len(heap) : \A i \in 1..Len(heap[x]) :
             heap'[x][i] = heap[x][i] \/ heap'[x][i] = k
      /\ \A i \in 1..seen[a].len : heap'[slice'.arr][i] = heap[seen[a].arr][i]
      /\ heap'[slice'.arr][seen[a].len + 1] = k
      /\ k \in Clients
  <2>1. \A m : m = seen[a].len + 1 => heap'[slice'.arr][m] = k BY <1>1, <1>2, AppendEffect DEF Entry
  <2>2. heap'[slice'.arr][seen[a].len + 1] = k BY <2>1
  <2>3. QED BY <1>1, <1>2, <2>2, AppendEffect DEF Entry, At
<1>5. /\ heap \in Seq(Places) /\ Len(heap) \in Nat /\ Len(heap') \in Nat /\ slice.arr \in 1..Len(heap)
      /\ slice.len \in Nat /\ slice.len <= Len(heap[slice.arr])
      /\ seen \in [Apps -> [arr : 1..Len(heap), len : Nat, place : Nat]]
      /\ range \in [arr : 1..Len(heap), len : Nat, next : Nat \ {0}]
      /\ DOMAIN pc = Apps
  <2>1. /\ heap \in Seq(Places) /\ slice.arr \in 1..Len(heap) /\ slice.len \in Nat
        /\ slice.len <= Len(heap[slice.arr])
        /\ seen \in [Apps -> [arr : 1..Len(heap), len : Nat, place : Nat]]
        /\ range \in [arr : 1..Len(heap), len : Nat, next : Nat \ {0}]
        /\ DOMAIN pc = Apps
    BY <1>1 DEF TypeOK, Places
  <2>2. Len(heap) \in Nat /\ Len(heap') \in Nat BY <1>4, <2>1, LenProperties
  <2>3. QED BY <2>1, <2>2
<1>6. /\ seen'[a] = Nothing /\ pc'[a] = "announce"
      /\ \A b \in Apps \ {a} : seen'[b] = seen[b] /\ pc'[b] = pc[b]
  BY <1>3, <1>5
<1>7. TypeOK'
  <2>1. 1..Len(heap) \subseteq 1..Len(heap') /\ 1 \in 1..Len(heap) BY <1>4, <1>5
  <2>2. Nothing \in [arr : 1..Len(heap'), len : Nat, place : Nat] BY <2>1 DEF Nothing
  <2>3. seen \in [Apps -> [arr : 1..Len(heap'), len : Nat, place : Nat]] BY <1>5, <2>1
  <2>4. seen' \in [Apps -> [arr : 1..Len(heap'), len : Nat, place : Nat]] BY <1>3, <2>2, <2>3
  <2>5. since' \in [Clients -> 0..MaxEvents] BY <1>1, <1>3 DEF TypeOK
  <2>7. range' \in [arr : 1..Len(heap'), len : Nat, next : Nat \ {0}] BY <1>3, <1>5, <2>1
  <2>8. disturbed' \subseteq Clients \X (1..MaxEvents)
    <3>1. disturbed \subseteq Clients \X (1..MaxEvents) /\ sent \in 0..MaxEvents BY <1>1 DEF TypeOK
    <3>2. Reach(seen[a].arr, seen[a].len + 1) => sent # 0
      BY <1>1, <1>5 DEF RangeInv, Reach, NoRange
    <3>3. QED BY <1>3, <1>4, <3>1, <3>2, Bounds
  <2>6. QED BY <1>1, <1>3, <1>4, <2>4, <2>5, <2>7, <2>8 DEF TypeOK, Places
<1>8. \A c : Old(c) => Old(c)' BY <1>1, <1>3, <1>6, OldKept
<1>9. \A c : c = k => Old(c)'
  <2>1. k = << a, dials[a] >> BY <1>2 DEF Client
  <2>2. k[1] = a /\ k[2] = dials[a] /\ k[2] <= dials[a] BY <1>1, <2>1, Bounds DEF TypeOK
  <2>3. QED BY <1>3, <1>4, <1>6, <2>2 DEF Old
<1>10. RefInv'
  <2>1. \A i \in 1..seen[a].len : \A c : c = heap[seen[a].arr][i] => Old(c)'
    BY <1>1, <1>8 DEF RefInv, At
  <2>2. \A i \in 1..slice'.len : \A c : c = heap'[slice'.arr][i] => Old(c)'
    <3>1. SUFFICES ASSUME NEW i \in 1..slice'.len, NEW c, c = heap'[slice'.arr][i] PROVE Old(c)'
      OBVIOUS
    <3>2. seen[a].len \in Nat BY <1>5
    <3>3. i \in 1..seen[a].len \/ i = seen[a].len + 1 BY <1>4, <3>2
    <3>4. CASE i \in 1..seen[a].len BY <1>4, <2>1, <3>1, <3>4
    <3>5. CASE i = seen[a].len + 1 BY <1>4, <1>9, <3>1, <3>5
    <3>6. QED BY <3>3, <3>4, <3>5
  <2>3. \A b \in Apps \ {a} : \A i \in 1..seen[b].len : \A c : c = heap'[seen[b].arr][i] => Old(c)'
    <3>1. SUFFICES ASSUME NEW b \in Apps \ {a}, NEW i \in 1..seen[b].len, NEW c,
                          c = heap'[seen[b].arr][i]
                   PROVE  Old(c)'
      OBVIOUS
    <3>2. PICK x : x = seen[b].arr OBVIOUS
    <3>3. x \in 1..Len(heap) /\ seen[b].len \in Nat BY <1>5, <3>2
    <3>4. heap[x] \in Places BY <1>5, <3>3, ElementOfSeq
    <3>5. seen[b].len <= Len(heap[x]) BY <1>1, <3>2 DEF RefInv
    <3>6. i \in 1..Len(heap[x]) BY <3>3, <3>4, <3>5 DEF Places
    <3>7. Old(heap[x][i]) BY <1>1, <3>2 DEF RefInv, At
    <3>8. c = heap[x][i] \/ c = k BY <1>4, <3>1, <3>2, <3>3, <3>6
    <3>9. QED BY <1>8, <1>9, <3>7, <3>8
  <2>4. \A b \in Apps \ {a} : seen[b].len <= Len(heap'[seen[b].arr])
    BY <1>1, <1>4, <1>5 DEF RefInv
  <2>5. seen'[a].arr = 1 /\ seen'[a].len = 0 BY <1>6 DEF Nothing
  <2>6. 0 <= Len(heap'[1])
    <3>1. 1 \in 1..Len(heap') BY <1>4, <1>5
    <3>2. heap'[1] \in Places BY <1>4, <3>1, ElementOfSeq
    <3>3. QED BY <3>2 DEF Places
  <2>7. \A b \in Apps : \A i \in 1..seen'[b].len : \A c : c = heap'[seen'[b].arr][i] => Old(c)'
    <3>1. \A i \in 1..seen'[a].len : FALSE BY <2>5
    <3>2. QED BY <1>6, <2>3, <3>1
  <2>8. \A b \in Apps : seen'[b].len <= Len(heap'[seen'[b].arr]) BY <1>6, <2>4, <2>5, <2>6
  <2>9. \A b \in Apps : /\ pc'[b] \in {"shift", "shorten"} => seen'[b].place \in 1..seen'[b].len
                        /\ pc'[b] \notin {"wait", "dial"} => dials'[b] # 0
    BY <1>1, <1>3, <1>6 DEF RefInv
  <2>10. QED BY <2>2, <2>7, <2>8, <2>9 DEF RefInv, Entry, At
<1>15. RangeInv'
  <2>1. PICK x : x = range.arr OBVIOUS
  <2>2. /\ x \in 1..Len(heap) /\ heap[x] \in Places /\ range.len \in Nat /\ range.len <= Len(heap[x])
        /\ \A i \in 1..range.len : Old(heap[x][i])
    <3>1. x \in 1..Len(heap) /\ range.len \in Nat BY <1>5, <2>1
    <3>2. heap[x] \in Places BY <1>5, <3>1, ElementOfSeq
    <3>3. range.len <= Len(heap[x]) /\ \A i \in 1..range.len : Old(heap[x][i])
      BY <1>1, <2>1 DEF RangeInv, At
    <3>4. QED BY <3>1, <3>2, <3>3
  <2>3. Len(heap[x]) \in Nat BY <2>2 DEF Places
  <2>4. \A i \in 1..range.len : i \in 1..Len(heap[x]) BY <2>2, <2>3
  <2>5. \A i \in 1..range.len : \A c : c = heap'[x][i] => c = heap[x][i] \/ c = k
    BY <1>4, <2>2, <2>4
  <2>6. \A i \in 1..range.len : \A c : c = heap'[x][i] => Old(c)'
    BY <1>8, <1>9, <2>2, <2>5
  <2>7. range.len <= Len(heap'[x]) BY <1>4, <2>2
  <2>8. range # NoRange => range.next <= range.len /\ sent # 0 BY <1>1 DEF RangeInv
  <2>9. QED BY <1>3, <2>1, <2>6, <2>7, <2>8 DEF RangeInv, At
<1>11. OnceInv'
  <2>1. SUFFICES ASSUME ~ raced PROVE OnceInv' BY <1>3 DEF OnceInv
  <2>2. seen[a].arr = slice.arr /\ seen[a].len = slice.len BY <1>1, <1>3, <2>1 DEF OnceInv, Editing
  <2>3. \A b \in Apps : pc'[b] \notin Editing BY <1>1, <1>3, <1>6, <2>1 DEF OnceInv, Editing
  <2>16. Kept = slice.len /\ Kept' = slice'.len
    <3>1. \A b \in Apps : pc[b] # "shorten" /\ pc'[b] # "shorten"
      BY <1>1, <1>3, <2>1, <2>3 DEF OnceInv, Editing
    <3>2. QED BY <3>1 DEF Kept
  <2>4. \A i \in 1..slice.len : Entry(i)' = Entry(i) BY <1>4, <2>2 DEF Entry
  <2>5. \A m : m = slice.len + 1 => Entry(m)' = k BY <1>4, <2>2 DEF Entry
  <2>6. slice'.len = slice.len + 1 BY <1>4, <2>2
  <2>7. \A i \in 1..slice'.len : i \in 1..slice.len \/ i = slice.len + 1 BY <1>5, <2>6
  <2>8. \A i \in 1..slice.len : /\ Entry(i)[1] \in Apps \ {a} /\ Entry(i) = Client(Entry(i)[1])
                                /\ pc[Entry(i)[1]] \in Served
    <3>1. \A i \in 1..slice.len : Entry(i)[1] \in Apps BY <1>1 DEF RefInv, Old, Clients
    <3>2. \A i \in 1..slice.len : /\ Entry(i) = Client(Entry(i)[1])
                                  /\ pc[Entry(i)[1]] \in Served
      BY <1>1, <2>1, <2>16 DEF OnceInv
    <3>3. pc[a] \notin Served BY <1>3 DEF Served
    <3>4. QED BY <3>1, <3>2, <3>3
  <2>9. k = Client(a) /\ k[1] = a /\ \A b : Client(b)' = Client(b)
    BY <1>2, <1>3 DEF Client
  <2>10. ASSUME NEW i \in 1..slice'.len
         PROVE  (Entry(i) = Client(Entry(i)[1]) /\ pc[Entry(i)[1]] \in Served)'
    <3>1. CASE i \in 1..slice.len
      <4>1. PICK e : e = Entry(i) OBVIOUS
      <4>2. e[1] \in Apps \ {a} /\ e = Client(e[1]) /\ pc[e[1]] \in Served /\ Entry(i)' = e
        BY <2>4, <2>8, <3>1, <4>1
      <4>3. Client(e[1])' = e /\ pc'[e[1]] \in Served BY <1>6, <2>9, <4>2
      <4>4. QED BY <4>2, <4>3 DEF Client
    <3>2. CASE i = slice.len + 1
      <4>1. Entry(i)' = k BY <2>5, <3>2
      <4>2. pc'[a] \in Served BY <1>6 DEF Served
      <4>3. Client(a)' = k BY <2>9
      <4>4. QED BY <2>9, <4>1, <4>2, <4>3 DEF Client
    <3>3. QED BY <2>7, <3>1, <3>2
  <2>11. ASSUME NEW i \in 1..slice'.len, NEW j \in 1..slice'.len, Entry(i)'[1] = Entry(j)'[1]
         PROVE  i = j
    <3>1. CASE i \in 1..slice.len /\ j \in 1..slice.len
      BY <1>1, <2>1, <2>4, <2>11, <2>16, <3>1 DEF OnceInv
    <3>2. CASE i \in 1..slice.len /\ j = slice.len + 1
      <4>1. Entry(i)' = Entry(i) /\ Entry(i)[1] # a BY <2>4, <2>8, <3>2
      <4>2. Entry(j)' = k BY <2>5, <3>2
      <4>3. QED BY <2>9, <2>11, <4>1, <4>2
    <3>3. CASE j \in 1..slice.len /\ i = slice.len + 1
      <4>1. Entry(j)' = Entry(j) /\ Entry(j)[1] # a BY <2>4, <2>8, <3>3
      <4>2. Entry(i)' = k BY <2>5, <3>3
      <4>3. QED BY <2>9, <2>11, <4>1, <4>2
    <3>4. QED BY <2>7, <3>1, <3>2, <3>3
  <2>12. ASSUME NEW b \in Apps, pc'[b] \in Served
         PROVE  \E i \in 1..slice'.len : Entry(i)' = Client(b)'
    <3>1. CASE b = a
      <4>1. slice.len + 1 \in 1..slice'.len
        <5>1. slice.len \in Nat BY <1>5
        <5>2. QED BY <2>6, <5>1
      <4>2. PICK i \in 1..slice'.len : i = slice.len + 1 BY <4>1
      <4>3. Entry(i)' = k BY <2>5, <4>2
      <4>4. Client(b)' = k BY <2>9, <3>1
      <4>5. QED BY <4>3, <4>4
    <3>2. CASE b # a
      <4>1. pc[b] \in Served BY <1>6, <2>12, <3>2
      <4>2. PICK i \in 1..slice.len : Entry(i) = Client(b) BY <1>1, <2>1, <2>16, <4>1 DEF OnceInv
      <4>3. i \in 1..slice'.len BY <1>5, <2>6
      <4>4. Entry(i)' = Client(b) BY <2>4, <4>2
      <4>5. Client(b)' = Client(b) BY <2>9
      <4>6. QED BY <4>3, <4>4, <4>5
    <3>3. QED BY <3>1, <3>2
  <2>13. \A b, d \in Apps : pc'[b] \in Editing /\ pc'[d] \in Editing => b = d BY <2>3
  <2>14. \A b \in Apps : pc'[b] # "shift" BY <2>3 DEF Editing
  <2>15. QED BY <2>16, <2>3, <2>10, <2>11, <2>12, <2>13, <2>14 DEF OnceInv
<1>12. IdInv' BY <1>1, <1>3, <1>5 DEF IdInv, Client
<1>13. NoticeInv' BY <1>1, <1>3, <1>5 DEF NoticeInv
<1>14. QED BY <1>7, <1>10, <1>15, <1>11, <1>12, <1>13 DEF IInv

\* The place of the client is taken by the one behind it; an array that others have in
\* their hands, and the loop of readLoop, show one client in place of another.
LEMMA ShiftKeeps == ASSUME IInv, NEW a \in Apps, Shift(a) PROVE IInv'
<1>1. TypeOK /\ RefInv /\ RangeInv /\ OnceInv /\ IdInv /\ NoticeInv BY DEF IInv
<1>2. PICK r, len, p : r = seen[a].arr /\ len = seen[a].len /\ p = seen[a].place OBVIOUS
<1>3. /\ pc[a] = "shift" /\ pc' = [pc EXCEPT ![a] = "shorten"]
      /\ UNCHANGED << BotID, changing, changes, overtaken, dials, selfId, up, slice, raced, seen,
                      range, sent, since,
                      inflight, out, got, timers, told >>
  BY DEF Shift, idVars, eventVars, noticeVars, Goto
<1>4. /\ heap' \in Seq(Places) /\ Len(heap') = Len(heap)
      /\ \A x \in 1..Len(heap) : Len(heap'[x]) = Len(heap[x])
      /\ \A x \in 1..Len(heap) : \A i \in 1..Len(heap[x]) :
             heap'[x][i] = IF x = r /\ p <= i /\ i < len THEN heap[x][i + 1] ELSE heap[x][i]
  BY <1>1, <1>2, ShiftEffect DEF At
<1>5. /\ heap \in Seq(Places) /\ Len(heap) \in Nat
      /\ slice.arr \in 1..Len(heap) /\ slice.len \in Nat /\ slice.len <= Len(heap[slice.arr])
      /\ seen \in [Apps -> [arr : 1..Len(heap), len : Nat, place : Nat]]
      /\ range \in [arr : 1..Len(heap), len : Nat, next : Nat \ {0}]
      /\ DOMAIN pc = Apps
  <2>1. /\ heap \in Seq(Places) /\ slice.arr \in 1..Len(heap) /\ slice.len \in Nat
        /\ slice.len <= Len(heap[slice.arr])
        /\ seen \in [Apps -> [arr : 1..Len(heap), len : Nat, place : Nat]]
        /\ range \in [arr : 1..Len(heap), len : Nat, next : Nat \ {0}]
        /\ DOMAIN pc = Apps
    BY <1>1 DEF TypeOK, Places
  <2>2. QED BY <2>1, LenProperties
<1>6. pc'[a] = "shorten" /\ \A b \in Apps \ {a} : pc'[b] = pc[b] BY <1>3, <1>5
<1>8. \A c : Old(c) => Old(c)' BY <1>1, <1>3, <1>6, OldKept
<1>9. /\ r \in 1..Len(heap) /\ len \in Nat /\ p \in 1..len /\ len <= Len(heap[r])
      /\ \A i \in 1..len : Old(heap[r][i])
  BY <1>1, <1>2, <1>3, <1>5 DEF RefInv, At
<1>10. \A x \in 1..Len(heap) : Len(heap[x]) \in Nat
  BY <1>5, ElementOfSeq DEF Places
<1>7. TypeOK'
  <2>1. slice' \in [arr : 1..Len(heap'), len : Nat] /\ slice'.len <= Len(heap'[slice'.arr])
    <3>1. slice \in [arr : 1..Len(heap), len : Nat] BY <1>1 DEF TypeOK
    <3>2. QED BY <1>3, <1>4, <1>5, <3>1
  <2>2. disturbed' \subseteq Clients \X (1..MaxEvents)
    <3>1. disturbed \subseteq Clients \X (1..MaxEvents) /\ sent \in 0..MaxEvents BY <1>1 DEF TypeOK
    <3>2. PICK moved : /\ moved = {i \in (p + 1)..len : Reach(r, i) \/ Reach(r, i - 1)}
                       /\ disturbed' = disturbed \cup {<< heap[r][i], sent >> : i \in moved}
      BY <1>2 DEF Shift
    <3>3. \A i \in moved : heap[r][i] \in Clients
      <4>1. \A i \in moved : i \in 1..len BY <1>9, <3>2
      <4>2. QED BY <1>9, <4>1 DEF Old
    <3>4. moved # {} => sent # 0
      <4>1. range.next \in Nat \ {0} /\ range.len \in Nat BY <1>5
      <4>2. moved # {} => range.next <= range.len BY <1>9, <3>2, <4>1 DEF Reach
      <4>3. range.next <= range.len => range # NoRange BY DEF NoRange
      <4>4. QED BY <1>1, <4>2, <4>3 DEF RangeInv
    <3>5. QED BY <3>1, <3>2, <3>3, <3>4, Bounds
  <2>3. heap' \in Seq(Seq(Clients \cup {None})) BY <1>4 DEF Places
  <2>4. pc' \in [Apps -> {"wait", "dial", "add", "append", "announce", "serve",
                         "remove", "shift", "shorten", "pause"}]
    BY <1>1, <1>3 DEF TypeOK
  <2>5. seen' \in [Apps -> [arr : 1..Len(heap'), len : Nat, place : Nat]]
        /\ range' \in [arr : 1..Len(heap'), len : Nat, next : Nat \ {0}]
    BY <1>3, <1>4, <1>5
  <2>6. QED BY <1>1, <1>3, <2>1, <2>2, <2>3, <2>4, <2>5 DEF TypeOK
<1>17. \A x \in 1..Len(heap) : \A i \in 1..Len(heap[x]) :
           Old(heap[x][i]) => \A c : c = heap'[x][i] => Old(c)'
  <2>1. SUFFICES ASSUME NEW x \in 1..Len(heap), NEW i \in 1..Len(heap[x]), Old(heap[x][i]),
                        NEW c, c = heap'[x][i]
                 PROVE  Old(c)'
    OBVIOUS
  <2>2. CASE x = r /\ p <= i /\ i < len
    <3>1. i + 1 \in 1..len /\ c = heap[r][i + 1] BY <1>4, <1>9, <1>10, <2>1, <2>2
    <3>2. Old(heap[r][i + 1]) BY <1>9, <3>1
    <3>3. QED BY <1>8, <3>1, <3>2
  <2>3. CASE ~ (x = r /\ p <= i /\ i < len)
    <3>1. c = heap[x][i] BY <1>4, <2>1, <2>3
    <3>2. QED BY <1>8, <2>1, <3>1
  <2>4. QED BY <2>2, <2>3
<1>18. ASSUME NEW x \in 1..Len(heap), NEW n \in Nat, n <= Len(heap[x]),
              \A i \in 1..n : Old(heap[x][i])
       PROVE  /\ n <= Len(heap'[x])
              /\ \A i \in 1..n : \A c : c = heap'[x][i] => Old(c)'
  <2>1. \A i \in 1..n : i \in 1..Len(heap[x]) BY <1>10, <1>18
  <2>2. QED BY <1>4, <1>17, <1>18, <2>1
<1>12. RefInv'
  <2>1. \A i \in 1..slice.len : \A c : c = heap'[slice.arr][i] => Old(c)'
    <3>1. \A i \in 1..slice.len : Old(heap[slice.arr][i]) BY <1>1 DEF RefInv, Entry
    <3>2. QED BY <1>5, <1>18, <3>1
  <2>2. ASSUME NEW b \in Apps
        PROVE  /\ seen[b].len <= Len(heap'[seen[b].arr])
               /\ \A i \in 1..seen[b].len : \A c : c = heap'[seen[b].arr][i] => Old(c)'
    <3>1. PICK x, n : x = seen[b].arr /\ n = seen[b].len OBVIOUS
    <3>2. /\ x \in 1..Len(heap) /\ n \in Nat /\ n <= Len(heap[x])
          /\ \A i \in 1..n : Old(heap[x][i])
      BY <1>1, <1>5, <3>1 DEF RefInv, At
    <3>3. n <= Len(heap'[x]) /\ \A i \in 1..n : \A c : c = heap'[x][i] => Old(c)'
      BY <1>18, <3>2
    <3>4. QED BY <3>1, <3>3
  <2>3. \A b \in Apps : /\ pc'[b] \in {"shift", "shorten"} => seen[b].place \in 1..seen[b].len
                        /\ pc'[b] \notin {"wait", "dial"} => dials'[b] # 0
    BY <1>1, <1>3, <1>6 DEF RefInv
  <2>4. QED BY <1>3, <2>1, <2>2, <2>3 DEF RefInv, Entry, At
<1>19. RangeInv'
  <2>1. PICK x, n : x = range.arr /\ n = range.len OBVIOUS
  <2>2. /\ x \in 1..Len(heap) /\ n \in Nat /\ n <= Len(heap[x])
        /\ \A i \in 1..n : Old(heap[x][i])
    BY <1>1, <1>5, <2>1 DEF RangeInv, At
  <2>3. n <= Len(heap'[x]) /\ \A i \in 1..n : \A c : c = heap'[x][i] => Old(c)'
    BY <1>18, <2>2
  <2>4. QED BY <1>1, <1>3, <2>1, <2>3 DEF RangeInv, At
<1>11. \A i \in 1..(len - 1) : heap'[r][i] = IF p <= i THEN heap[r][i + 1] ELSE heap[r][i]
  <2>1. \A i \in 1..Len(heap[r]) : heap'[r][i] = IF p <= i /\ i < len THEN heap[r][i + 1] ELSE heap[r][i]
    BY <1>4, <1>9
  <2>2. Len(heap[r]) \in Nat BY <1>9, <1>10
  <2>3. \A i \in 1..(len - 1) : i \in 1..Len(heap[r]) /\ i < len BY <1>9, <2>2
  <2>4. QED BY <2>1, <2>3
<1>13. OnceInv'
  <2>1. SUFFICES ASSUME ~ raced PROVE OnceInv' BY <1>3 DEF OnceInv
  <2>2. r = slice.arr /\ len = slice.len BY <1>1, <1>2, <1>3, <2>1 DEF OnceInv, Editing
  <2>3. \A b \in Apps : pc'[b] \in Editing <=> b = a
    BY <1>1, <1>3, <1>6, <2>1 DEF OnceInv, Editing
  <2>4. Entry(p) = Client(a) /\ Entry(p)[1] = a
    <3>1. Entry(p) = Client(a) BY <1>1, <1>2, <1>3, <2>1 DEF OnceInv
    <3>2. QED BY <3>1 DEF Client
  <2>5. \A i \in 1..(len - 1) : Entry(i)' = IF p <= i THEN Entry(i + 1) ELSE Entry(i)
    BY <1>3, <1>11, <2>2 DEF Entry
  <2>6. Kept = len /\ Kept' = len - 1
    <3>1. \A b \in Apps : pc[b] # "shorten"
      BY <1>1, <1>3, <2>1 DEF OnceInv, Editing
    <3>2. \E b \in Apps : pc'[b] = "shorten" BY <1>6
    <3>3. QED BY <1>3, <2>2, <3>1, <3>2 DEF Kept
  <2>7. \A i, j \in 1..len : Entry(i)[1] = Entry(j)[1] => i = j BY <1>1, <2>1, <2>2, <2>6 DEF OnceInv
  <2>8. \A i \in 1..len : i # p =>
            /\ Entry(i)[1] \in Apps \ {a} /\ Entry(i) = Client(Entry(i)[1])
            /\ pc[Entry(i)[1]] \in Served
    <3>1. \A i \in 1..len : Entry(i)[1] \in Apps BY <1>1, <2>2 DEF RefInv, Old, Clients
    <3>2. \A i \in 1..len : Entry(i) = Client(Entry(i)[1]) /\ pc[Entry(i)[1]] \in Served
      BY <1>1, <2>1, <2>2, <2>6 DEF OnceInv
    <3>3. \A i \in 1..len : i # p => Entry(i)[1] # a BY <1>9, <2>4, <2>7
    <3>4. QED BY <3>1, <3>2, <3>3
  <2>9. \A b : Client(b)' = Client(b) BY <1>3 DEF Client
  <2>10. ASSUME NEW i \in 1..Kept'
         PROVE  (Entry(i) = Client(Entry(i)[1]) /\ pc[Entry(i)[1]] \in Served)'
    <3>1. PICK j \in 1..len : j # p /\ Entry(i)' = Entry(j)
      <4>1. i \in 1..len /\ i + 1 \in 1..len BY <1>9, <2>6
      <4>2. CASE p <= i BY <1>9, <2>5, <2>6, <4>1, <4>2
      <4>3. CASE ~ (p <= i) BY <1>9, <2>5, <2>6, <4>1, <4>3
      <4>4. QED BY <4>2, <4>3
    <3>2. PICK e : e = Entry(j) OBVIOUS
    <3>3. e[1] \in Apps \ {a} /\ e = Client(e[1]) /\ pc[e[1]] \in Served /\ Entry(i)' = e
      BY <2>8, <3>1, <3>2
    <3>4. Client(e[1])' = e /\ pc'[e[1]] \in Served BY <1>6, <2>9, <3>3
    <3>5. QED BY <3>3, <3>4 DEF Client
  <2>11. ASSUME NEW i \in 1..Kept', NEW j \in 1..Kept', Entry(i)'[1] = Entry(j)'[1]
         PROVE  i = j
    <3>1. PICK m, n : m = (IF p <= i THEN i + 1 ELSE i) /\ n = (IF p <= j THEN j + 1 ELSE j) OBVIOUS
    <3>2. m \in 1..len /\ n \in 1..len BY <1>9, <2>6, <3>1
    <3>3. Entry(i)' = Entry(m) /\ Entry(j)' = Entry(n) BY <2>5, <2>6, <3>1
    <3>4. m = n BY <2>7, <2>11, <3>2, <3>3
    <3>5. QED BY <1>9, <3>1, <3>4
  <2>12. ASSUME NEW b \in Apps, pc'[b] \in Served
         PROVE  \E i \in 1..Kept' : Entry(i)' = Client(b)'
    <3>1. b # a BY <1>6, <2>12 DEF Served
    <3>2. pc[b] \in Served BY <1>6, <2>12, <3>1
    <3>3. PICK j \in 1..len : Entry(j) = Client(b) BY <1>1, <2>1, <2>2, <2>6, <3>2 DEF OnceInv
    <3>4. Entry(j)[1] = b BY <3>3 DEF Client
    <3>5. j # p BY <2>4, <3>1, <3>4
    <3>6. PICK i : i = IF j > p THEN j - 1 ELSE j OBVIOUS
    <3>7. i \in 1..(len - 1) /\ j = (IF p <= i THEN i + 1 ELSE i) BY <1>9, <3>5, <3>6
    <3>8. Entry(i)' = Entry(j) BY <2>5, <3>7
    <3>9. Client(b)' = Client(b) BY <2>9
    <3>10. QED BY <2>6, <3>3, <3>7, <3>8, <3>9
  <2>13. /\ \A b, d \in Apps : pc'[b] \in Editing /\ pc'[d] \in Editing => b = d
         /\ \A b \in Apps : pc'[b] \in Editing => seen[b].arr = slice.arr /\ seen[b].len = slice.len
    BY <1>2, <2>2, <2>3
  <2>14. \A b \in Apps : pc'[b] # "shift" BY <1>6, <2>3 DEF Editing
  <2>15. QED BY <1>3, <2>10, <2>11, <2>12, <2>13, <2>14 DEF OnceInv
<1>14. IdInv' BY <1>1, <1>3, <1>5 DEF IdInv, Client
<1>15. NoticeInv' BY <1>1, <1>3, <1>5 DEF NoticeInv
<1>16. QED BY <1>7, <1>12, <1>19, <1>13, <1>14, <1>15 DEF IInv

\* The list is a place shorter, what it shows is the same.
LEMMA ShortenKeeps == ASSUME IInv, NEW a \in Apps, Shorten(a) PROVE IInv'
<1>1. TypeOK /\ RefInv /\ RangeInv /\ OnceInv /\ IdInv /\ NoticeInv BY DEF IInv
<1>2. PICK r, len : r = seen[a].arr /\ len = seen[a].len OBVIOUS
<1>3. /\ pc[a] = "shorten" /\ pc' = [pc EXCEPT ![a] = "pause"] /\ seen' = [seen EXCEPT ![a] = Nothing]
      /\ slice' = [arr |-> r, len |-> len - 1]
      /\ UNCHANGED << BotID, changing, changes, overtaken, dials, selfId, up, heap, raced,
                      range, disturbed, sent, since,
                      inflight, out, got, timers, told >>
  BY <1>2 DEF Shorten, idVars, rangeVars, eventVars, noticeVars, Goto
<1>4. /\ heap \in Seq(Places) /\ Len(heap) \in Nat
      /\ seen \in [Apps -> [arr : 1..Len(heap), len : Nat, place : Nat]]
      /\ DOMAIN pc = Apps
  <2>1. /\ heap \in Seq(Places)
        /\ seen \in [Apps -> [arr : 1..Len(heap), len : Nat, place : Nat]]
        /\ DOMAIN pc = Apps
    BY <1>1 DEF TypeOK, Places
  <2>2. QED BY <2>1, LenProperties
<1>5. /\ seen'[a] = Nothing /\ pc'[a] = "pause"
      /\ \A b \in Apps \ {a} : seen'[b] = seen[b] /\ pc'[b] = pc[b]
  BY <1>3, <1>4
<1>6. /\ r \in 1..Len(heap) /\ len \in Nat \ {0} /\ len <= Len(heap[r])
      /\ \A i \in 1..len : Old(heap[r][i])
  <2>1. r \in 1..Len(heap) /\ len \in Nat BY <1>2, <1>4
  <2>2. seen[a].place \in 1..len /\ len <= Len(heap[r]) /\ \A i \in 1..len : Old(heap[r][i])
    BY <1>1, <1>2, <1>3 DEF RefInv, At
  <2>3. QED BY <2>1, <2>2
<1>7. slice'.arr = r /\ slice'.len = len - 1 /\ slice' \in [arr : 1..Len(heap), len : Nat]
  BY <1>3, <1>6
<1>8. Len(heap[1]) \in Nat /\ 1 \in 1..Len(heap) /\ Len(heap[r]) \in Nat
  <2>1. 1 \in 1..Len(heap) BY <1>4, <1>6
  <2>2. heap[1] \in Places /\ heap[r] \in Places BY <1>4, <1>6, <2>1, ElementOfSeq
  <2>3. QED BY <2>1, <2>2 DEF Places
<1>9. TypeOK'
  <2>1. Nothing \in [arr : 1..Len(heap), len : Nat, place : Nat] BY <1>8 DEF Nothing
  <2>2. seen' \in [Apps -> [arr : 1..Len(heap), len : Nat, place : Nat]] BY <1>3, <1>4, <2>1
  <2>3. slice'.len <= Len(heap[slice'.arr]) BY <1>6, <1>7, <1>8
  <2>4. pc' \in [Apps -> {"wait", "dial", "add", "append", "announce", "serve",
                         "remove", "shift", "shorten", "pause"}]
    BY <1>1, <1>3 DEF TypeOK
  <2>5. QED BY <1>1, <1>3, <1>7, <2>2, <2>3, <2>4 DEF TypeOK
<1>10. \A c : Old(c) => Old(c)' BY <1>1, <1>3, <1>5, OldKept
<1>11. RefInv'
  <2>1. \A i \in 1..(len - 1) : \A c : c = heap[r][i] => Old(c)'
    <3>1. \A i \in 1..(len - 1) : i \in 1..len BY <1>6
    <3>2. QED BY <1>6, <1>10, <3>1
  <2>2. \A b \in Apps \ {a} : \A i \in 1..seen[b].len : \A c : c = heap[seen[b].arr][i] => Old(c)'
    BY <1>1, <1>10 DEF RefInv, At
  <2>3. seen'[a].arr = 1 /\ seen'[a].len = 0 BY <1>5 DEF Nothing
  <2>4. \A b \in Apps : /\ seen'[b].len <= Len(heap[seen'[b].arr])
                        /\ \A i \in 1..seen'[b].len : \A c : c = heap[seen'[b].arr][i] => Old(c)'
    <3>1. \A i \in 1..seen'[a].len : FALSE BY <2>3
    <3>2. seen'[a].len <= Len(heap[seen'[a].arr]) BY <1>8, <2>3
    <3>3. \A b \in Apps \ {a} : seen'[b].len <= Len(heap[seen'[b].arr]) BY <1>1, <1>5 DEF RefInv
    <3>4. QED BY <1>5, <2>2, <3>1, <3>2, <3>3
  <2>5. \A b \in Apps : /\ pc'[b] \in {"shift", "shorten"} => seen'[b].place \in 1..seen'[b].len
                        /\ pc'[b] \notin {"wait", "dial"} => dials'[b] # 0
    BY <1>1, <1>3, <1>5 DEF RefInv
  <2>6. \A i \in 1..slice'.len : \A c : c = heap[slice'.arr][i] => Old(c)' BY <1>7, <2>1
  <2>7. QED BY <1>3, <2>4, <2>5, <2>6 DEF RefInv, Entry, At
<1>12. RangeInv'
  <2>1. \A i \in 1..range.len : \A c : c = heap[range.arr][i] => Old(c)'
    BY <1>1, <1>10 DEF RangeInv, At
  <2>2. QED BY <1>1, <1>3, <2>1 DEF RangeInv, At
<1>13. OnceInv'
  <2>1. SUFFICES ASSUME ~ raced PROVE OnceInv' BY <1>3 DEF OnceInv
  <2>2. r = slice.arr /\ len = slice.len BY <1>1, <1>2, <1>3, <2>1 DEF OnceInv, Editing
  <2>3. \A b \in Apps : pc'[b] \notin Editing BY <1>1, <1>3, <1>5, <2>1 DEF OnceInv, Editing
  <2>4. Kept' = Kept
    <3>1. \A b \in Apps : pc'[b] # "shorten" BY <2>3 DEF Editing
    <3>2. QED BY <1>3, <1>7, <2>2, <3>1 DEF Kept
  <2>5. \A i : Entry(i)' = Entry(i) BY <1>3, <1>7, <2>2 DEF Entry
  <2>6. \A b \in Apps : (pc'[b] \in Served <=> pc[b] \in Served) /\ Client(b)' = Client(b)
    BY <1>3, <1>5 DEF Served, Client
  <2>7. \A i \in 1..Kept : Entry(i)[1] \in Apps
    <3>1. \A i \in 1..Kept : i \in 1..slice.len BY <1>6, <2>2 DEF Kept
    <3>2. QED BY <1>1, <3>1 DEF RefInv, Old, Clients
  <2>8. ASSUME NEW i \in 1..Kept
        PROVE  (Entry(i) = Client(Entry(i)[1]) /\ pc[Entry(i)[1]] \in Served)'
    <3>1. PICK e : e = Entry(i) OBVIOUS
    <3>2. e = Client(e[1]) /\ pc[e[1]] \in Served /\ Entry(i)' = e /\ e[1] \in Apps
      BY <1>1, <2>1, <2>5, <2>7, <3>1 DEF OnceInv
    <3>3. Client(e[1])' = Client(e[1]) /\ pc'[e[1]] \in Served BY <2>6, <3>2
    <3>4. QED BY <3>2, <3>3 DEF Client
  <2>9. \A i, j \in 1..Kept : Entry(i)'[1] = Entry(j)'[1] => i = j
    BY <1>1, <2>1, <2>5 DEF OnceInv
  <2>10. \A b \in Apps : pc'[b] \in Served => \E i \in 1..Kept : Entry(i)' = Client(b)'
    BY <1>1, <2>1, <2>5, <2>6 DEF OnceInv
  <2>11. \A b \in Apps : pc'[b] # "shift" BY <2>3 DEF Editing
  <2>12. QED BY <2>3, <2>4, <2>8, <2>9, <2>10, <2>11 DEF OnceInv
<1>14. IdInv' BY <1>1, <1>3, <1>4 DEF IdInv, Client
<1>15. NoticeInv' BY <1>1, <1>3, <1>4 DEF NoticeInv
<1>16. QED BY <1>9, <1>11, <1>12, <1>13, <1>14, <1>15 DEF IInv

-----------------------------------------------------------------------------
(* Handlers read the list to forward and to reset. *)

\* The list holds clients that were appended.
LEMMA ListHolds ==
    ASSUME TypeOK, RefInv
    PROVE  \A i \in DOMAIN Listed : i \in Nat /\ Listed[i] \in Clients /\ Listed[i] = Entry(i)
<1>1. DOMAIN Listed = 1..slice.len /\ \A i \in 1..slice.len : Listed[i] = Entry(i)
  BY ListedFacts
<1>2. \A i \in 1..slice.len : Entry(i) \in Clients BY DEF RefInv, Old
<1>3. QED BY <1>1, <1>2

\* The slice shows clients to the loop that begins.
LEMMA ForwardKeeps == ASSUME IInv, Forward PROVE IInv'
<1>1. TypeOK /\ RefInv /\ RangeInv /\ IdInv /\ NoticeInv BY DEF IInv
<1>2. /\ UNCHANGED << heap, slice, seen, raced >>
      /\ sent < MaxEvents /\ sent' = sent + 1
      /\ range' = (IF slice.len = 0 THEN NoRange
                   ELSE [arr |-> slice.arr, len |-> slice.len, next |-> 1])
      /\ UNCHANGED << BotID, changing, changes, overtaken, pc, dials, selfId, up, since,
                      inflight, out, got, timers, told >>
  BY DEF Forward, idVars, listVars, noticeVars
<1>3. /\ slice.arr \in 1..Len(heap) /\ slice.len \in Nat /\ slice.len <= Len(heap[slice.arr])
      /\ heap \in Seq(Places) /\ sent \in 0..MaxEvents
  BY <1>1 DEF TypeOK, Places
<1>4. sent + 1 \in 1..MaxEvents /\ sent' \in 0..MaxEvents /\ sent' # 0 BY <1>2, <1>3, Bounds
<1>5. /\ 1 \in 1..Len(heap) /\ 0 <= Len(heap[1])
  <2>1. Len(heap) \in Nat BY <1>3, LenProperties
  <2>2. 1 \in 1..Len(heap) BY <1>3, <2>1
  <2>3. heap[1] \in Places BY <1>3, <2>2, ElementOfSeq
  <2>4. QED BY <2>2, <2>3 DEF Places
<1>6. TypeOK'
  <2>1. range' \in [arr : 1..Len(heap), len : Nat, next : Nat \ {0}] BY <1>2, <1>3, <1>5 DEF NoRange
  <2>2. disturbed' \subseteq Clients \X (1..MaxEvents)
    <3>1. disturbed \subseteq Clients \X (1..MaxEvents) BY <1>1 DEF TypeOK
    <3>2. slice.len > 0 => Listed[slice.len] \in Clients
      <4>1. slice.len > 0 => slice.len \in DOMAIN Listed BY <1>1, <1>3, ListedFacts
      <4>2. QED BY <1>1, <4>1, ListHolds
    <3>3. \/ disturbed' = disturbed
          \/ slice.len > 0 /\ disturbed' = disturbed \cup {<< Listed[slice.len], sent + 1 >>}
      BY DEF Forward
    <3>4. QED BY <1>4, <3>1, <3>2, <3>3
  <2>3. QED BY <1>1, <1>2, <1>4, <2>1, <2>2 DEF TypeOK
<1>7. Moves BY <1>1, <1>2 DEF Moves
<1>8. RefInv' /\ OnceInv' BY <1>2, <1>7, QuietKeeps
<1>9. RangeInv'
  <2>1. CASE slice.len = 0
    <3>1. range'.arr = 1 /\ range'.len = 0 /\ range' = NoRange BY <1>2, <2>1 DEF NoRange
    <3>2. QED BY <1>2, <1>4, <1>5, <3>1 DEF RangeInv
  <2>2. CASE slice.len # 0
    <3>1. range'.arr = slice.arr /\ range'.len = slice.len /\ range'.next = 1 BY <1>2, <2>2
    <3>2. \A i \in 1..slice.len : Old(heap[slice.arr][i])' BY <1>2, <1>8 DEF RefInv, Entry
    <3>3. QED BY <1>2, <1>3, <1>4, <2>2, <3>1, <3>2 DEF RangeInv, At
  <2>3. QED BY <2>1, <2>2
<1>10. IdInv' BY <1>1, <1>2 DEF IdInv, Client
<1>11. NoticeInv' BY <1>1, <1>2 DEF NoticeInv
<1>12. QED BY <1>6, <1>8, <1>9, <1>10, <1>11 DEF IInv

\* The loop comes to a client.
LEMMA ForwardToNextKeeps == ASSUME IInv, ForwardToNext PROVE IInv'
<1>1. TypeOK /\ RefInv /\ RangeInv /\ IdInv /\ NoticeInv BY DEF IInv
<1>2. PICK e : e = heap[range.arr][range.next] OBVIOUS
<1>3. /\ UNCHANGED << heap, slice, seen, raced >>
      /\ range # NoRange
      /\ range' = (IF range.next = range.len THEN NoRange ELSE [range EXCEPT !.next = @ + 1])
      /\ inflight' = inflight \cup {<< e, sent, range.next >>}
      /\ UNCHANGED << BotID, changing, changes, overtaken, pc, dials, selfId, up, disturbed,
                      sent, since, out, got, timers, told >>
  BY <1>2 DEF ForwardToNext, idVars, listVars, noticeVars
<1>4. /\ range \in [arr : 1..Len(heap), len : Nat, next : Nat \ {0}]
      /\ heap \in Seq(Places) /\ sent \in 0..MaxEvents
  BY <1>1 DEF TypeOK, Places
<1>5. /\ range.next <= range.len /\ sent \in 1..MaxEvents /\ e \in Clients
      /\ range.next \in 1..range.len
  <2>1. range.next <= range.len /\ sent # 0 BY <1>1, <1>3 DEF RangeInv
  <2>2. range.next \in 1..range.len /\ sent \in 1..MaxEvents BY <1>4, <2>1, Bounds
  <2>3. Old(e) BY <1>1, <1>2, <2>2 DEF RangeInv, At
  <2>4. QED BY <2>1, <2>2, <2>3 DEF Old
<1>6. \/ range' = NoRange
      \/ /\ range'.arr = range.arr /\ range'.len = range.len /\ range'.next = range.next + 1
         /\ range.next # range.len
         /\ range' \in [arr : 1..Len(heap), len : Nat, next : Nat \ {0}]
  BY <1>3, <1>4
<1>7. /\ 1 \in 1..Len(heap) /\ 0 <= Len(heap[1])
  <2>1. Len(heap) \in Nat BY <1>4, LenProperties
  <2>2. 1 \in 1..Len(heap) BY <1>4, <2>1
  <2>3. heap[1] \in Places BY <1>4, <2>2, ElementOfSeq
  <2>4. QED BY <2>2, <2>3 DEF Places
<1>8. TypeOK'
  <2>1. range' \in [arr : 1..Len(heap), len : Nat, next : Nat \ {0}] BY <1>6, <1>7 DEF NoRange
  <2>2. inflight' \subseteq Clients \X (1..MaxEvents) \X Nat
    <3>1. inflight \subseteq Clients \X (1..MaxEvents) \X Nat BY <1>1 DEF TypeOK
    <3>2. QED BY <1>3, <1>4, <1>5, <3>1
  <2>3. QED BY <1>1, <1>3, <2>1, <2>2 DEF TypeOK
<1>9. Moves BY <1>1, <1>3 DEF Moves
<1>10. RefInv' /\ OnceInv' BY <1>3, <1>9, QuietKeeps
<1>11. \A c : Old(c)' <=> Old(c) BY <1>3 DEF Old
<1>12. RangeInv'
  <2>1. CASE range' = NoRange
    <3>1. range'.arr = 1 /\ range'.len = 0 BY <2>1 DEF NoRange
    <3>2. QED BY <1>3, <1>7, <2>1, <3>1 DEF RangeInv
  <2>2. CASE range' # NoRange
    <3>1. range'.arr = range.arr /\ range'.len = range.len /\ range'.next <= range.len
      BY <1>4, <1>5, <1>6, <2>2
    <3>2. \A i \in 1..range.len : \A c : c = heap[range.arr][i] => Old(c)'
      BY <1>1, <1>11 DEF RangeInv, At
    <3>3. sent' # 0 BY <1>1, <1>3 DEF RangeInv
    <3>4. QED BY <1>1, <1>3, <3>1, <3>2, <3>3 DEF RangeInv, At
  <2>3. QED BY <2>1, <2>2
<1>13. IdInv' BY <1>1, <1>3 DEF IdInv, Client
<1>14. NoticeInv' BY <1>1, <1>3 DEF NoticeInv
<1>15. QED BY <1>8, <1>10, <1>12, <1>13, <1>14 DEF IInv

\* The connections of the list are closed, and all that are served are in it; dials
\* under way are overtaken.
LEMMA ChangeKeeps == ASSUME IInv, NEW id \in Ids, ChangeBotID(id) PROVE IInv'
<1>1. TypeOK /\ RefInv /\ OnceInv /\ IdInv /\ NoticeInv BY DEF IInv
<1>2. /\ UNCHANGED << heap, slice, seen, raced, range, disturbed >>
      /\ changing = None /\ id # BotID /\ changes < MaxChanges
      /\ changes' = changes + 1 /\ changing' = id
      /\ up' = (IF BotID = None THEN up ELSE up \ {Listed[i] : i \in DOMAIN Listed})
      /\ overtaken' = overtaken \cup {b \in Apps : pc[b] \in {"dial", "add", "append"}}
      /\ UNCHANGED << BotID, pc, dials, selfId, sent, since, inflight, out, got, timers,
                      told >>
  BY DEF ChangeBotID, listVars, rangeVars, eventVars, noticeVars
<1>3. TypeOK'
  <2>1. changes' \in 0..MaxChanges BY <1>1, <1>2, Bounds DEF TypeOK
  <2>2. up' \subseteq Clients /\ overtaken' \subseteq Apps BY <1>1, <1>2 DEF TypeOK
  <2>3. QED BY <1>1, <1>2, <2>1, <2>2 DEF TypeOK
<1>4. Moves BY <1>1, <1>2 DEF Moves
<1>5. RefInv' /\ RangeInv' /\ OnceInv' BY <1>2, <1>4, QuietKeeps
<1>6. IdInv'
  <2>1. BotID = None => \A b \in Apps : pc[b] = "wait" BY <1>1 DEF IdInv
  <2>2. ASSUME ~ raced, NEW b \in Apps, b \notin overtaken', pc[b] \in {"announce", "serve"},
               Client(b) \in up'
        PROVE  FALSE
    <3>1. BotID # None BY <2>1, <2>2
    <3>2. PICK i \in 1..slice.len : Entry(i) = Client(b)
      <4>1. PICK i \in 1..Kept : Entry(i) = Client(b) BY <1>1, <2>2 DEF OnceInv, Served
      <4>2. i \in 1..slice.len BY <1>1, KeptFacts
      <4>3. QED BY <4>1, <4>2
    <3>3. i \in DOMAIN Listed /\ Listed[i] = Client(b) BY <1>1, <3>2, ListedFacts
    <3>4. QED BY <1>2, <2>2, <3>1, <3>3
  <2>3. \A b \in Apps : b \notin overtaken' => pc[b] \notin {"dial", "add", "append"} BY <1>2
  <2>4. \A b : Client(b)' = Client(b) BY <1>2 DEF Client
  <2>5. \A b \in Apps \ overtaken' : ~ raced =>
            /\ pc[b] \notin {"dial", "add", "append"}
            /\ ~ (pc[b] \in {"announce", "serve"} /\ Client(b)' \in up')
    BY <2>2, <2>3, <2>4
  <2>6. QED BY <1>2, <2>1, <2>5 DEF IdInv
<1>7. NoticeInv' BY <1>1, <1>2 DEF NoticeInv
<1>8. QED BY <1>3, <1>5, <1>6, <1>7 DEF IInv

-----------------------------------------------------------------------------
(* The theorems. *)

LEMMA InitHolds == Init => IInv
<1> SUFFICES ASSUME Init PROVE IInv OBVIOUS
<1>1. /\ heap = << << >> >> /\ slice.arr = 1 /\ slice.len = 0 /\ Len(heap) = 1 /\ Len(heap[1]) = 0
      /\ heap \in Seq(Places)
  BY DEF Init, Places
<1>2. \A a \in Apps : seen[a].arr = 1 /\ seen[a].len = 0 /\ pc[a] = "wait" /\ dials[a] = 0
  BY DEF Init, Nothing
<1>3. TypeOK
  <2>1. /\ slice \in [arr : 1..Len(heap), len : Nat] /\ slice.len <= Len(heap[slice.arr])
        /\ seen \in [Apps -> [arr : 1..Len(heap), len : Nat, place : Nat]]
    BY <1>1 DEF Init, Nothing
  <2>5. range \in [arr : 1..Len(heap), len : Nat, next : Nat \ {0}] BY <1>1 DEF Init, NoRange
  <2>2. /\ changes \in 0..MaxChanges /\ sent \in 0..MaxEvents
        /\ dials \in [Apps -> 0..(MaxRedials + 1)] /\ since \in [Clients -> 0..MaxEvents]
    BY Bounds DEF Init
  <2>3. /\ out \in [Clients -> Seq(1..MaxEvents)] /\ \A c \in Clients : Len(out[c]) <= Depth
        /\ got \in [Clients -> [1..MaxEvents -> Nat]]
    BY Bounds DEF Init
  <2>4. QED BY <1>1, <2>1, <2>2, <2>3, <2>5 DEF Init, TypeOK, Places
<1>9. RangeInv BY <1>1 DEF Init, RangeInv, NoRange
<1>4. RefInv BY <1>1, <1>2 DEF RefInv
<1>5. OnceInv BY <1>1, <1>2 DEF OnceInv, Editing, Served, Kept
<1>6. IdInv BY <1>2 DEF IdInv, Init
<1>7. NoticeInv BY <1>2 DEF NoticeInv, Init
<1>8. QED BY <1>3, <1>4, <1>9, <1>5, <1>6, <1>7 DEF IInv

LEMMA NextKeeps == IInv /\ [Next]_vars => IInv'
<1> SUFFICES ASSUME IInv, [Next]_vars PROVE IInv' OBVIOUS
<1>1. CASE UNCHANGED vars BY <1>1, StutterKeeps
<1>2. ASSUME NEW a \in Apps, HandlerStep(a) PROVE IInv'
  BY <1>2, ReadBotIDKeeps, DialKeeps, DialFailsKeeps, AddKeeps, AppendKeeps, AnnounceKeeps,
     DisconnectKeeps, RemoveKeeps, ShiftKeeps, ShortenKeeps, CloseKeeps
  DEF HandlerStep
<1>3. ASSUME NEW a \in Apps, NoticeDue(a) PROVE IInv' BY <1>3, DueKeeps
<1>4. ASSUME NEW c \in Clients, SocketCloses(c) \/ writeLoop(c) PROVE IInv'
  BY <1>4, SocketKeeps, writeLoopKeeps
<1>5. ASSUME NEW f \in inflight, WriteMessage(f) PROVE IInv' BY <1>5, WriteKeeps
<1>6. CASE Forward \/ ForwardToNext BY <1>6, ForwardKeeps, ForwardToNextKeeps
<1>7. ASSUME NEW id \in Ids, ChangeBotID(id) PROVE IInv' BY <1>7, ChangeKeeps
<1>8. CASE StoreBotID BY <1>8, StoreIDKeeps
<1>9. QED BY <1>1, <1>2, <1>3, <1>4, <1>5, <1>6, <1>7, <1>8 DEF Next

\* Whatever the handlers, the apps and the network do, the inductive invariant holds.
THEOREM Invariant == Spec => []IInv
<1>1. Init => IInv BY InitHolds
<1>2. IInv /\ [Next]_vars => IInv' BY NextKeeps
<1>3. QED BY <1>1, <1>2, PTL DEF Spec

\* Types and bounds: the slice stays within its array, a queue within its depth.
THEOREM AppsTypes == Spec => []TypeOK
<1>1. IInv => TypeOK BY DEF IInv
<1>2. QED BY <1>1, Invariant, PTL

\* The list holds every served app once and nobody else, unless edits overlapped.
THEOREM AppsListed == Spec => []EveryAppListed
<1>1. IInv => EveryAppListed
  <2> SUFFICES ASSUME IInv, ~ raced, NEW a \in Apps, NEW places,
                      places = {i \in 1..Kept : Listed[i][1] = a}
               PROVE  CASE pc[a] \in {"announce", "serve", "remove", "shift"} ->
                               /\ Cardinality(places) = 1
                               /\ \A i \in places : Listed[i] = Client(a)
                        [] OTHER -> places = {}
    BY DEF EveryAppListed
  <2>1. TypeOK /\ OnceInv BY DEF IInv
  <2>2. /\ \A i \in 1..Kept : Listed[i] = Entry(i)
        /\ places = {i \in 1..Kept : Entry(i)[1] = a}
    BY <2>1, ListedFacts, KeptFacts
  <2>3. \A i \in places : Listed[i] = Client(a) /\ pc[a] \in Served
    BY <2>1, <2>2 DEF OnceInv
  <2>4. CASE pc[a] \in Served
    <3>1. PICK i \in 1..Kept : Entry(i) = Client(a) BY <2>1, <2>4 DEF OnceInv
    <3>2. i \in places BY <2>2, <3>1 DEF Client
    <3>3. \A j \in places : j = i BY <2>1, <2>2, <3>2 DEF OnceInv
    <3>4. places = {i} BY <3>2, <3>3
    <3>5. Cardinality(places) = 1 BY <3>4, FS_Singleton
    <3>6. QED BY <2>3, <2>4, <3>5 DEF Served
  <2>5. CASE pc[a] \notin Served
    <3>1. places = {} BY <2>3, <2>5
    <3>2. QED BY <2>5, <3>1 DEF Served
  <2>6. QED BY <2>4, <2>5
<1>2. QED BY <1>1, Invariant, PTL

\* A change of the Bot ID reaches every connection but those dialled meanwhile.
THEOREM AppsHaveId == Spec => []OldIdOnlyIfOvertaken
<1>1. IInv => OldIdOnlyIfOvertaken BY DEF IInv, IdInv, OldIdOnlyIfOvertaken
<1>2. QED BY <1>1, Invariant, PTL

\* The alarm of an outage is pending or told while the app is away, and not after.
THEOREM AppsNotice == Spec => []NoticeIffAway
<1>1. IInv => NoticeIffAway
  <2>1. SUFFICES ASSUME IInv PROVE NoticeIffAway OBVIOUS
  <2>2. NoticeInv BY <2>1 DEF IInv
  <2>3. QED BY <2>2 DEF NoticeInv, NoticeIffAway
<1>2. QED BY <1>1, Invariant, PTL

-----------------------------------------------------------------------------
(* Copies of an event. *)

\* The goroutines that carry event n to client c; whether c is in the list.
Pending(c, n) == {f \in inflight : f[1] = c /\ f[2] = n}
Shown(c)      == \E i \in 1..Kept : Entry(i) = c

\* There is no second copy of an event, and its loop makes none; none for a client that
\* was not in the list yet, none from before it was in the list or still to come; and
\* one for a client of the list as long as its socket is open, or its loop makes one.
OneCopy(c, n) ==
    /\ Copies(c, n) <= 1
    /\ n = sent => /\ \A i, j \in Ahead(c) : i = j
                   /\ Copies(c, n) = 0 \/ Ahead(c) = {}
    /\ n <= since[c] \/ n > sent \/ ~ Old(c)
           => Copies(c, n) = 0 /\ (n = sent => Ahead(c) = {})
    /\ Shown(c) /\ c \in up /\ since[c] < n /\ n <= sent
           => Copies(c, n) = 1 \/ (n = sent /\ Ahead(c) # {})
    /\ n = sent /\ range.arr = slice.arr /\ Shown(c) => \A i \in Ahead(c) : i <= Kept

FwdInv ==
    /\ IsFiniteSet(inflight)
    /\ \A c \in Clients : since[c] <= sent
    /\ ~ raced => \A c \in Clients, n \in 1..MaxEvents :
                      << c, n >> \notin disturbed => OneCopy(c, n)

\* The places of an element in a sequence, and after append and removal of the first.
Where(s, n) == {i \in DOMAIN s : s[i] = n}

LEMMA WhereIs ==
    ASSUME NEW S, NEW s \in Seq(S), NEW n
    PROVE  IsFiniteSet(Where(s, n)) /\ Cardinality(Where(s, n)) \in Nat /\ DOMAIN s = 1..Len(s)
<1>1. Len(s) \in Nat /\ DOMAIN s = 1..Len(s) BY LenProperties
<1>2. IsFiniteSet(1..Len(s)) BY <1>1, FS_Interval
<1>3. Where(s, n) \in SUBSET (1..Len(s)) BY <1>1 DEF Where
<1>4. QED BY <1>1, <1>2, <1>3, FS_Subset, FS_CardinalityType

LEMMA WhereAppended ==
    ASSUME NEW S, NEW s \in Seq(S), NEW e \in S, NEW n
    PROVE  /\ e = n => Cardinality(Where(Append(s, e), n)) = Cardinality(Where(s, n)) + 1
           /\ e # n => Where(Append(s, e), n) = Where(s, n)
<1>1. /\ Append(s, e) \in Seq(S) /\ Len(s) \in Nat /\ Len(Append(s, e)) = Len(s) + 1
      /\ \A i \in 1..Len(s) : Append(s, e)[i] = s[i]
      /\ Append(s, e)[Len(s) + 1] = e
  BY AppendProperties, LenProperties
<1>2. DOMAIN s = 1..Len(s) /\ DOMAIN Append(s, e) = 1..(Len(s) + 1) BY <1>1, WhereIs
<1>3. IsFiniteSet(Where(s, n)) /\ Cardinality(Where(s, n)) \in Nat BY WhereIs
<1>4. CASE e = n
  <2>1. \A i : i \in 1..(Len(s) + 1) <=> i \in 1..Len(s) \/ i = Len(s) + 1 BY <1>1
  <2>2. Where(Append(s, e), n) = Where(s, n) \cup {Len(s) + 1} BY <1>1, <1>2, <1>4, <2>1 DEF Where
  <2>3. Len(s) + 1 \notin Where(s, n) BY <1>1, <1>2 DEF Where
  <2>4. QED BY <1>3, <1>4, <2>2, <2>3, FS_AddElement
<1>5. CASE e # n
  <2>1. \A i : i \in 1..(Len(s) + 1) <=> i \in 1..Len(s) \/ i = Len(s) + 1 BY <1>1
  <2>2. Where(Append(s, e), n) = Where(s, n) BY <1>1, <1>2, <1>5, <2>1 DEF Where
  <2>3. QED BY <1>5, <2>2
<1>6. QED BY <1>4, <1>5

LEMMA WhereTaken ==
    ASSUME NEW S, NEW s \in Seq(S), s # << >>, NEW n
    PROVE  Cardinality(Where(s, n)) = Cardinality(Where(Tail(s), n)) + (IF Head(s) = n THEN 1 ELSE 0)
<1>1. /\ Tail(s) \in Seq(S) /\ Len(s) \in Nat \ {0} /\ Len(Tail(s)) = Len(s) - 1
      /\ \A i \in 1..(Len(s) - 1) : Tail(s)[i] = s[i + 1]
      /\ Head(s) = s[1]
  BY HeadTailProperties, LenProperties, EmptySeq
<1>2. DOMAIN s = 1..Len(s) /\ DOMAIN Tail(s) = 1..(Len(s) - 1) BY <1>1, WhereIs
<1>3. PICK q, t : q = Where(s, n) \ {1} /\ t = Where(Tail(s), n) OBVIOUS
<1>4. IsFiniteSet(t) /\ Cardinality(t) \in Nat /\ IsFiniteSet(Where(s, n)) BY <1>1, <1>3, WhereIs
<1>5. q = {i \in 2..Len(s) : s[i] = n} BY <1>1, <1>2, <1>3 DEF Where
<1>6. t = {i \in 1..(Len(s) - 1) : s[i + 1] = n} BY <1>1, <1>2, <1>3 DEF Where
<1>7. Cardinality(q) = Cardinality(t)
  <2>1. PICK f : f = [i \in t |-> i + 1] OBVIOUS
  <2>2. \A i \in t : f[i] \in q BY <1>1, <1>5, <1>6, <2>1
  <2>3. \A j \in q : j - 1 \in t /\ f[j - 1] = j BY <1>1, <1>5, <1>6, <2>1
  <2>4. \A i, j \in t : f[i] = f[j] => i = j BY <1>1, <1>6, <2>1
  <2>5. f \in [t -> q] BY <2>1, <2>2
  <2>6. f \in Injection(t, q) BY <2>1, <2>4, <2>5 DEF Injection, IsInjective
  <2>7. f \in Surjection(t, q) BY <2>3, <2>5 DEF Surjection
  <2>8. f \in Bijection(t, q) BY <2>6, <2>7 DEF Bijection
  <2>9. QED BY <1>4, <2>8, FS_Bijection DEF ExistsBijection
<1>8. (1 \in Where(s, n)) <=> (Head(s) = n) BY <1>1, <1>2 DEF Where
<1>9. Cardinality(q) = IF 1 \in Where(s, n) THEN Cardinality(Where(s, n)) - 1 ELSE Cardinality(Where(s, n))
  BY <1>3, <1>4, FS_RemoveElement
<1>10. Cardinality(Where(s, n)) \in Nat BY <1>4, FS_CardinalityType
<1>11. QED BY <1>3, <1>4, <1>7, <1>8, <1>9, <1>10

LEMMA CopiesIs ==
    ASSUME TypeOK, FwdInv, NEW c \in Clients, NEW n \in 1..MaxEvents
    PROVE  /\ out[c] \in Seq(1..MaxEvents) /\ got[c][n] \in Nat
           /\ Cardinality(Where(out[c], n)) \in Nat
           /\ IsFiniteSet(Pending(c, n)) /\ Cardinality(Pending(c, n)) \in Nat
           /\ Copies(c, n) = got[c][n] + Cardinality(Where(out[c], n)) + Cardinality(Pending(c, n))
           /\ Copies(c, n) \in Nat
<1>1. out[c] \in Seq(1..MaxEvents) /\ got[c][n] \in Nat
  <2>1. out \in [Clients -> Seq(1..MaxEvents)] /\ got \in [Clients -> [1..MaxEvents -> Nat]]
    BY DEF TypeOK
  <2>2. QED BY <2>1
<1>2. Cardinality(Where(out[c], n)) \in Nat BY <1>1, WhereIs
<1>3. IsFiniteSet(Pending(c, n)) /\ Cardinality(Pending(c, n)) \in Nat
  <2>1. IsFiniteSet(inflight) /\ Pending(c, n) \in SUBSET inflight BY DEF FwdInv, Pending
  <2>2. QED BY <2>1, FS_Subset, FS_CardinalityType
<1>4. Copies(c, n) = got[c][n] + Cardinality(Where(out[c], n)) + Cardinality(Pending(c, n))
  BY DEF Copies, Where, Pending
<1>5. QED BY <1>1, <1>2, <1>3, <1>4

-----------------------------------------------------------------------------
(* Steps that make no copies, and put no client into the list. *)

\* One client and event: no copies more, no places ahead more, and none fewer for a
\* client of the list.
LEMMA OneCopyKeeps ==
    ASSUME TypeOK, FwdInv, NEW c \in Clients, NEW n \in 1..MaxEvents, OneCopy(c, n),
           sent' = sent, since'[c] = since[c], Old(c) => Old(c)',
           Copies(c, n)' \in Nat, Copies(c, n)' <= Copies(c, n),
           c \in up => Copies(c, n)' = Copies(c, n),
           Shown(c)' /\ c \in up' => Shown(c) /\ c \in up,
           n = sent => Ahead(c)' \subseteq Ahead(c),
           n = sent /\ Shown(c)' => Ahead(c)' = Ahead(c),
           n = sent /\ Shown(c)' /\ range'.arr = slice'.arr => \A i \in Ahead(c)' : i <= Kept'
    PROVE  OneCopy(c, n)'
<1>1. Copies(c, n) \in Nat BY CopiesIs
<1>2. Copies(c, n)' <= 1 /\ (Copies(c, n) = 0 => Copies(c, n)' = 0) BY <1>1 DEF OneCopy
<1>3. n = sent => /\ \A i, j \in Ahead(c)' : i = j
                  /\ Copies(c, n)' = 0 \/ Ahead(c)' = {}
  BY <1>2 DEF OneCopy
<1>4. n <= since[c] \/ n > sent \/ ~ Old(c)'
          => Copies(c, n)' = 0 /\ (n = sent => Ahead(c)' = {})
  BY <1>2 DEF OneCopy
<1>5. Shown(c)' /\ c \in up' /\ since[c] < n /\ n <= sent
          => Copies(c, n)' = 1 \/ (n = sent /\ Ahead(c)' # {})
  BY DEF OneCopy
<1>6. QED BY <1>2, <1>3, <1>4, <1>5 DEF OneCopy

LEMMA FwdQuiet ==
    ASSUME IInv, FwdInv,
           UNCHANGED << heap, range, disturbed, sent, since >>, raced => raced',
           ~ raced' => slice'.arr = slice.arr /\ Kept' = Kept,
           IsFiniteSet(inflight'),
           \A a \in Apps :
               \/ /\ dials'[a] = dials[a]
                  /\ pc'[a] \in {"add", "append"} => pc[a] \in {"add", "append"}
               \/ dials'[a] = dials[a] + 1,
           \A c \in Clients, n \in 1..MaxEvents :
               /\ Copies(c, n)' \in Nat /\ Copies(c, n)' <= Copies(c, n)
               /\ c \in up => Copies(c, n)' = Copies(c, n),
           ~ raced' => \A c \in Clients : Shown(c) /\ c \in up' => c \in up
    PROVE  FwdInv'
<1>1. TypeOK BY DEF IInv
<1>2. \A c \in Clients : since'[c] <= sent' BY DEF FwdInv
<1>3. ASSUME ~ raced', NEW c \in Clients, NEW n \in 1..MaxEvents, << c, n >> \notin disturbed'
      PROVE  OneCopy(c, n)'
  <2>1. OneCopy(c, n) BY <1>3 DEF FwdInv
  <2>2. /\ Copies(c, n)' \in Nat /\ Copies(c, n)' <= Copies(c, n)
        /\ c \in up => Copies(c, n)' = Copies(c, n)
    OBVIOUS
  <2>3. sent' = sent /\ since'[c] = since[c] OBVIOUS
  <2>4. Old(c) => Old(c)' BY <1>1, OldKept
  <2>5. Shown(c)' <=> Shown(c)
    <3>1. heap'[slice'.arr] = heap[slice.arr] /\ Kept' = Kept BY <1>3
    <3>2. QED BY <3>1 DEF Shown, Entry
  <2>6. Shown(c)' /\ c \in up' => Shown(c) /\ c \in up BY <1>3, <2>5
  <2>7. Ahead(c)' = Ahead(c) BY DEF Ahead
  <2>8. n = sent /\ Shown(c)' /\ range'.arr = slice'.arr => \A i \in Ahead(c)' : i <= Kept'
    BY <1>3, <2>1, <2>5, <2>7 DEF OneCopy
  <2>9. QED BY <1>1, <2>1, <2>2, <2>3, <2>4, <2>6, <2>7, <2>8, OneCopyKeeps
<1>4. QED BY <1>2, <1>3 DEF FwdInv

\* The copies are where they were.
LEMMA FwdStill ==
    ASSUME IInv, FwdInv,
           UNCHANGED << heap, range, disturbed, sent, since, inflight, out, got >>, raced => raced',
           ~ raced' => slice'.arr = slice.arr /\ Kept' = Kept,
           \A a \in Apps :
               \/ /\ dials'[a] = dials[a]
                  /\ pc'[a] \in {"add", "append"} => pc[a] \in {"add", "append"}
               \/ dials'[a] = dials[a] + 1,
           ~ raced' => \A c \in Clients : Shown(c) /\ c \in up' => c \in up
    PROVE  FwdInv'
<1>1. TypeOK BY DEF IInv
<1>2. \A c \in Clients, n \in 1..MaxEvents : Copies(c, n)' = Copies(c, n) /\ Copies(c, n) \in Nat
  BY <1>1, CopiesIs DEF Copies, FwdInv
<1>3. \A c \in Clients, n \in 1..MaxEvents :
          /\ Copies(c, n)' \in Nat /\ Copies(c, n)' <= Copies(c, n)
          /\ c \in up => Copies(c, n)' = Copies(c, n)
  BY <1>2
<1>4. IsFiniteSet(inflight') BY DEF FwdInv
<1>5. QED BY <1>3, <1>4, FwdQuiet

\* Handlers outside the list, sockets, notices and the ID.
LEMMA FwdAside ==
    ASSUME IInv, FwdInv, NEW a \in Apps,
           \/ ReadBotID(a) \/ Dial(a) \/ DialFails(a) \/ AddWsClient(a) \/ Announce(a)
           \/ Disconnect(a) \/ RemoveWsClient(a) \/ NoticeDue(a)
    PROVE  FwdInv'
<1>1. TypeOK /\ RefInv BY DEF IInv
<1>2. UNCHANGED << sent, since, inflight, out, got, heap, slice, range, disturbed >>
  BY DEF ReadBotID, Dial, DialFails, AddWsClient, Announce, Disconnect, RemoveWsClient, NoticeDue,
         eventVars, listVars, rangeVars, Read
<1>3. raced => raced'
  BY <1>1 DEF ReadBotID, Dial, DialFails, AddWsClient, Announce, Disconnect, RemoveWsClient, NoticeDue,
         listVars, Read
<1>4. DOMAIN pc = Apps /\ DOMAIN dials = Apps /\ dials[a] \in Nat BY <1>1, Bounds DEF TypeOK
<1>5. \A b \in Apps :
          \/ /\ dials'[b] = dials[b]
             /\ pc'[b] \in {"add", "append"} => pc[b] \in {"add", "append"}
          \/ dials'[b] = dials[b] + 1
  BY <1>4 DEF ReadBotID, Dial, DialFails, AddWsClient, Announce, Disconnect, RemoveWsClient, NoticeDue,
         Goto, StartOver
<1>6. slice' = slice /\ Kept' = Kept
  <2>1. \A b \in Apps : pc'[b] = "shorten" <=> pc[b] = "shorten"
    BY <1>4 DEF ReadBotID, Dial, DialFails, AddWsClient, Announce, Disconnect, RemoveWsClient, NoticeDue,
         Goto, StartOver
  <2>2. QED BY <1>2, <2>1 DEF Kept
<1>7. up' \subseteq up \cup {<< a, dials[a] + 1 >>}
  BY DEF ReadBotID, Dial, DialFails, AddWsClient, Announce, Disconnect, RemoveWsClient, NoticeDue
<1>8. ASSUME NEW c, Shown(c) PROVE c # << a, dials[a] + 1 >>
  <2>1. Old(c) BY <1>1, <1>8, KeptFacts DEF RefInv, Shown
  <2>2. c[2] <= dials[c[1]] BY <2>1 DEF Old
  <2>3. QED BY <1>4, <2>2
<1>9. \A c \in Clients : Shown(c) /\ c \in up' => c \in up BY <1>7, <1>8
<1>10. QED BY <1>2, <1>3, <1>5, <1>6, <1>9, FwdStill

LEMMA FwdSockets ==
    ASSUME IInv, FwdInv,
           \/ \E c \in Clients : SocketCloses(c)
           \/ \E id \in Ids : ChangeBotID(id)
           \/ StoreBotID
           \/ UNCHANGED vars
    PROVE  FwdInv'
<1>1. TypeOK BY DEF IInv
<1>2. UNCHANGED << sent, since, inflight, out, got, heap, slice, raced, range, disturbed, pc, dials >>
  BY DEF SocketCloses, ChangeBotID, StoreBotID, vars, eventVars, listVars, rangeVars
<1>3. up' \subseteq up BY DEF SocketCloses, ChangeBotID, StoreBotID, vars
<1>4. \A c \in Clients : Shown(c) /\ c \in up' => c \in up BY <1>3
<1>5. Kept' = Kept BY <1>2 DEF Kept
<1>6. QED BY <1>2, <1>4, <1>5, FwdStill

\* The places of the slice, and those that the loop has before it, are in their arrays.
LEMMA RangeFacts ==
    ASSUME TypeOK, RangeInv
    PROVE  /\ range.arr \in 1..Len(heap) /\ range.len \in Nat /\ range.next \in Nat \ {0}
           /\ \A i \in range.next..range.len : i \in 1..range.len /\ i \in 1..Len(heap[range.arr])
           /\ slice.arr \in 1..Len(heap) /\ slice.len \in Nat
           /\ \A i \in 1..slice.len : i \in 1..Len(heap[slice.arr])
<1>1. heap \in Seq(Places) BY DEF TypeOK, Places
<1>2. /\ range.arr \in 1..Len(heap) /\ range.len \in Nat /\ range.next \in Nat \ {0}
      /\ slice.arr \in 1..Len(heap) /\ slice.len \in Nat
      /\ slice.len <= Len(heap[slice.arr])
  BY DEF TypeOK
<1>3. range.len <= Len(heap[range.arr]) BY DEF RangeInv
<1>4. heap[range.arr] \in Places /\ heap[slice.arr] \in Places BY <1>1, <1>2, ElementOfSeq
<1>5. Len(heap[range.arr]) \in Nat /\ Len(heap[slice.arr]) \in Nat
  BY <1>4, LenProperties DEF Places
<1>6. QED BY <1>2, <1>3, <1>5

\* The removal shows no client that was not shown; and whom it moves, where the loop is
\* still to come to, is disturbed.
LEMMA FwdShift == ASSUME IInv, FwdInv, NEW a \in Apps, Shift(a) PROVE FwdInv'
<1>1. TypeOK /\ RefInv /\ RangeInv /\ OnceInv BY DEF IInv
<1>2. /\ pc[a] = "shift" /\ pc' = [pc EXCEPT ![a] = "shorten"]
      /\ UNCHANGED << dials, up, raced, slice, range, sent, since, inflight, out, got >>
      /\ \A i \in (seen[a].place + 1)..seen[a].len :
             Reach(seen[a].arr, i) \/ Reach(seen[a].arr, i - 1)
                 => << heap[seen[a].arr][i], sent >> \in disturbed'
      /\ disturbed \subseteq disturbed'
  BY DEF Shift, eventVars, Goto
<1>3. /\ \A b \in Apps : dials'[b] = dials[b] /\ (pc'[b] \in {"add", "append"} => pc[b] \in {"add", "append"})
      /\ pc'[a] = "shorten"
  BY <1>1, <1>2 DEF TypeOK
<1>4. ASSUME ~ raced, NEW c \in Clients, NEW n \in 1..MaxEvents, << c, n >> \notin disturbed'
      PROVE  OneCopy(c, n)'
  <2>1. PICK x, p, len : x = slice.arr /\ p = seen[a].place /\ len = slice.len OBVIOUS
  <2>2. /\ seen[a].arr = x /\ seen[a].len = len /\ Entry(p) = Client(a)
        /\ \A b \in Apps : pc[b] # "shorten"
    BY <1>1, <1>2, <1>4, <2>1 DEF OnceInv, Editing
  <2>3. /\ len \in Nat /\ p \in 1..len /\ x \in 1..Len(heap)
        /\ \A i \in 1..len : i \in 1..Len(heap[x])
    BY <1>1, <1>2, <2>1, <2>2, RangeFacts DEF RefInv
  <2>4. Kept = len /\ Kept' = len - 1
    BY <1>2, <1>3, <2>1, <2>2 DEF Kept
  <2>5. \A y \in 1..Len(heap) : \A i \in 1..Len(heap[y]) :
            heap'[y][i] = IF y = x /\ p <= i /\ i < len THEN heap[y][i + 1] ELSE heap[y][i]
    BY <1>1, <2>1, <2>2, ShiftEffect DEF At
  <2>6. ASSUME Shown(c)' PROVE Shown(c) /\ c # Client(a)
    <3>1. PICK i \in 1..(len - 1) : heap'[x][i] = c BY <1>2, <2>1, <2>4, <2>6 DEF Shown, Entry
    <3>2. i \in 1..len /\ i + 1 \in 1..len BY <2>3, <3>1
    <3>3. PICK j \in 1..len : j # p /\ heap[x][j] = c
      <4>1. CASE p <= i BY <2>3, <2>5, <3>1, <3>2, <4>1
      <4>2. CASE ~ (p <= i) BY <2>3, <2>5, <3>1, <3>2, <4>2
      <4>3. QED BY <4>1, <4>2
    <3>4. Entry(j) = c BY <2>1, <3>3 DEF Entry
    <3>5. Shown(c) BY <2>4, <3>4 DEF Shown
    <3>6. c # Client(a) BY <1>1, <1>4, <2>2, <2>3, <2>4, <3>3, <3>4 DEF OnceInv
    <3>7. QED BY <3>5, <3>6
  <2>7. OneCopy(c, n) BY <1>2, <1>4 DEF FwdInv
  <2>8. Copies(c, n)' = Copies(c, n) /\ Copies(c, n) \in Nat
    BY <1>1, <1>2, CopiesIs DEF Copies
  <2>9. Old(c) => Old(c)' BY <1>1, <1>3, OldKept
  <2>10. ASSUME n = sent
         PROVE  /\ Ahead(c)' \subseteq Ahead(c)
                /\ Shown(c)' => Ahead(c)' = Ahead(c)
                /\ Shown(c)' /\ range.arr = x => \A i \in Ahead(c)' : i <= len - 1
    <3>1. PICK y, r : y = range.arr /\ r = range.next..range.len OBVIOUS
    <3>2. y \in 1..Len(heap) /\ \A i \in r : i \in 1..Len(heap[y]) /\ i \in Nat \ {0}
      BY <1>1, <3>1, RangeFacts
    <3>3. Ahead(c) = {i \in r : heap[y][i] = c} /\ Ahead(c)' = {i \in r : heap'[y][i] = c}
      BY <1>2, <3>1 DEF Ahead
    <3>4. CASE y # x
      <4>1. \A i \in r : heap'[y][i] = heap[y][i] BY <2>5, <3>2, <3>4
      <4>2. QED BY <3>1, <3>3, <3>4, <4>1
    <3>5. CASE y = x
      <4>1. \A i \in (p + 1)..len : i \in r \/ i - 1 \in r => heap[x][i] # c
        BY <1>2, <1>4, <2>2, <2>10, <2>1, <3>1, <3>5 DEF Reach
      <4>2. ASSUME NEW i \in r, heap'[x][i] = c PROVE heap[x][i] = c /\ ~ (p <= i /\ i < len)
        <5>1. ASSUME p <= i, i < len PROVE FALSE
          <6>1. heap[x][i + 1] = c /\ i + 1 \in (p + 1)..len /\ (i + 1) - 1 = i
            BY <2>3, <2>5, <3>2, <3>5, <4>2, <5>1
          <6>2. QED BY <4>1, <6>1
        <5>2. QED BY <2>3, <2>5, <3>2, <3>5, <4>2, <5>1
      <4>3. ASSUME Shown(c)', NEW i \in r, heap[x][i] = c PROVE heap'[x][i] = c /\ i # len
        <5>1. i # p
          <6>1. c # Client(a) BY <2>6, <4>3
          <6>2. QED BY <2>1, <2>2, <4>3, <6>1 DEF Entry
        <5>2. ~ (p < i /\ i <= len) BY <2>3, <3>2, <4>1, <4>3
        <5>3. p \in 1..len /\ len \in Nat /\ i \in Nat BY <2>3, <3>2
        <5>4. i # len /\ ~ (p <= i /\ i < len) BY <5>1, <5>2, <5>3
        <5>5. x \in 1..Len(heap) /\ i \in 1..Len(heap[x]) BY <2>3, <3>2, <3>5
        <5>6. heap'[x][i] = heap[x][i] BY <2>5, <5>4, <5>5
        <5>7. QED BY <4>3, <5>4, <5>6
      <4>4. ASSUME Shown(c)', NEW i \in r, heap'[x][i] = c PROVE i <= len - 1
        <5>1. i # len /\ i \in Ahead(c) BY <3>3, <3>5, <4>2, <4>3, <4>4
        <5>2. i <= len BY <2>1, <2>4, <2>6, <2>7, <2>10, <3>1, <3>5, <4>4, <5>1 DEF OneCopy
        <5>3. QED BY <2>3, <3>2, <5>1, <5>2
      <4>5. QED BY <3>3, <3>5, <4>2, <4>3, <4>4
    <3>6. QED BY <3>4, <3>5
  <2>11. sent' = sent /\ since'[c] = since[c] /\ range' = range /\ slice' = slice BY <1>2
  <2>12. Shown(c)' /\ c \in up' => Shown(c) /\ c \in up BY <1>2, <2>6
  <2>13. n = sent /\ Shown(c)' /\ range'.arr = slice'.arr => \A i \in Ahead(c)' : i <= Kept'
    BY <2>1, <2>4, <2>10, <2>11
  <2>14. /\ Copies(c, n)' \in Nat /\ Copies(c, n)' <= Copies(c, n)
         /\ c \in up => Copies(c, n)' = Copies(c, n)
    BY <2>8
  <2>15. QED BY <1>1, <2>7, <2>9, <2>10, <2>11, <2>12, <2>13, <2>14, OneCopyKeeps
<1>5. IsFiniteSet(inflight') /\ \A c \in Clients : since'[c] <= sent' BY <1>2 DEF FwdInv
<1>6. QED BY <1>2, <1>4, <1>5 DEF FwdInv

\* The store of the shorter slice changes nothing of that.
LEMMA FwdShorten == ASSUME IInv, FwdInv, NEW a \in Apps, Shorten(a) PROVE FwdInv'
<1>1. TypeOK /\ OnceInv BY DEF IInv
<1>2. /\ pc[a] = "shorten" /\ pc' = [pc EXCEPT ![a] = "pause"]
      /\ slice' = [arr |-> seen[a].arr, len |-> seen[a].len - 1]
      /\ UNCHANGED << heap, range, disturbed, dials, up, raced, sent, since, inflight, out, got >>
  BY DEF Shorten, eventVars, rangeVars, Goto
<1>3. \A b \in Apps : /\ dials'[b] = dials[b]
                      /\ pc'[b] \in {"add", "append"} => pc[b] \in {"add", "append"}
                      /\ b # a => pc'[b] = pc[b]
  BY <1>1, <1>2 DEF TypeOK
<1>4. ASSUME ~ raced' PROVE slice'.arr = slice.arr /\ Kept' = Kept
  <2>1. seen[a].arr = slice.arr /\ seen[a].len = slice.len
    BY <1>1, <1>2, <1>4 DEF OnceInv, Editing
  <2>2. \A b \in Apps : pc'[b] # "shorten"
    <3>1. pc'[a] # "shorten" BY <1>1, <1>2 DEF TypeOK
    <3>2. \A b \in Apps : pc[b] = "shorten" => b = a BY <1>1, <1>2, <1>4 DEF OnceInv, Editing
    <3>3. QED BY <1>3, <3>1, <3>2
  <2>3. slice'.arr = slice.arr /\ slice'.len = slice.len - 1 BY <1>2, <2>1
  <2>4. QED BY <1>2, <2>2, <2>3 DEF Kept
<1>5. QED BY <1>2, <1>3, <1>4, FwdStill

-----------------------------------------------------------------------------
(* Events move on. *)

\* From the goroutine into the queue.
LEMMA FwdWrite == ASSUME IInv, FwdInv, NEW f \in inflight, WriteMessage(f) PROVE FwdInv'
<1>1. TypeOK BY DEF IInv
<1>2. /\ inflight' = inflight \ {f} /\ out' = [out EXCEPT ![f[1]] = Append(@, f[2])]
      /\ UNCHANGED << pc, dials, up, heap, slice, raced, range, disturbed, sent, since, got >>
  BY DEF WriteMessage, listVars, rangeVars
<1>3. f[1] \in Clients /\ f[2] \in 1..MaxEvents BY <1>1 DEF TypeOK
<1>4. IsFiniteSet(inflight') BY <1>2, FS_RemoveElement DEF FwdInv
<1>5. ASSUME NEW c \in Clients, NEW n \in 1..MaxEvents
      PROVE  Copies(c, n)' = Copies(c, n) /\ Copies(c, n) \in Nat
  <2>1. /\ out[c] \in Seq(1..MaxEvents) /\ got[c][n] \in Nat
        /\ Cardinality(Where(out[c], n)) \in Nat
        /\ IsFiniteSet(Pending(c, n)) /\ Cardinality(Pending(c, n)) \in Nat
        /\ Copies(c, n) = got[c][n] + Cardinality(Where(out[c], n)) + Cardinality(Pending(c, n))
        /\ Copies(c, n) \in Nat
    BY <1>1, CopiesIs DEF FwdInv
  <2>2. PICK p : p = Pending(c, n) \ {f} OBVIOUS
  <2>3. Copies(c, n)' = got[c][n] + Cardinality(Where(out'[c], n)) + Cardinality(p)
    <3>1. p = {g \in inflight' : g[1] = c /\ g[2] = n} BY <1>2, <2>2 DEF Pending
    <3>2. QED BY <1>2, <3>1 DEF Copies, Where
  <2>4. CASE f \in Pending(c, n)
    <3>1. c = f[1] /\ n = f[2] BY <2>4 DEF Pending
    <3>2. out'[c] = Append(out[c], n) BY <1>1, <1>2, <3>1 DEF TypeOK
    <3>3. Cardinality(Where(out'[c], n)) = Cardinality(Where(out[c], n)) + 1
      <4>1. PICK s \in Seq(1..MaxEvents) : s = out[c] BY <2>1
      <4>2. Cardinality(Where(Append(s, n), n)) = Cardinality(Where(s, n)) + 1
        BY WhereAppended
      <4>3. QED BY <3>2, <4>1, <4>2
    <3>4. Cardinality(p) = Cardinality(Pending(c, n)) - 1
      BY <2>1, <2>2, <2>4, FS_RemoveElement
    <3>5. QED BY <2>1, <2>3, <3>3, <3>4
  <2>5. CASE f \notin Pending(c, n)
    <3>1. p = Pending(c, n) BY <2>2, <2>5
    <3>2. c # f[1] \/ f[2] # n BY <2>5 DEF Pending
    <3>3. Cardinality(Where(out'[c], n)) = Cardinality(Where(out[c], n))
      <4>1. CASE c # f[1]
        <5>1. out'[c] = out[c] BY <1>1, <1>2, <4>1 DEF TypeOK
        <5>2. QED BY <5>1
      <4>2. CASE c = f[1] /\ f[2] # n
        <5>1. out'[c] = Append(out[c], f[2]) BY <1>1, <1>2, <4>2 DEF TypeOK
        <5>2. Where(out'[c], n) = Where(out[c], n) 
          <6>1. PICK s \in Seq(1..MaxEvents) : s = out[c] BY <2>1
          <6>2. Where(Append(s, f[2]), n) = Where(s, n) BY <1>3, <4>2, WhereAppended
          <6>3. QED BY <5>1, <6>1, <6>2
        <5>3. QED BY <5>2
      <4>3. QED BY <3>2, <4>1, <4>2
    <3>4. QED BY <2>1, <2>3, <3>1, <3>3
  <2>6. QED BY <2>1, <2>4, <2>5
<1>6. \A c \in Clients, n \in 1..MaxEvents :
          /\ Copies(c, n)' \in Nat /\ Copies(c, n)' <= Copies(c, n)
          /\ c \in up => Copies(c, n)' = Copies(c, n)
  BY <1>5
<1>7. Kept' = Kept BY <1>2 DEF Kept
<1>8. QED BY <1>2, <1>4, <1>6, <1>7, FwdQuiet

\* From the queue to the app, or nowhere when its socket is closed.
LEMMA FwdWriteLoop == ASSUME IInv, FwdInv, NEW d \in Clients, writeLoop(d) PROVE FwdInv'
<1>1. TypeOK BY DEF IInv
<1>2. PICK h : h = Head(out[d]) OBVIOUS
<1>3. /\ out[d] # << >> /\ out' = [out EXCEPT ![d] = Tail(@)]
      /\ got' = [got EXCEPT ![d][h] = IF d \in up THEN @ + 1 ELSE @]
      /\ UNCHANGED << pc, dials, up, heap, slice, raced, range, disturbed, sent, since, inflight >>
  BY <1>2 DEF writeLoop, listVars, rangeVars
<1>4. ASSUME NEW c \in Clients, NEW n \in 1..MaxEvents
      PROVE  /\ Copies(c, n)' \in Nat /\ Copies(c, n)' <= Copies(c, n)
             /\ c \in up => Copies(c, n)' = Copies(c, n)
  <2>1. /\ out[c] \in Seq(1..MaxEvents) /\ got[c][n] \in Nat
        /\ Cardinality(Where(out[c], n)) \in Nat
        /\ Cardinality(Pending(c, n)) \in Nat
        /\ Copies(c, n) = got[c][n] + Cardinality(Where(out[c], n)) + Cardinality(Pending(c, n))
    BY <1>1, CopiesIs DEF FwdInv
  <2>2. Copies(c, n)' = got'[c][n] + Cardinality(Where(out'[c], n)) + Cardinality(Pending(c, n))
    BY <1>3 DEF Copies, Where, Pending
  <2>3. CASE c # d
    <3>1. out'[c] = out[c] /\ got'[c] = got[c] BY <1>1, <1>3, <2>3 DEF TypeOK
    <3>2. Copies(c, n)' = Copies(c, n) BY <2>1, <2>2, <3>1
    <3>3. QED BY <2>1, <3>2
  <2>4. CASE c = d
    <3>1. out'[c] = Tail(out[c]) /\ h = Head(out[c]) /\ out[c] # << >>
      BY <1>1, <1>2, <1>3, <2>4 DEF TypeOK
    <3>2. PICK w, v : w = Cardinality(Where(out[c], n)) /\ v = Cardinality(Where(out'[c], n)) OBVIOUS
    <3>3. w = v + (IF h = n THEN 1 ELSE 0) BY <2>1, <3>1, <3>2, WhereTaken
    <3>4. v \in Nat
      <4>1. Tail(out[c]) \in Seq(1..MaxEvents) BY <2>1, <3>1, HeadTailProperties
      <4>2. QED BY <3>1, <3>2, <4>1, WhereIs
    <3>5. got'[c][n] = IF h = n /\ c \in up THEN got[c][n] + 1 ELSE got[c][n]
      <4>1. got \in [Clients -> [1..MaxEvents -> Nat]] BY <1>1 DEF TypeOK
      <4>2. QED BY <1>3, <2>4, <4>1
    <3>6. PICK p, g, x, y : /\ p = Cardinality(Pending(c, n)) /\ g = got[c][n]
                            /\ x = Copies(c, n) /\ y = Copies(c, n)'
      OBVIOUS
    <3>7. p \in Nat /\ g \in Nat /\ x = g + w + p BY <2>1, <3>2, <3>6
    <3>8. y = (IF h = n /\ c \in up THEN g + 1 ELSE g) + v + p BY <2>2, <3>2, <3>5, <3>6
    <3>9. y \in Nat /\ y <= x /\ (c \in up => y = x) BY <3>3, <3>4, <3>7, <3>8
    <3>10. QED BY <3>6, <3>9
  <2>5. QED BY <2>3, <2>4
<1>5. Kept' = Kept BY <1>3 DEF Kept
<1>6. IsFiniteSet(inflight') BY <1>3 DEF FwdInv
<1>7. QED BY <1>3, <1>4, <1>5, <1>6, FwdQuiet

\* The record of a client that is gone is cleared; it is not in the list.
LEMMA FwdClose == ASSUME IInv, FwdInv, NEW a \in Apps, CloseClient(a) PROVE FwdInv'
<1>1. TypeOK /\ RefInv /\ OnceInv BY DEF IInv
<1>2. PICK k : k = Client(a) OBVIOUS
<1>3. /\ pc[a] = "pause" /\ out[k] = << >> /\ \A f \in inflight : f[1] # k
      /\ got' = [got EXCEPT ![k] = [n \in 1..MaxEvents |-> 0]]
      /\ since' = [since EXCEPT ![k] = 0]
      /\ pc' = [pc EXCEPT ![a] = "wait"] /\ Ahead(k) = {}
      /\ UNCHANGED << dials, up, heap, slice, range, disturbed, raced, sent, inflight, out >>
  BY <1>2 DEF CloseClient, listVars, rangeVars, StartOver, Goto
<1>4. k \in Clients
  <2>1. dials[a] \in 0..(MaxRedials + 1) /\ dials[a] # 0 BY <1>1, <1>3 DEF TypeOK, RefInv
  <2>2. dials[a] \in 1..(MaxRedials + 1) BY <2>1, Bounds
  <2>3. QED BY <1>2, <2>2 DEF Client, Clients
<1>5. \A c \in Clients : since'[c] <= sent'
  <2>1. sent \in Nat /\ since \in [Clients -> 0..MaxEvents] BY <1>1, Bounds DEF TypeOK
  <2>2. \A c \in Clients : since'[c] = IF c = k THEN 0 ELSE since[c] BY <1>3, <2>1
  <2>3. QED BY <1>3, <2>1, <2>2 DEF FwdInv
<1>6. ASSUME ~ raced', NEW c \in Clients, NEW n \in 1..MaxEvents, << c, n >> \notin disturbed'
      PROVE  OneCopy(c, n)'
  <2>1. ~ raced /\ OneCopy(c, n) BY <1>3, <1>6 DEF FwdInv
  <2>2. Copies(c, n)' = got'[c][n] + Cardinality(Where(out[c], n)) + Cardinality(Pending(c, n))
    BY <1>3 DEF Copies, Where, Pending
  <2>3. Old(c) => Old(c)'
    <3>1. \A b \in Apps : /\ dials'[b] = dials[b]
                          /\ pc'[b] \in {"add", "append"} => pc[b] \in {"add", "append"}
      BY <1>1, <1>3 DEF TypeOK
    <3>2. QED BY <1>1, <3>1, OldKept
  <2>4. (Shown(c)' <=> Shown(c)) /\ Kept' = Kept /\ Ahead(c)' = Ahead(c)
    <3>1. \A b \in Apps : pc'[b] = "shorten" <=> pc[b] = "shorten" BY <1>1, <1>3 DEF TypeOK
    <3>2. Kept' = Kept BY <1>3, <3>1 DEF Kept
    <3>3. QED BY <1>3, <3>2 DEF Shown, Entry, Ahead
  <2>5. CASE c # k
    <3>1. got'[c] = got[c] /\ since'[c] = since[c] BY <1>1, <1>3, <2>5 DEF TypeOK
    <3>2. Copies(c, n)' = Copies(c, n) BY <2>2, <3>1 DEF Copies, Where, Pending
    <3>3. Copies(c, n) \in Nat BY <1>1, CopiesIs
    <3>4. n = sent /\ Shown(c)' /\ range'.arr = slice'.arr => \A i \in Ahead(c)' : i <= Kept'
      BY <1>3, <2>1, <2>4 DEF OneCopy
    <3>5. QED BY <1>1, <1>3, <2>1, <2>3, <2>4, <3>1, <3>2, <3>3, <3>4, OneCopyKeeps
  <2>6. CASE c = k
    <3>1. got'[c][n] = 0 BY <1>1, <1>3, <2>6 DEF TypeOK
    <3>2. Where(out[c], n) = {} BY <1>3, <2>6 DEF Where
    <3>3. Pending(c, n) = {} BY <1>3, <2>6 DEF Pending
    <3>4. Copies(c, n)' = 0 BY <2>2, <3>1, <3>2, <3>3, FS_EmptySet
    <3>5. ~ Shown(c)
      <4>1. SUFFICES ASSUME NEW i \in 1..Kept, Entry(i) = c PROVE FALSE BY DEF Shown
      <4>2. pc[c[1]] \in Served BY <1>1, <2>1, <4>1 DEF OnceInv
      <4>3. c[1] = a BY <1>2, <2>6 DEF Client
      <4>4. QED BY <1>3, <4>2, <4>3 DEF Served
    <3>6. Ahead(c)' = {} BY <1>3, <2>4, <2>6
    <3>7. QED BY <2>4, <3>4, <3>5, <3>6 DEF OneCopy
  <2>7. QED BY <2>5, <2>6
<1>7. IsFiniteSet(inflight') BY <1>3 DEF FwdInv
<1>8. QED BY <1>5, <1>6, <1>7 DEF FwdInv

\* A client is put into the list: nothing was sent to it yet.
LEMMA FwdAppend == ASSUME IInv, FwdInv, NEW a \in Apps, StoreAppended(a) PROVE FwdInv'
<1>1. TypeOK /\ RefInv /\ RangeInv /\ OnceInv BY DEF IInv
<1>2. PICK k : k = Client(a) OBVIOUS
<1>3. /\ pc[a] = "append" /\ pc' = [pc EXCEPT ![a] = "announce"]
      /\ since' = [since EXCEPT ![k] = sent]
      /\ UNCHANGED << dials, up, raced, range, sent, inflight, out, got >>
  BY <1>2 DEF StoreAppended, Goto
<1>4. /\ k \in Clients /\ slice'.len = seen[a].len + 1
      /\ \A i \in 1..seen[a].len : Entry(i)' = At(seen[a].arr, i)
      /\ \A x \in 1..Len(heap) : \A i \in 1..Len(heap[x]) :
             heap'[x][i] = IF x = slice'.arr /\ i = slice'.len THEN k ELSE heap[x][i]
      /\ slice'.arr = seen[a].arr \/ slice'.arr = Len(heap) + 1
  BY <1>1, <1>2, AppendEffect DEF At
<1>5. \A c \in Clients : since'[c] = IF c = k THEN sent ELSE since[c] BY <1>1, <1>3 DEF TypeOK
<1>6. \A c \in Clients : since'[c] <= sent'
  <2>1. sent \in Nat BY <1>1, Bounds DEF TypeOK
  <2>2. QED BY <1>3, <1>5, <2>1 DEF FwdInv
<1>7. /\ disturbed \subseteq disturbed'
      /\ Reach(slice'.arr, slice'.len) => << k, sent >> \in disturbed'
  <2>1. Len(heap) \in Nat /\ range.arr \in 1..Len(heap)
    <3>1. heap \in Seq(Places) BY <1>1 DEF TypeOK, Places
    <3>2. QED BY <1>1, <3>1, LenProperties, RangeFacts
  <2>2. CASE /\ slice' = [arr |-> seen[a].arr, len |-> seen[a].len + 1]
             /\ disturbed' = IF Reach(seen[a].arr, seen[a].len + 1)
                             THEN disturbed \cup {<< k, sent >>} ELSE disturbed
    BY <2>2
  <2>3. CASE slice'.arr = Len(heap) + 1 /\ disturbed' = disturbed
    BY <2>1, <2>3 DEF Reach
  <2>4. QED BY <1>2, <2>2, <2>3 DEF StoreAppended
<1>8. \A b \in Apps : /\ dials'[b] = dials[b]
                      /\ pc'[b] \in {"add", "append"} => pc[b] \in {"add", "append"}
                      /\ pc'[b] = "shorten" <=> pc[b] = "shorten"
  BY <1>1, <1>3 DEF TypeOK
<1>9. \A c \in Clients : \A i \in range.next..range.len :
          i \in Ahead(c)' <=> IF range.arr = slice'.arr /\ i = slice'.len THEN k = c ELSE i \in Ahead(c)
  BY <1>1, <1>3, <1>4, RangeFacts DEF Ahead
<1>10. \A c : \A i \in Ahead(c) \cup Ahead(c)' : i \in range.next..range.len BY <1>3 DEF Ahead
<1>11. ASSUME ~ raced', NEW c \in Clients, NEW n \in 1..MaxEvents, << c, n >> \notin disturbed'
       PROVE  OneCopy(c, n)'
  <2>1. ~ raced /\ OneCopy(c, n) BY <1>3, <1>7, <1>11 DEF FwdInv
  <2>2. Copies(c, n)' = Copies(c, n) /\ Copies(c, n) \in Nat
    BY <1>1, <1>3, CopiesIs DEF Copies
  <2>3. CASE c = k
    <3>1. ~ Old(c) BY <1>2, <1>3, <2>3 DEF Old, Client
    <3>2. Copies(c, n)' = 0 /\ (n = sent => Ahead(c) = {}) BY <2>1, <2>2, <3>1 DEF OneCopy
    <3>3. since'[c] = sent' BY <1>3, <1>5, <2>3
    <3>4. ~ (since'[c] < n /\ n <= sent')
      <4>1. sent' \in Nat /\ n \in Nat BY <1>1, <1>3, Bounds DEF TypeOK
      <4>2. QED BY <3>3, <4>1
    <3>5. n = sent => Ahead(c)' = {}
      <4>1. SUFFICES ASSUME n = sent, NEW i \in Ahead(c)' PROVE FALSE OBVIOUS
      <4>2. i \in range.next..range.len BY <1>10, <4>1
      <4>3. range.arr = slice'.arr /\ i = slice'.len BY <1>9, <3>2, <4>1, <4>2
      <4>4. Reach(slice'.arr, slice'.len) BY <4>2, <4>3 DEF Reach
      <4>5. QED BY <1>7, <1>11, <2>3, <4>1, <4>4
    <3>6. QED BY <1>3, <3>2, <3>4, <3>5 DEF OneCopy
  <2>4. CASE c # k
    <3>1. since'[c] = since[c] BY <1>5, <2>4
    <3>2. Old(c) => Old(c)' BY <1>1, <1>8, OldKept
    <3>3. /\ seen[a].arr = slice.arr /\ seen[a].len = slice.len
          /\ \A b \in Apps : pc[b] # "shorten"
      BY <1>1, <1>3, <2>1 DEF OnceInv, Editing
    <3>4. slice.len \in Nat /\ Kept = slice.len /\ Kept' = slice.len + 1
          /\ slice'.len = slice.len + 1 /\ slice.arr \in 1..Len(heap)
      BY <1>1, <1>4, <1>8, <3>3, RangeFacts DEF Kept
    <3>5. ASSUME Shown(c)' PROVE Shown(c)
      <4>1. PICK i \in 1..(slice.len + 1) : Entry(i)' = c BY <3>4, <3>5 DEF Shown
      <4>2. i # slice.len + 1
        <5>1. \A m : m = seen[a].len + 1 => Entry(m)' = k BY <1>1, <1>2, AppendEffect
        <5>2. QED BY <2>4, <3>3, <4>1, <5>1
      <4>3. i \in 1..slice.len BY <3>4, <4>1, <4>2
      <4>4. Entry(i) = c BY <1>4, <3>3, <4>1, <4>3 DEF At, Entry
      <4>5. QED BY <3>4, <4>3, <4>4 DEF Shown
    <3>6. Ahead(c)' \subseteq Ahead(c) BY <1>9, <1>10, <2>4
    <3>7. ASSUME n = sent, Shown(c)' PROVE Ahead(c)' = Ahead(c)
      <4>1. SUFFICES ASSUME NEW i \in Ahead(c), i \notin Ahead(c)' PROVE FALSE BY <3>6
      <4>2. i \in range.next..range.len BY <1>10, <4>1
      <4>3. range.arr = slice'.arr /\ i = slice'.len BY <1>9, <4>1, <4>2
      <4>4. range.arr = slice.arr
        <5>1. range.arr \in 1..Len(heap) /\ Len(heap) \in Nat
          <6>1. heap \in Seq(Places) BY <1>1 DEF TypeOK, Places
          <6>2. QED BY <1>1, <6>1, LenProperties, RangeFacts
        <5>2. QED BY <1>4, <3>3, <4>3, <5>1
      <4>5. i <= slice.len BY <2>1, <3>4, <3>5, <3>7, <4>1, <4>4 DEF OneCopy
      <4>6. QED BY <3>4, <4>3, <4>5
    <3>8. ASSUME n = sent, Shown(c)', range'.arr = slice'.arr, NEW i \in Ahead(c)' PROVE i <= Kept'
      <4>1. i \in Ahead(c) /\ i \in range.next..range.len BY <1>10, <3>6, <3>8
      <4>2. range.arr = slice.arr
        <5>1. range.arr \in 1..Len(heap) /\ Len(heap) \in Nat
          <6>1. heap \in Seq(Places) BY <1>1 DEF TypeOK, Places
          <6>2. QED BY <1>1, <6>1, LenProperties, RangeFacts
        <5>2. QED BY <1>3, <1>4, <3>3, <3>8, <5>1
      <4>3. i <= slice.len BY <2>1, <3>4, <3>5, <3>8, <4>1, <4>2 DEF OneCopy
      <4>4. i \in Nat BY <1>1, <4>1, RangeFacts
      <4>5. QED BY <3>4, <4>3, <4>4
    <3>9. Shown(c)' /\ c \in up' => Shown(c) /\ c \in up BY <1>3, <3>5
    <3>10. /\ Copies(c, n)' \in Nat /\ Copies(c, n)' <= Copies(c, n)
           /\ c \in up => Copies(c, n)' = Copies(c, n)
      BY <2>2
    <3>11. sent' = sent BY <1>3
    <3>12. QED BY <1>1, <2>1, <3>1, <3>2, <3>6, <3>7, <3>8, <3>9, <3>10, <3>11, OneCopyKeeps
  <2>5. QED BY <2>3, <2>4
<1>12. IsFiniteSet(inflight') BY <1>3 DEF FwdInv
<1>13. QED BY <1>6, <1>11, <1>12 DEF FwdInv

\* An event comes: its loop has each client of the list before it once, unless it is
\* disturbed, and no others.
LEMMA FwdForward == ASSUME IInv, FwdInv, Forward PROVE FwdInv'
<1>1. TypeOK /\ RefInv /\ OnceInv BY DEF IInv
<1>2. PICK m : m = sent + 1 OBVIOUS
<1>3. /\ sent < MaxEvents /\ sent' = m /\ range = NoRange
      /\ range' = IF slice.len = 0 THEN NoRange ELSE [arr |-> slice.arr, len |-> slice.len, next |-> 1]
      /\ UNCHANGED << pc, dials, up, heap, slice, raced, since, inflight, out, got >>
  BY <1>2 DEF Forward, listVars
<1>4. sent \in Nat /\ m \in 1..MaxEvents /\ m = sent + 1 BY <1>1, <1>2, <1>3, Bounds DEF TypeOK
<1>5. /\ disturbed \subseteq disturbed'
      /\ slice.len > 0 /\ (\E b \in Apps : pc[b] = "shorten") => << Entry(slice.len), m >> \in disturbed'
  <2>1. slice.len \in Nat BY <1>1 DEF TypeOK
  <2>2. slice.len > 0 => Listed[slice.len] = Entry(slice.len) BY <1>1, <2>1, ListedFacts
  <2>3. QED BY <1>2, <2>2 DEF Forward
<1>6. \A c : Ahead(c) = {} BY <1>3 DEF Ahead, NoRange
<1>7. \A c : Ahead(c)' = {i \in 1..slice.len : Entry(i) = c}
  <2>1. slice.len \in Nat BY <1>1 DEF TypeOK
  <2>2. CASE slice.len = 0
    <3>1. range'.next = 1 /\ range'.len = 0 BY <1>3, <2>2 DEF NoRange
    <3>2. QED BY <2>2, <3>1 DEF Ahead
  <2>3. CASE slice.len # 0
    <3>1. range'.next = 1 /\ range'.len = slice.len /\ range'.arr = slice.arr BY <1>3, <2>3
    <3>2. QED BY <1>3, <3>1 DEF Ahead, Entry
  <2>4. QED BY <2>2, <2>3
<1>8. \A c \in Clients : since'[c] <= sent'
  <2>1. since \in [Clients -> 0..MaxEvents] BY <1>1 DEF TypeOK
  <2>2. \A c \in Clients : since[c] <= sent BY DEF FwdInv
  <2>3. QED BY <1>3, <1>4, <2>1, <2>2, Bounds
<1>9. ASSUME ~ raced', NEW c \in Clients, NEW n \in 1..MaxEvents, << c, n >> \notin disturbed'
      PROVE  OneCopy(c, n)'
  <2>1. ~ raced /\ OneCopy(c, n) BY <1>3, <1>5, <1>9 DEF FwdInv
  <2>2. Copies(c, n)' = Copies(c, n) /\ Copies(c, n) \in Nat
    BY <1>1, <1>3, CopiesIs DEF Copies
  <2>3. Kept' = Kept BY <1>3 DEF Kept
  <2>4. (Old(c)' <=> Old(c)) /\ (Shown(c)' <=> Shown(c))
    BY <1>3, <2>3 DEF Old, Shown, Entry
  <2>5. n \in Nat /\ since[c] \in Nat /\ since[c] <= sent /\ since'[c] = since[c]
    BY <1>1, <1>3, Bounds DEF TypeOK, FwdInv
  <2>6. CASE n # m
    <3>1. (n > sent' => n > sent) /\ (n <= sent' => n <= sent) /\ n # sent'
      BY <1>3, <1>4, <2>5, <2>6
    <3>2. since[c] < n /\ n <= sent /\ Shown(c) /\ c \in up => Copies(c, n) = 1
      BY <1>6, <2>1 DEF OneCopy
    <3>3. n <= since[c] \/ n > sent \/ ~ Old(c) => Copies(c, n) = 0 BY <2>1 DEF OneCopy
    <3>4. Copies(c, n) <= 1 BY <2>1 DEF OneCopy
    <3>5. QED BY <1>3, <2>2, <2>4, <2>5, <3>1, <3>2, <3>3, <3>4 DEF OneCopy
  <2>7. CASE n = m
    <3>1. Copies(c, n)' = 0 /\ ~ (n <= since'[c]) /\ ~ (n > sent')
      BY <1>3, <1>4, <2>1, <2>2, <2>5, <2>7 DEF OneCopy
    <3>2. \A i \in Ahead(c)' : i \in 1..Kept
      <4>1. SUFFICES ASSUME NEW i \in 1..slice.len, Entry(i) = c PROVE i \in 1..Kept BY <1>7
      <4>2. CASE \E b \in Apps : pc[b] = "shorten"
        <5>1. slice.len \in Nat /\ Kept = slice.len - 1 BY <1>1, <4>2, KeptFacts
        <5>2. i # slice.len BY <1>5, <1>9, <2>7, <4>1, <4>2, <5>1
        <5>3. QED BY <4>1, <5>1, <5>2
      <4>3. CASE \A b \in Apps : pc[b] # "shorten"
        BY <1>1, <4>1, <4>3, KeptFacts
      <4>4. QED BY <4>2, <4>3
    <3>3. \A i, j \in Ahead(c)' : i = j BY <1>1, <1>7, <2>1, <3>2 DEF OnceInv
    <3>4. Ahead(c)' # {} => Old(c) BY <1>1, <1>7 DEF RefInv
    <3>5. Shown(c) => Ahead(c)' # {}
      <4>1. SUFFICES ASSUME NEW i \in 1..Kept, Entry(i) = c PROVE Ahead(c)' # {} BY DEF Shown
      <4>2. i \in 1..slice.len BY <1>1, <4>1, KeptFacts
      <4>3. QED BY <1>7, <4>1, <4>2
    <3>6. \A i \in Ahead(c)' : i <= Kept'
      <4>1. Kept \in Int BY <1>1 DEF Kept, TypeOK
      <4>2. QED BY <2>3, <3>2, <4>1
    <3>7. n = sent' BY <1>3, <2>7
    <3>8. QED BY <2>4, <3>1, <3>3, <3>4, <3>5, <3>6, <3>7 DEF OneCopy
  <2>8. QED BY <2>6, <2>7
<1>10. IsFiniteSet(inflight') BY <1>3 DEF FwdInv
<1>11. QED BY <1>8, <1>9, <1>10 DEF FwdInv

\* The loop comes to a place: a copy for the client there, which it was ahead of.
LEMMA FwdNext == ASSUME IInv, FwdInv, ForwardToNext PROVE FwdInv'
<1>1. TypeOK /\ RefInv /\ RangeInv BY DEF IInv
<1>2. PICK k, q : k = heap[range.arr][range.next] /\ q = range.next OBVIOUS
<1>3. /\ range # NoRange /\ inflight' = inflight \cup {<< k, sent, q >>}
      /\ range' = IF q = range.len THEN NoRange ELSE [range EXCEPT !.next = q + 1]
      /\ UNCHANGED << pc, dials, up, heap, slice, raced, disturbed, sent, since, out, got >>
  BY <1>2 DEF ForwardToNext, listVars
<1>4. /\ q \in Nat \ {0} /\ range.len \in Nat /\ q <= range.len /\ sent \in 1..MaxEvents
  BY <1>1, <1>2, <1>3, Bounds, RangeFacts DEF TypeOK, RangeInv
<1>5. k \in Clients BY <1>1, <1>2, <1>4 DEF RangeInv, At, Old
<1>6. \A c : Ahead(c)' = Ahead(c) \ {q}
  <2>1. CASE q = range.len
    <3>1. range'.next = 1 /\ range'.len = 0 BY <1>3, <2>1 DEF NoRange
    <3>2. \A c : Ahead(c)' = {} BY <3>1 DEF Ahead
    <3>3. range.next..range.len = {q} BY <1>2, <1>4, <2>1
    <3>4. QED BY <3>2, <3>3 DEF Ahead
  <2>2. CASE q # range.len
    <3>1. range \in [arr : 1..Len(heap), len : Nat, next : Nat \ {0}] BY <1>1 DEF TypeOK
    <3>2. range'.next = q + 1 /\ range'.len = range.len /\ range'.arr = range.arr
      BY <1>3, <2>2, <3>1
    <3>3. \A i : i \in (q + 1)..range.len <=> i \in q..range.len /\ i # q BY <1>4
    <3>4. QED BY <1>2, <1>3, <3>2, <3>3 DEF Ahead
  <2>3. QED BY <2>1, <2>2
<1>7. \A c : q \in Ahead(c) <=> c = k BY <1>2, <1>4 DEF Ahead
<1>8. Kept' = Kept BY <1>3 DEF Kept
<1>9. ASSUME ~ raced', NEW c \in Clients, NEW n \in 1..MaxEvents, << c, n >> \notin disturbed'
      PROVE  OneCopy(c, n)'
  <2>1. ~ raced /\ OneCopy(c, n) BY <1>3, <1>9 DEF FwdInv
  <2>2. /\ got[c][n] \in Nat /\ Cardinality(Where(out[c], n)) \in Nat
        /\ IsFiniteSet(Pending(c, n)) /\ Cardinality(Pending(c, n)) \in Nat
        /\ Copies(c, n) = got[c][n] + Cardinality(Where(out[c], n)) + Cardinality(Pending(c, n))
    BY <1>1, CopiesIs
  <2>3. PICK p : p = {f \in inflight \cup {<< k, sent, q >>} : f[1] = c /\ f[2] = n} OBVIOUS
  <2>4. Copies(c, n)' = got[c][n] + Cardinality(Where(out[c], n)) + Cardinality(p)
    BY <1>3, <2>3 DEF Copies, Where
  <2>5. (Old(c)' <=> Old(c)) /\ (Shown(c)' <=> Shown(c))
    BY <1>3, <1>8 DEF Old, Shown, Entry
  <2>6. CASE c # k \/ n # sent
    <3>1. p = Pending(c, n) BY <2>3, <2>6 DEF Pending
    <3>2. /\ Copies(c, n)' \in Nat /\ Copies(c, n)' <= Copies(c, n)
          /\ c \in up => Copies(c, n)' = Copies(c, n)
      BY <2>2, <2>4, <3>1
    <3>3. n = sent => Ahead(c)' = Ahead(c) BY <1>6, <1>7, <2>6
    <3>4. ASSUME n = sent, Shown(c)', range'.arr = slice'.arr PROVE \A i \in Ahead(c)' : i <= Kept'
      <4>1. CASE range' = NoRange
        <5>1. Ahead(c)' = {} BY <4>1 DEF Ahead, NoRange
        <5>2. QED BY <5>1
      <4>2. CASE range' # NoRange
        <5>1. range \in [arr : 1..Len(heap), len : Nat, next : Nat \ {0}] BY <1>1 DEF TypeOK
        <5>2. range'.arr = range.arr BY <1>3, <4>2, <5>1
        <5>3. QED BY <1>3, <1>8, <2>1, <2>5, <3>3, <3>4, <5>2 DEF OneCopy
      <4>3. QED BY <4>1, <4>2
    <3>5. sent' = sent /\ since'[c] = since[c] /\ up' = up BY <1>3
    <3>6. QED BY <1>1, <2>1, <2>5, <3>2, <3>3, <3>4, <3>5, OneCopyKeeps
  <2>7. CASE c = k /\ n = sent
    <3>1. q \in Ahead(c) BY <1>7, <2>7
    <3>2. Copies(c, n) = 0 /\ Ahead(c) = {q} /\ ~ (n <= since[c]) /\ Old(c)
      BY <2>1, <2>7, <3>1 DEF OneCopy
    <3>3. /\ got[c][n] = 0 /\ Cardinality(Where(out[c], n)) = 0 /\ Cardinality(Pending(c, n)) = 0
      BY <2>2, <3>2
    <3>4. Pending(c, n) = {} BY <2>2, <3>3, FS_EmptySet
    <3>5. p = {<< k, sent, q >>} BY <2>3, <2>7, <3>4 DEF Pending
    <3>6. Copies(c, n)' = 1
      <4>1. Cardinality(p) = 1 BY <3>5, FS_Singleton
      <4>2. QED BY <2>4, <3>3, <4>1
    <3>7. Ahead(c)' = {} BY <1>6, <3>2
    <3>8. n \in Nat /\ ~ (n > sent') BY <1>3, <1>4, <2>7
    <3>9. QED BY <1>3, <2>5, <3>2, <3>6, <3>7, <3>8 DEF OneCopy
  <2>8. QED BY <2>6, <2>7
<1>10. IsFiniteSet(inflight') BY <1>3, FS_AddElement DEF FwdInv
<1>11. \A c \in Clients : since'[c] <= sent' BY <1>3 DEF FwdInv
<1>12. QED BY <1>9, <1>10, <1>11 DEF FwdInv

LEMMA FwdInit == Init => FwdInv
<1> SUFFICES ASSUME Init PROVE FwdInv OBVIOUS
<1>1. /\ inflight = {} /\ sent = 0 /\ (\A c \in Clients : since[c] = 0) /\ slice.len = 0
      /\ \A a \in Apps : pc[a] = "wait"
      /\ range.next = 1 /\ range.len = 0
  BY DEF Init, NoRange
<1>2. IsFiniteSet(inflight) BY <1>1, FS_EmptySet
<1>3. ASSUME NEW c \in Clients, NEW n \in 1..MaxEvents PROVE OneCopy(c, n)
  <2>1. got[c][n] = 0 /\ out[c] = << >> BY DEF Init
  <2>2. Where(out[c], n) = {} /\ Pending(c, n) = {} BY <1>1, <2>1 DEF Where, Pending
  <2>3. Cardinality(Where(out[c], n)) = 0 /\ Cardinality(Pending(c, n)) = 0 BY <2>2, FS_EmptySet
  <2>4. Copies(c, n) = got[c][n] + Cardinality(Where(out[c], n)) + Cardinality(Pending(c, n))
    BY DEF Copies, Where, Pending
  <2>5. Copies(c, n) = 0 BY <2>1, <2>3, <2>4
  <2>6. ~ Shown(c) BY <1>1 DEF Shown, Kept
  <2>7. Ahead(c) = {} BY <1>1 DEF Ahead
  <2>8. QED BY <2>5, <2>6, <2>7 DEF OneCopy
<1>4. QED BY <1>1, <1>2, <1>3 DEF FwdInv

\* Every event is forwarded once to every client of the list whose socket stays open,
\* and no event twice or to a client that was not in the list, however long it is under
\* way, as long as no two edits of the list overlap; but for a client that an edit moves,
\* or puts in, where the event's loop is still to come to.
THEOREM AppsForward == Spec => []ForwardedOnce
<1>1. Init => FwdInv BY FwdInit
<1>2. IInv /\ FwdInv /\ [Next]_vars => FwdInv'
  <2> SUFFICES ASSUME IInv, FwdInv, [Next]_vars PROVE FwdInv' OBVIOUS
  <2>1. ASSUME NEW a \in Apps, HandlerStep(a) \/ NoticeDue(a) PROVE FwdInv'
    BY <2>1, FwdAside, FwdAppend, FwdShift, FwdShorten, FwdClose DEF HandlerStep
  <2>2. ASSUME NEW c \in Clients, writeLoop(c) PROVE FwdInv' BY <2>2, FwdWriteLoop
  <2>3. ASSUME NEW f \in inflight, WriteMessage(f) PROVE FwdInv' BY <2>3, FwdWrite
  <2>4. CASE Forward \/ ForwardToNext BY <2>4, FwdForward, FwdNext
  <2>5. CASE \/ \E c \in Clients : SocketCloses(c)
             \/ \E id \in Ids : ChangeBotID(id)
             \/ StoreBotID
             \/ UNCHANGED vars
    BY <2>5, FwdSockets
  <2>6. QED BY <2>1, <2>2, <2>3, <2>4, <2>5 DEF Next
<1>3. IInv /\ FwdInv => ForwardedOnce
  <2> SUFFICES ASSUME IInv, FwdInv, ~ raced, NEW c \in Clients, NEW n \in 1..MaxEvents,
                      << c, n >> \notin disturbed
               PROVE  /\ Copies(c, n) <= 1
                      /\ n <= since[c] => Copies(c, n) = 0
                      /\ c \in Members /\ c \in up /\ since[c] < n /\ n <= sent
                             => Copies(c, n) = 1 \/ (n = sent /\ Ahead(c) # {})
    BY DEF ForwardedOnce
  <2>1. TypeOK /\ OneCopy(c, n) BY DEF IInv, FwdInv
  <2>2. c \in Members => Shown(c) BY <2>1, ListedFacts, KeptFacts DEF Shown, Members
  <2>3. QED BY <2>1, <2>2 DEF OneCopy
<1>4. QED BY <1>1, <1>2, <1>3, Invariant, PTL DEF Spec
================================================================================
