--------------------------- MODULE DeckServiceProofs ---------------------------
(***************************************************************************)
(* Theorems about DeckService for any workers, clients, versions and       *)
(* rounds: no deck is computed from older data than the service promised,  *)
(* no answer is mistaken for another while calls do not share a worker, a  *)
(* worker has the user data it computes with unless it was evicted, and no *)
(* request is stuck.                                                       *)
(***************************************************************************)
EXTENDS DeckService, FiniteSetTheorems, SequenceTheorems, TLAPS

-----------------------------------------------------------------------------
(* Sequences and sets. *)

\* The elements of a sequence.
Els(s) == {s[i] : i \in 1..Len(s)}

\* No element stands at two places.
Once(s) == \A i, j \in 1..Len(s) : s[i] = s[j] => i = j

LEMMA AppendIs ==
    ASSUME NEW S, NEW s \in Seq(S), NEW e \in S
    PROVE  /\ Append(s, e) \in Seq(S) /\ Len(s) \in Nat /\ Len(Append(s, e)) = Len(s) + 1
           /\ Els(Append(s, e)) = Els(s) \cup {e}
<1>1. /\ Append(s, e) \in Seq(S) /\ Len(s) \in Nat /\ Len(Append(s, e)) = Len(s) + 1
      /\ \A i \in 1..Len(s) : Append(s, e)[i] = s[i]
      /\ Append(s, e)[Len(s) + 1] = e
  BY AppendProperties, LenProperties
<1>2. \A i : i \in 1..(Len(s) + 1) <=> i \in 1..Len(s) \/ i = Len(s) + 1 BY <1>1
<1>3. Els(Append(s, e)) = Els(s) \cup {e} BY <1>1, <1>2 DEF Els
<1>4. QED BY <1>1, <1>3

LEMMA TailIs ==
    ASSUME NEW S, NEW s \in Seq(S), s # << >>
    PROVE  /\ Tail(s) \in Seq(S) /\ Len(s) \in Nat \ {0} /\ Len(Tail(s)) = Len(s) - 1
           /\ Els(Tail(s)) \subseteq Els(s) /\ Head(s) \in Els(s) /\ Head(s) \in S
<1>1. Len(s) \in Nat \ {0} BY EmptySeq, LenProperties
<1>2. /\ Tail(s) \in Seq(S) /\ Len(Tail(s)) = Len(s) - 1
      /\ \A i \in 1..(Len(s) - 1) : Tail(s)[i] = s[i + 1]
      /\ Head(s) = s[1] /\ s[1] \in S
  BY <1>1, HeadTailProperties, ElementOfSeq
<1>3. \A i \in 1..(Len(s) - 1) : i + 1 \in 1..Len(s) BY <1>1
<1>4. Els(Tail(s)) \subseteq Els(s) BY <1>2, <1>3 DEF Els
<1>5. 1 \in 1..Len(s) BY <1>1
<1>6. Head(s) \in Els(s) BY <1>2, <1>5 DEF Els
<1>7. QED BY <1>1, <1>2, <1>4, <1>6

LEMMA ConcatIs ==
    ASSUME NEW S, NEW s \in Seq(S), NEW t \in Seq(S)
    PROVE  /\ s \o t \in Seq(S) /\ Len(s \o t) = Len(s) + Len(t)
           /\ Els(s \o t) = Els(s) \cup Els(t)
           /\ Once(s) /\ Once(t) /\ Els(s) \cap Els(t) = {} => Once(s \o t)
<1>1. PICK r, m, n : r = s \o t /\ m = Len(s) /\ n = Len(t) OBVIOUS
<1>2. /\ r \in Seq(S) /\ Len(r) = m + n /\ m \in Nat /\ n \in Nat
      /\ \A i \in 1..(m + n) : r[i] = IF i <= m THEN s[i] ELSE t[i - m]
  BY <1>1, ConcatProperties, LenProperties
<1>3. ASSUME NEW i \in 1..(m + n)
      PROVE  \/ i \in 1..m /\ r[i] = s[i] /\ r[i] \in Els(s)
             \/ \E x \in 1..n : i = m + x /\ r[i] = t[x] /\ r[i] \in Els(t)
  <2>1. CASE i <= m BY <1>1, <1>2, <2>1 DEF Els
  <2>2. CASE ~ i <= m
    <3>1. PICK x : x = i - m OBVIOUS
    <3>2. x \in 1..n /\ i = m + x /\ r[i] = t[x] BY <1>2, <2>2, <3>1
    <3>3. t[x] \in Els(t) BY <1>1, <3>2 DEF Els
    <3>4. QED BY <3>2, <3>3
  <2>3. QED BY <2>1, <2>2
<1>4. Els(r) = Els(s) \cup Els(t)
  <2>1. ASSUME NEW e \in Els(r) PROVE e \in Els(s) \cup Els(t)
    <3>1. PICK i \in 1..(m + n) : e = r[i] BY <1>2 DEF Els
    <3>2. QED BY <1>3, <3>1
  <2>2. ASSUME NEW i \in 1..m PROVE s[i] \in Els(r)
    <3>1. i \in 1..(m + n) /\ r[i] = s[i] BY <1>2
    <3>2. QED BY <1>2, <3>1 DEF Els
  <2>3. ASSUME NEW i \in 1..n PROVE t[i] \in Els(r)
    <3>1. m + i \in 1..(m + n) /\ ~ (m + i <= m) /\ (m + i) - m = i BY <1>2
    <3>2. r[m + i] = t[i] BY <1>2, <3>1
    <3>3. QED BY <1>2, <3>1, <3>2 DEF Els
  <2>4. QED BY <1>1, <2>1, <2>2, <2>3 DEF Els
<1>5. ASSUME Once(s), Once(t), Els(s) \cap Els(t) = {}, NEW i \in 1..(m + n), NEW j \in 1..(m + n),
             r[i] = r[j]
      PROVE  i = j
  <2>1. CASE i \in 1..m /\ r[i] = s[i] /\ r[i] \in Els(s)
    <3>1. r[j] \notin Els(t) BY <1>5, <2>1
    <3>2. j \in 1..m /\ r[j] = s[j] BY <1>3, <3>1
    <3>3. QED BY <1>1, <1>5, <2>1, <3>2 DEF Once
  <2>2. CASE \E x \in 1..n : i = m + x /\ r[i] = t[x] /\ r[i] \in Els(t)
    <3>1. PICK x \in 1..n : i = m + x /\ r[i] = t[x] BY <2>2
    <3>2. r[j] \notin Els(s) BY <1>5, <2>2
    <3>3. PICK y \in 1..n : j = m + y /\ r[j] = t[y] BY <1>3, <3>2
    <3>4. x = y BY <1>1, <1>5, <3>1, <3>3 DEF Once
    <3>5. QED BY <3>1, <3>3, <3>4
  <2>3. QED BY <1>3, <2>1, <2>2
<1>6. Once(s) /\ Once(t) /\ Els(s) \cap Els(t) = {} => Once(r) BY <1>2, <1>5 DEF Once
<1>7. Len(s) + Len(t) = m + n BY <1>1
<1>8. QED BY <1>1, <1>2, <1>4, <1>6, <1>7

LEMMA RemoveFirstIs ==
    ASSUME NEW S, NEW s \in Seq(S), NEW e, Once(s)
    PROVE  /\ RemoveFirst(s, e) \in Seq(S) /\ Els(RemoveFirst(s, e)) = Els(s) \ {e}
           /\ Once(RemoveFirst(s, e))
<1>1. Len(s) \in Nat BY LenProperties
<1>2. CASE \A i \in 1..Len(s) : s[i] # e
  <2>1. RemoveFirst(s, e) = s BY <1>2 DEF RemoveFirst
  <2>2. e \notin Els(s) BY <1>2 DEF Els
  <2>3. QED BY <2>1, <2>2
<1>3. ASSUME NEW p \in 1..Len(s), s[p] = e
      PROVE  /\ RemoveFirst(s, e) \in Seq(S) /\ Els(RemoveFirst(s, e)) = Els(s) \ {e}
             /\ Once(RemoveFirst(s, e))
  <2>1. PICK n, t, u, r : /\ n = Len(s) /\ t = SubSeq(s, 1, p - 1) /\ u = SubSeq(s, p + 1, n)
                          /\ r = t \o u
    OBVIOUS
  <2>2. n \in Nat /\ p \in 1..n /\ p \in Int BY <1>1, <2>1
  <2>3. RemoveFirst(s, e) = r
    <3> DEFINE I == {i \in 1..Len(s) : s[i] = e}
    <3>1. I = {p} BY <1>3 DEF Once
    <3>2. Min(I) = p BY <2>2, <3>1 DEF Min
    <3>3. SelectInSeq(s, LAMBDA v : v = e) = Min(I) BY <3>1 DEF SelectInSeq
    <3>4. QED BY <1>3, <2>1, <3>2, <3>3 DEF RemoveFirst, RemoveAt
  <2>4. /\ t \in Seq(S) /\ Len(t) = p - 1 /\ \A i \in 1..(p - 1) : t[i] = s[i]
    <3>1. p - 1 \in Int /\ \A i \in 1..(p - 1) : s[i] \in S BY <2>1, <2>2, ElementOfSeq
    <3>2. /\ t \in Seq(S) /\ Len(t) = (IF 1 <= p - 1 THEN (p - 1) - 1 + 1 ELSE 0)
          /\ \A i \in 1..((p - 1) - 1 + 1) : t[i] = s[1 + i - 1]
      BY <2>1, <3>1, SubSeqProperties
    <3>3. (p - 1) - 1 + 1 = p - 1 /\ \A i \in 1..(p - 1) : 1 + i - 1 = i BY <2>2
    <3>4. Len(t) = p - 1 BY <2>2, <3>2
    <3>5. QED BY <3>2, <3>3, <3>4
  <2>5. /\ u \in Seq(S) /\ Len(u) = n - p /\ \A i \in 1..(n - p) : u[i] = s[p + i]
    <3>1. /\ u \in Seq(S) /\ Len(u) = (IF p + 1 <= n THEN n - (p + 1) + 1 ELSE 0)
          /\ \A i \in 1..(n - (p + 1) + 1) : u[i] = s[(p + 1) + i - 1]
      BY <2>1, <2>2, SubSeqProperties
    <3>2. n - (p + 1) + 1 = n - p /\ Len(u) = n - p BY <2>2, <3>1
    <3>3. \A i \in 1..(n - p) : (p + 1) + i - 1 = p + i BY <2>2
    <3>4. QED BY <3>1, <3>2, <3>3
  <2>6. /\ r \in Seq(S) /\ Len(r) = n - 1
        /\ \A i \in 1..(n - 1) : r[i] = IF i <= p - 1 THEN t[i] ELSE u[i - (p - 1)]
    <3>1. /\ r \in Seq(S) /\ Len(r) = Len(t) + Len(u)
          /\ \A i \in 1..(Len(t) + Len(u)) : r[i] = IF i <= Len(t) THEN t[i] ELSE u[i - Len(t)]
      <4>1. /\ t \o u \in Seq(S) /\ Len(t \o u) = Len(t) + Len(u)
            /\ \A i \in 1..(Len(t) + Len(u)) :
                   (t \o u)[i] = IF i <= Len(t) THEN t[i] ELSE u[i - Len(t)]
        BY <2>4, <2>5, ConcatProperties
      <4>2. QED BY <2>1, <4>1, Zenon
    <3>2. Len(t) + Len(u) = n - 1 BY <2>2, <2>4, <2>5
    <3>3. QED BY <2>4, <3>1, <3>2
  <2>7. ASSUME NEW i \in 1..(n - 1)
        PROVE  \E x \in 1..n : r[i] = s[x] /\ x # p /\ x = (IF i < p THEN i ELSE i + 1)
    <3>1. CASE i <= p - 1
      <4>1. r[i] = s[i] BY <2>2, <2>4, <2>6, <3>1
      <4>2. i \in 1..n /\ i # p /\ i < p BY <2>2, <3>1
      <4>3. QED BY <4>1, <4>2
    <3>2. CASE ~ i <= p - 1
      <4>1. i - (p - 1) \in 1..(n - p) BY <2>2, <3>2
      <4>2. r[i] = u[i - (p - 1)] BY <2>6, <3>2
      <4>3. u[i - (p - 1)] = s[p + (i - (p - 1))] BY <2>5, <4>1
      <4>4. p + (i - (p - 1)) = i + 1 BY <2>2
      <4>5. r[i] = s[i + 1] BY <4>2, <4>3, <4>4
      <4>6. i + 1 \in 1..n /\ i + 1 # p /\ ~ i < p BY <2>2, <3>2
      <4>7. QED BY <4>5, <4>6
    <3>3. QED BY <3>1, <3>2
  <2>8. Els(r) = Els(s) \ {e}
    <3>1. \A x \in 1..n : x # p => s[x] # e BY <1>3, <2>1 DEF Once
    <3>2. ASSUME NEW d \in Els(r) PROVE d \in Els(s) /\ d # e
      <4>1. PICK i \in 1..(n - 1) : d = r[i] BY <2>6 DEF Els
      <4>2. PICK x \in 1..n : d = s[x] /\ x # p BY <2>7, <4>1
      <4>3. QED BY <2>1, <3>1, <4>2 DEF Els
    <3>3. ASSUME NEW d \in Els(s), d # e PROVE d \in Els(r)
      <4>1. PICK x \in 1..n : d = s[x] BY <2>1 DEF Els
      <4>2. x # p BY <1>3, <3>3, <4>1
      <4>3. PICK i : i = (IF x < p THEN x ELSE x - 1) OBVIOUS
      <4>4. i \in 1..(n - 1) /\ x = (IF i < p THEN i ELSE i + 1) BY <2>2, <4>2, <4>3
      <4>5. r[i] = s[x] BY <2>7, <4>4
      <4>6. QED BY <2>6, <4>1, <4>4, <4>5 DEF Els
    <3>4. QED BY <3>2, <3>3
  <2>9. ASSUME NEW i \in 1..Len(r), NEW j \in 1..Len(r), r[i] = r[j] PROVE i = j
    <3>1. i \in 1..(n - 1) /\ j \in 1..(n - 1) BY <2>6
    <3>2. PICK x \in 1..n : r[i] = s[x] /\ x = (IF i < p THEN i ELSE i + 1) BY <2>7, <3>1
    <3>3. PICK y \in 1..n : r[j] = s[y] /\ y = (IF j < p THEN j ELSE j + 1) BY <2>7, <3>1
    <3>4. x = y BY <2>1, <2>9, <3>2, <3>3 DEF Once
    <3>5. QED BY <2>2, <3>1, <3>2, <3>3, <3>4
  <2>10. Once(r) BY <2>9 DEF Once
  <2>11. QED BY <2>3, <2>6, <2>8, <2>10
<1>4. QED BY <1>2, <1>3

LEMMA SetToSeqIs ==
    ASSUME NEW S, IsFiniteSet(S)
    PROVE  /\ SetToSeq(S) \in Seq(S) /\ Len(SetToSeq(S)) = Cardinality(S)
           /\ Els(SetToSeq(S)) = S /\ Once(SetToSeq(S))
<1>1. Cardinality(S) \in Nat /\ ExistsBijection(1..Cardinality(S), S) BY FS_CardinalityType
<1>2. \E f \in [1..Cardinality(S) -> S] : IsInjective(f)
  BY <1>1 DEF ExistsBijection, Bijection, Injection, IsInjective
<1>3. SetToSeq(S) \in [1..Cardinality(S) -> S] /\ IsInjective(SetToSeq(S)) BY <1>2 DEF SetToSeq
<1>4. SetToSeq(S) \in Seq(S) /\ Len(SetToSeq(S)) = Cardinality(S)
  BY <1>1, <1>3, IsASeq, LenProperties
<1>5. Els(SetToSeq(S)) = S
  <2>1. PICK f, n : f = SetToSeq(S) /\ n = Cardinality(S) OBVIOUS
  <2>2. IsFiniteSet(1..n) /\ Cardinality(1..n) = n
    <3>1. n \in Nat BY <1>1, <2>1
    <3>2. Cardinality(1..n) = (IF 1 > n THEN 0 ELSE n - 1 + 1) /\ IsFiniteSet(1..n)
      BY <3>1, FS_Interval
    <3>3. QED BY <3>1, <3>2
  <2>3. f \in Injection(1..n, S) BY <1>3, <2>1 DEF Injection, IsInjective
  <2>4. f \in Surjection(1..n, S) BY <2>1, <2>2, <2>3, FS_Injection
  <2>5. Len(f) = n BY <1>4, <2>1
  <2>6. QED BY <2>1, <2>4, <2>5 DEF Els, Surjection
<1>6. QED BY <1>3, <1>4, <1>5 DEF Once, IsInjective

\* What the elements of a sequence are.
LEMMA ElsIn == ASSUME NEW S, NEW s \in Seq(S) PROVE Els(s) \subseteq S /\ Len(s) \in Nat
BY ElementOfSeq, LenProperties DEF Els

LEMMA NoEls == Els(<< >>) = {} /\ \A S, s : s \in Seq(S) /\ Els(s) = {} => s = << >>
<1>1. Els(<< >>) = {} BY DEF Els
<1>2. ASSUME NEW S, NEW s, s \in Seq(S), Els(s) = {} PROVE s = << >>
  <2>1. Len(s) \in Nat BY <1>2, LenProperties
  <2>2. s # << >> => s[1] \in Els(s)
    <3>1. s # << >> => 1 \in 1..Len(s) BY <1>2, <2>1, EmptySeq
    <3>2. QED BY <3>1 DEF Els
  <2>3. QED BY <1>2, <2>2
<1>3. QED BY <1>1, <1>2

-----------------------------------------------------------------------------
(* Calls. *)

CallRec == [st : {"new", "waiting", "answered", "timeout"}, live : BOOLEAN,
            floor : 0..MaxVersion, shared : BOOLEAN, got : Results \cup {None}]

LEMMA Bounds ==
    /\ MaxVersion \in Nat /\ MaxRounds \in Nat /\ MaxSlow \in Nat
    /\ CacheNum \in Nat \ {0} /\ IsFiniteSet(Workers)
BY DeckAssumption

LEMMA CallParts ==
    ASSUME NEW k \in Calls
    PROVE  /\ At(k) \in Workers /\ k[2] \in {"cache", "recommend", "refresh"}
           /\ k[2] # "refresh" => k[1] \in Clients
BY DEF Calls, At

\* The calls that a handler makes: one for each worker.
LEMMA OfIs ==
    ASSUME NEW r, NEW op,
           \/ r \in Clients /\ op \in {"cache", "recommend"}
           \/ r \in Rounds /\ op = "refresh"
    PROVE  /\ Of(r, op) \subseteq Calls /\ IsFiniteSet(Of(r, op))
           /\ \A k \in Of(r, op) : k[1] = r /\ k[2] = op
           /\ \A j, k \in Of(r, op) : At(j) = At(k) => j = k
<1>1. Of(r, op) \subseteq Calls BY DEF Of, Calls
<1>2. /\ \A k \in Of(r, op) : k[1] = r /\ k[2] = op
      /\ \A j, k \in Of(r, op) : At(j) = At(k) => j = k
  BY DEF Of, At
<1>3. IsFiniteSet(Of(r, op))
  <2> DEFINE f == [w \in Workers |-> << r, op, w >>]
  <2>1. f \in Surjection(Workers, Of(r, op)) BY DEF Surjection, Of
  <2>2. QED BY <2>1, Bounds, FS_Surjection
<1>4. QED BY <1>1, <1>2, <1>3

\* A set of calls with one at most for each worker, none of them under way.
Batch(S) ==
    /\ S \subseteq Calls /\ IsFiniteSet(S)
    /\ \A j, k \in S : At(j) = At(k) => j = k

\* Those that go into the queue of w.
Into(S, w) == {k \in S : At(k) = w /\ w \notin lost}

\* The call k waits when one of S is made to the same worker.
Joined(k, S) == call[k].st = "waiting" /\ \E j \in S : At(j) = At(k)

LEMMA SubmitCalls ==
    ASSUME TypeOK, NEW S, Batch(S), Submit(S)
    PROVE  /\ call' \in [Calls -> CallRec]
           /\ \A k \in S : /\ call'[k].st = "waiting" /\ (call'[k].live <=> At(k) \notin lost)
                           /\ call'[k].floor = (IF k[2] = "recommend" THEN db ELSE 0)
                           /\ (call'[k].shared <=> \E j \in Waiting : At(j) = At(k))
                           /\ call'[k].got = None
           /\ \A k \in Calls \ S :
                 /\ call'[k].st = call[k].st /\ call'[k].live = call[k].live
                 /\ call'[k].floor = call[k].floor /\ call'[k].got = call[k].got
                 /\ (call'[k].shared <=> call[k].shared \/ Joined(k, S))
<1>1. /\ call \in [Calls -> CallRec] /\ db \in 0..MaxVersion /\ 0 \in 0..MaxVersion
      /\ S \subseteq Calls
  BY Bounds DEF TypeOK, CallRec, Batch
<1>2. call' = [k \in Calls |->
                   IF k \in S
                   THEN [st |-> "waiting", live |-> At(k) \notin lost,
                         floor |-> IF k[2] = "recommend" THEN db ELSE 0,
                         shared |-> \E j \in Waiting : At(j) = At(k), got |-> None]
                   ELSE [call[k] EXCEPT !.shared = @ \/ Joined(k, S)]]
  BY DEF Submit, Joined
<1>3. ASSUME NEW k \in S
      PROVE  /\ call'[k].st = "waiting" /\ (call'[k].live <=> At(k) \notin lost)
             /\ call'[k].floor = (IF k[2] = "recommend" THEN db ELSE 0)
             /\ (call'[k].shared <=> \E j \in Waiting : At(j) = At(k))
             /\ call'[k].got = None /\ call'[k] \in CallRec
  <2>1. PICK lv, fl, sh : /\ lv = (At(k) \notin lost) /\ fl = (IF k[2] = "recommend" THEN db ELSE 0)
                          /\ sh = (\E j \in Waiting : At(j) = At(k))
    OBVIOUS
  <2>2. call'[k] = [st |-> "waiting", live |-> lv, floor |-> fl, shared |-> sh, got |-> None]
    BY <1>1, <1>2, <2>1
  <2>3. lv \in BOOLEAN /\ sh \in BOOLEAN /\ fl \in 0..MaxVersion BY <1>1, <2>1
  <2>4. call'[k] \in CallRec BY <2>2, <2>3 DEF CallRec
  <2>5. /\ call'[k].st = "waiting" /\ call'[k].live = lv /\ call'[k].floor = fl
        /\ call'[k].shared = sh /\ call'[k].got = None
    BY <2>2
  <2>6. QED BY <2>1, <2>4, <2>5, Zenon
<1>4. ASSUME NEW k \in Calls \ S
      PROVE  /\ call'[k].st = call[k].st /\ call'[k].live = call[k].live
             /\ call'[k].floor = call[k].floor /\ call'[k].got = call[k].got
             /\ (call'[k].shared <=> call[k].shared \/ Joined(k, S))
             /\ call'[k] \in CallRec
  <2>1. PICK c, sh : c = call[k] /\ sh = (call[k].shared \/ Joined(k, S)) OBVIOUS
  <2>2. call'[k] = [c EXCEPT !.shared = sh] BY <1>1, <1>2, <2>1
  <2>3. c \in CallRec /\ sh \in BOOLEAN BY <1>1, <2>1
  <2>4. /\ [c EXCEPT !.shared = sh] \in CallRec
        /\ [c EXCEPT !.shared = sh].st = c.st /\ [c EXCEPT !.shared = sh].live = c.live
        /\ [c EXCEPT !.shared = sh].floor = c.floor /\ [c EXCEPT !.shared = sh].got = c.got
        /\ [c EXCEPT !.shared = sh].shared = sh
    BY <2>3 DEF CallRec
  <2>5. QED BY <2>1, <2>2, <2>4, Zenon
<1>5. call' \in [Calls -> CallRec] BY <1>1, <1>2, <1>3, <1>4
<1>6. QED BY <1>3, <1>4, <1>5

LEMMA SubmitQueues ==
    ASSUME TypeOK, NEW S, Batch(S), Submit(S), Once(getters), S \cap Els(getters) = {}
    PROVE  /\ taskQ' \in [Workers -> Seq(Calls)] /\ getters' \in Seq(Calls) /\ lost' = lost
           /\ \A w \in Workers : /\ Els(taskQ'[w]) \subseteq Els(taskQ[w]) \cup Into(S, w)
                                 /\ IsFiniteSet(Into(S, w))
                                 /\ Len(taskQ'[w]) = Len(taskQ[w]) + Cardinality(Into(S, w))
           /\ Els(getters') = Els(getters) \cup S /\ Once(getters')
<1>1. /\ taskQ \in [Workers -> Seq(Calls)] /\ getters \in Seq(Calls)
      /\ S \subseteq Calls /\ IsFiniteSet(S)
  BY DEF TypeOK, Batch
<1>2. /\ taskQ' = [w \in Workers |-> taskQ[w] \o SetToSeq({k \in S : At(k) = w /\ w \notin lost})]
      /\ getters' = getters \o SetToSeq(S) /\ lost' = lost
  BY DEF Submit
<1>3. \A T : T \subseteq S => /\ IsFiniteSet(T) /\ SetToSeq(T) \in Seq(Calls)
                              /\ Len(SetToSeq(T)) = Cardinality(T)
                              /\ Els(SetToSeq(T)) = T /\ Once(SetToSeq(T))
  <2> SUFFICES ASSUME NEW T, T \subseteq S
               PROVE  /\ IsFiniteSet(T) /\ SetToSeq(T) \in Seq(Calls)
                      /\ Len(SetToSeq(T)) = Cardinality(T)
                      /\ Els(SetToSeq(T)) = T /\ Once(SetToSeq(T))
    OBVIOUS
  <2>1. IsFiniteSet(T) BY <1>1, FS_Subset
  <2>2. SetToSeq(T) \in Seq(T) BY <2>1, SetToSeqIs
  <2>3. SetToSeq(T) \in Seq(Calls) BY <1>1, <2>2, SeqMonotonic
  <2>4. QED BY <2>1, <2>3, SetToSeqIs
<1>4. ASSUME NEW w \in Workers
      PROVE  /\ taskQ'[w] \in Seq(Calls)
             /\ Els(taskQ'[w]) \subseteq Els(taskQ[w]) \cup Into(S, w)
             /\ IsFiniteSet(Into(S, w))
             /\ Len(taskQ'[w]) = Len(taskQ[w]) + Cardinality(Into(S, w))
  <2>1. PICK s, t : s = taskQ[w] /\ t = SetToSeq(Into(S, w)) OBVIOUS
  <2>2. taskQ'[w] = s \o t BY <1>2, <2>1 DEF Into
  <2>3. Into(S, w) \subseteq S BY DEF Into
  <2>4. /\ s \in Seq(Calls) /\ t \in Seq(Calls) /\ IsFiniteSet(Into(S, w))
        /\ Len(t) = Cardinality(Into(S, w)) /\ Els(t) \subseteq Into(S, w)
    BY <1>1, <1>3, <2>1, <2>3
  <2>5. /\ s \o t \in Seq(Calls) /\ Len(s \o t) = Len(s) + Len(t)
        /\ Els(s \o t) \subseteq Els(s) \cup Els(t)
    BY <2>4, ConcatIs
  <2>6. QED BY <2>1, <2>2, <2>4, <2>5
<1>5. taskQ' \in [Workers -> Seq(Calls)] BY <1>2, <1>4
<1>6. getters' \in Seq(Calls) /\ Els(getters') = Els(getters) \cup S /\ Once(getters')
  <2>1. PICK t, u : t = SetToSeq(S) /\ u = getters \o t OBVIOUS
  <2>2. t \in Seq(Calls) /\ Els(t) = S /\ Once(t) BY <1>3, <2>1
  <2>3. Els(getters) \cap Els(t) = {} BY <2>2
  <2>4. u \in Seq(Calls) /\ Els(u) = Els(getters) \cup Els(t) /\ Once(u)
    BY <1>1, <2>1, <2>2, <2>3, ConcatIs
  <2>5. QED BY <1>2, <2>1, <2>2, <2>4
<1>7. QED BY <1>2, <1>4, <1>5, <1>6

-----------------------------------------------------------------------------
(* The inductive invariant. *)

\* A call that was not made yet.
Unmade(k) ==
    \/ k[2] = "cache" /\ pc[k[1]] = "idle"
    \/ k[2] = "recommend" /\ pc[k[1]] \in {"idle", "cache", "acquire"}
    \/ /\ k[2] = "refresh"
       /\ k[1] > upd.round \/ (k[1] = upd.round /\ upd.pc \in {"upload", "write"})

Working(w) == busy[w].at # "idle"

\* A call is made once: it is nowhere before.
MadeInv ==
    /\ Once(getters)
    /\ upd.pc # "idle" => upd.round \in Rounds
    /\ \A w \in Workers : Working(w) => busy[w].call \in Calls
    /\ \A k \in Calls : Unmade(k) =>
          /\ call[k].st = "new" /\ k \notin Els(getters)
          /\ \A w \in Workers : k \notin Els(taskQ[w]) /\ (Working(w) => busy[w].call # k)

\* What is written and what is loaded is as new as the version that stands for it.
FreshInv ==
    /\ \A f \in files : f >= db
    /\ upd.pc \in {"upload", "write"} => upd.ver > db
    /\ upd.pc = "write" => upd.data >= upd.ver
    /\ \A k \in Calls : call[k].floor <= db
    /\ \A w \in Workers :
          /\ ver[w] <= db
          /\ \A v \in content[w] : v >= ver[w]
          /\ busy[w].at = "load" => /\ busy[w].seen <= db /\ call[busy[w].call].floor <= busy[w].seen
                                    /\ \A v \in content[w] : v >= busy[w].seen
          /\ busy[w].at = "compute" => call[busy[w].call].floor <= ver[w]

WaitingAt(w) == {k \in Waiting : At(k) = w}
Load(w)      == Len(resQ[w]) + Len(taskQ[w]) + (IF Working(w) THEN 1 ELSE 0)

\* The worker of k has k to do and nothing else.
Only(k) ==
    /\ Els(taskQ[At(k)]) \subseteq {k}
    /\ \A a \in Els(resQ[At(k)]) : a.call = k
    /\ Working(At(k)) => busy[At(k)].call = k

\* While the queues of a worker are the first ones it owes one answer to each call that
\* waits; a call that does not share the worker is the only one.
OwnInv ==
    /\ \A w \in Workers \ lost : IsFiniteSet(WaitingAt(w)) /\ Load(w) = Cardinality(WaitingAt(w))
    /\ \A k \in Els(getters) : call[k].live /\ At(k) \notin lost => call[k].st = "waiting"
    /\ \A k \in Waiting : ~ call[k].shared => \A j \in Waiting : At(j) = At(k) => j = k
    /\ \A k \in Waiting : ~ call[k].shared /\ call[k].live => At(k) \notin lost /\ Only(k)
    /\ \A k \in Calls : call[k].st = "answered" => call[k].got \in Results
    /\ OwnUnlessShared

IInv == TypeOK /\ MadeInv /\ FreshInv /\ OwnInv

-----------------------------------------------------------------------------
(* What each part depends on. *)

LEMMA MadeKeeps ==
    ASSUME MadeInv, Once(getters'), upd'.pc # "idle" => upd'.round \in Rounds,
           \A k \in Calls : Unmade(k)' =>
              /\ Unmade(k) /\ call'[k].st = call[k].st
              /\ k \in Els(getters') => k \in Els(getters)
              /\ \A w \in Workers : k \in Els(taskQ'[w]) => k \in Els(taskQ[w]),
           \A w \in Workers :
              /\ busy'[w].at # "idle" => \/ Working(w) /\ busy'[w].call = busy[w].call
                                         \/ busy'[w].call \in Els(taskQ[w])
              /\ Els(taskQ[w]) \subseteq Calls
    PROVE  MadeInv'
<1>1. \A w \in Workers : busy'[w].at # "idle" => busy'[w].call \in Calls
  BY DEF MadeInv
<1>2. ASSUME NEW k \in Calls, Unmade(k)'
      PROVE  /\ call'[k].st = "new" /\ k \notin Els(getters')
             /\ \A w \in Workers : k \notin Els(taskQ'[w]) /\ (busy'[w].at # "idle" => busy'[w].call # k)
  <2>1. /\ Unmade(k) /\ call'[k].st = call[k].st
        /\ k \in Els(getters') => k \in Els(getters)
        /\ \A w \in Workers : k \in Els(taskQ'[w]) => k \in Els(taskQ[w])
    BY <1>2
  <2>2. /\ call[k].st = "new" /\ k \notin Els(getters)
        /\ \A w \in Workers : k \notin Els(taskQ[w]) /\ (Working(w) => busy[w].call # k)
    BY <2>1 DEF MadeInv
  <2>3. QED BY <2>1, <2>2
<1>3. QED BY <1>1, <1>2 DEF MadeInv, Working

\* The versions are left alone and no call is given a newer one.
LEMMA FreshKeeps ==
    ASSUME TypeOK, MadeInv, FreshInv, UNCHANGED << files, db, upd, ver, content, busy >>,
           \A k \in Calls : \/ call'[k].floor = call[k].floor
                            \/ call'[k].floor = 0
                            \/ Unmade(k) /\ call'[k].floor = db
    PROVE  FreshInv'
<1>1. /\ db \in Nat /\ \A w \in Workers : ver[w] \in Nat /\ busy[w].seen \in Nat
  BY Bounds DEF TypeOK
<1>2. \A k \in Calls : call'[k].floor <= db BY <1>1 DEF FreshInv
<1>3. ASSUME NEW w \in Workers, Working(w)
      PROVE  \/ call'[busy[w].call].floor = call[busy[w].call].floor
             \/ call'[busy[w].call].floor = 0
  <2>1. busy[w].call \in Calls /\ ~ Unmade(busy[w].call) BY <1>3 DEF MadeInv
  <2>2. QED BY <2>1
<1>4. \A w \in Workers : busy[w].at = "load" => call'[busy[w].call].floor <= busy[w].seen
  BY <1>1, <1>3 DEF FreshInv, Working
<1>5. \A w \in Workers : busy[w].at = "compute" => call'[busy[w].call].floor <= ver[w]
  BY <1>1, <1>3 DEF FreshInv, Working
<1>6. QED BY <1>2, <1>4, <1>5 DEF FreshInv

LEMMA OwnKeeps ==
    ASSUME TypeOK, OwnInv, UNCHANGED << getters, lost, resQ, taskQ >>,
           \A w \in Workers : busy'[w].at = "idle" <=> busy[w].at = "idle",
           \A w \in Workers : busy'[w].call = busy[w].call,
           \A k \in Calls : \/ call'[k] = call[k]
                            \/ call[k].st # "waiting" /\ call'[k].st = "new" /\ call'[k].live = call[k].live
    PROVE  OwnInv'
<1>1. Waiting' = Waiting
  <2>1. \A k \in Calls : call'[k].st = "waiting" <=> call[k].st = "waiting" OBVIOUS
  <2>2. QED BY <2>1 DEF Waiting
<1>2. \A k \in Waiting : call'[k] = call[k] BY DEF Waiting
<1>3. \A w : WaitingAt(w)' = WaitingAt(w) BY <1>1 DEF WaitingAt
<1>4. \A w \in Workers : Load(w)' = Load(w) BY DEF Load, Working
<1>5. \A w \in Workers \ lost : IsFiniteSet(WaitingAt(w))' /\ (Load(w) = Cardinality(WaitingAt(w)))'
  BY <1>3, <1>4 DEF OwnInv
<1>6. \A k \in Waiting : At(k) \in Workers BY CallParts DEF Waiting
<1>7. \A k \in Waiting : Only(k) => Only(k)' BY <1>6 DEF Only, Working
<1>8. \A k \in Waiting : ~ call[k].shared /\ call[k].live => At(k) \notin lost /\ Only(k)'
  BY <1>7 DEF OwnInv
<1>9. OwnUnlessShared' BY DEF OwnInv, OwnUnlessShared, Answered
<1>10. \A k \in Els(getters) : call'[k].live /\ At(k) \notin lost => call'[k].st = "waiting"
  <2>1. Els(getters) \subseteq Calls BY ElsIn DEF TypeOK
  <2>2. QED BY <1>2, <2>1 DEF OwnInv, Waiting
<1>11. \A k \in Calls : call'[k].st = "answered" => call'[k].got \in Results
  BY DEF OwnInv
<1>12. QED BY <1>1, <1>2, <1>3, <1>5, <1>8, <1>9, <1>10, <1>11 DEF OwnInv

-----------------------------------------------------------------------------
(* Calls are made. *)

\* The calls S, none of them made before, are put into the queues.
LEMMA SubmitKeeps ==
    ASSUME TypeOK, MadeInv, OwnInv, NEW S, Batch(S), Submit(S), \A k \in S : Unmade(k),
           UNCHANGED << resQ, busy >>
    PROVE  /\ call' \in [Calls -> CallRec] /\ taskQ' \in [Workers -> Seq(Calls)]
           /\ getters' \in Seq(Calls) /\ lost' = lost /\ Once(getters')
           /\ \A w \in Workers : Els(taskQ'[w]) \subseteq Els(taskQ[w]) \cup S
           /\ Els(getters') \subseteq Els(getters) \cup S
           /\ \A k \in Calls \ S : call'[k].st = call[k].st /\ call'[k].floor = call[k].floor
           /\ \A k \in S : call'[k].floor = (IF k[2] = "recommend" THEN db ELSE 0)
           /\ OwnInv'
<1>1. /\ S \subseteq Calls
      /\ \A k \in S : call[k].st = "new" /\ k \notin Els(getters)
      /\ S \cap Els(getters) = {} /\ Once(getters)
  BY DEF Batch, MadeInv
<1>2. /\ taskQ' \in [Workers -> Seq(Calls)] /\ getters' \in Seq(Calls) /\ lost' = lost
      /\ \A w \in Workers : /\ Els(taskQ'[w]) \subseteq Els(taskQ[w]) \cup Into(S, w)
                            /\ IsFiniteSet(Into(S, w))
                            /\ Len(taskQ'[w]) = Len(taskQ[w]) + Cardinality(Into(S, w))
      /\ Els(getters') \subseteq Els(getters) \cup S /\ Once(getters')
  BY <1>1, SubmitQueues
<1>3. /\ call' \in [Calls -> CallRec]
      /\ \A k \in S : /\ call'[k].st = "waiting" /\ (call'[k].live <=> At(k) \notin lost)
                      /\ call'[k].floor = (IF k[2] = "recommend" THEN db ELSE 0)
                      /\ (call'[k].shared <=> \E j \in Waiting : At(j) = At(k))
                      /\ call'[k].got = None
      /\ \A k \in Calls \ S :
            /\ call'[k].st = call[k].st /\ call'[k].live = call[k].live
            /\ call'[k].floor = call[k].floor /\ call'[k].got = call[k].got
            /\ (call'[k].shared <=> call[k].shared \/ Joined(k, S))
  BY SubmitCalls
<1>4. Waiting' = Waiting \cup S /\ Waiting \cap S = {}
  <2>1. \A k \in Calls : call'[k].st = "waiting" <=> k \in S \/ call[k].st = "waiting" BY <1>3
  <2>2. QED BY <1>1, <2>1 DEF Waiting
<1>5. (\A w \in Workers : Into(S, w) \subseteq S) /\ (\A k \in S : At(k) \in Workers)
  BY <1>1, CallParts DEF Into
<1>6. ASSUME NEW w \in Workers, w \notin lost
      PROVE  IsFiniteSet(WaitingAt(w)') /\ Load(w)' = Cardinality(WaitingAt(w)')
  <2>1. WaitingAt(w)' = WaitingAt(w) \cup Into(S, w) BY <1>4, <1>6 DEF WaitingAt, Into
  <2>2. WaitingAt(w) \cap Into(S, w) = {} BY <1>4, <1>5 DEF WaitingAt
  <2>3. IsFiniteSet(WaitingAt(w)) /\ IsFiniteSet(Into(S, w)) BY <1>2, <1>6 DEF OwnInv
  <2>4. /\ IsFiniteSet(WaitingAt(w)')
        /\ Cardinality(WaitingAt(w)') = Cardinality(WaitingAt(w)) + Cardinality(Into(S, w)) - 0
    BY <2>1, <2>2, <2>3, FS_Union, FS_EmptySet
  <2>5. PICK a, b, n, m, t : /\ a = Len(resQ[w]) /\ b = Len(taskQ[w]) /\ n = Cardinality(WaitingAt(w))
                             /\ m = Cardinality(Into(S, w)) /\ t = (IF Working(w) THEN 1 ELSE 0)
    OBVIOUS
  <2>6. a \in Nat /\ b \in Nat /\ n \in Nat /\ m \in Nat /\ t \in Nat
    BY <2>3, <2>5, ElsIn, FS_CardinalityType DEF TypeOK
  <2>7. Load(w)' = a + (b + m) + t BY <1>2, <2>5 DEF Load, Working
  <2>8. n = a + b + t BY <1>6, <2>5 DEF OwnInv, Load
  <2>9. Cardinality(WaitingAt(w)') = n + m - 0 BY <2>4, <2>5
  <2>10. a + (b + m) + t = n + m - 0 BY <2>6, <2>8
  <2>11. QED BY <2>4, <2>7, <2>9, <2>10
<1>7. \A k \in Els(getters') : call'[k].live /\ At(k) \notin lost => call'[k].st = "waiting"
  <2>1. Els(getters) \subseteq Calls BY ElsIn DEF TypeOK
  <2>2. QED BY <1>2, <1>3, <2>1 DEF OwnInv
<1>8. ASSUME NEW k \in Waiting', ~ call'[k].shared
      PROVE  /\ \A j \in Waiting' : At(j) = At(k) => j = k
             /\ call'[k].live => At(k) \notin lost /\ Only(k)'
  <2>1. CASE k \in S
    <3>1. \A j \in Waiting : At(j) # At(k) BY <1>3, <1>8, <2>1
    <3>2. \A j \in Waiting' : At(j) = At(k) => j = k BY <1>4, <2>1, <3>1 DEF Batch
    <3>3. ASSUME call'[k].live PROVE At(k) \notin lost /\ Only(k)'
      <4>1. PICK w \in Workers : w = At(k) BY <1>5, <2>1, Zenon
      <4>2. w \notin lost BY <1>3, <2>1, <3>3, <4>1
      <4>3. WaitingAt(w) = {} BY <3>1, <4>1 DEF WaitingAt
      <4>4. Load(w) = 0 BY <4>2, <4>3, FS_EmptySet DEF OwnInv
      <4>5. PICK a, b, t : /\ a = Len(resQ[w]) /\ b = Len(taskQ[w]) /\ t = (IF Working(w) THEN 1 ELSE 0)
        OBVIOUS
      <4>6. a \in Nat /\ b \in Nat /\ t \in {0, 1} BY <4>5, ElsIn DEF TypeOK
      <4>7. a + b + t = 0 BY <4>4, <4>5 DEF Load
      <4>8. a = 0 /\ b = 0 /\ t = 0 BY <4>6, <4>7
      <4>9. Els(resQ[w]) = {} /\ Els(taskQ[w]) = {} /\ ~ Working(w) BY <4>5, <4>8 DEF Els
      <4>10. Into(S, w) \subseteq {k} BY <2>1, <4>1 DEF Into, Batch
      <4>11. Els(taskQ'[w]) \subseteq {k} /\ resQ'[w] = resQ[w] /\ busy'[w] = busy[w]
        BY <1>2, <4>9, <4>10
      <4>12. Only(k)' BY <4>1, <4>9, <4>11 DEF Only, Working
      <4>13. QED BY <4>1, <4>2, <4>12
    <3>4. QED BY <3>2, <3>3
  <2>2. CASE k \notin S
    <3>1. k \in Waiting /\ k \in Calls \ S /\ call[k].st = "waiting" BY <1>4, <2>2 DEF Waiting
    <3>2. ~ call[k].shared /\ \A j \in S : At(j) # At(k) BY <1>3, <1>8, <3>1 DEF Joined
    <3>3. \A j \in Waiting' : At(j) = At(k) => j = k BY <1>4, <3>1, <3>2 DEF OwnInv
    <3>4. ASSUME call'[k].live PROVE At(k) \notin lost /\ Only(k)'
      <4>1. At(k) \notin lost /\ Only(k) /\ At(k) \in Workers BY <1>3, <3>1, <3>2, <3>4, CallParts DEF OwnInv
      <4>2. Into(S, At(k)) = {} BY <3>2 DEF Into
      <4>3. Els(taskQ'[At(k)]) \subseteq Els(taskQ[At(k)]) BY <1>2, <4>1, <4>2
      <4>4. QED BY <4>1, <4>3 DEF Only, Working
    <3>5. QED BY <3>3, <3>4
  <2>3. QED BY <2>1, <2>2
<1>9. \A k \in Calls : call'[k].st = "answered" /\ ~ call'[k].shared => call'[k].got.call = k
  <2>1. \A k \in Calls : call[k].st = "answered" /\ ~ call[k].shared => call[k].got.call = k
    BY DEF OwnInv, OwnUnlessShared, Answered
  <2>2. QED BY <1>3, <2>1
<1>10. OwnUnlessShared' BY <1>9 DEF OwnUnlessShared, Answered
<1>11. \A k \in Calls : call'[k].st = "answered" => call'[k].got \in Results
  <2>1. \A k \in Calls : call[k].st = "answered" => call[k].got \in Results BY DEF OwnInv
  <2>2. QED BY <1>3, <2>1
<1>12. OwnInv' BY <1>2, <1>6, <1>7, <1>8, <1>10, <1>11 DEF OwnInv
<1>13. \A w \in Workers : Els(taskQ'[w]) \subseteq Els(taskQ[w]) \cup S BY <1>2, <1>5
<1>14. QED BY <1>2, <1>3, <1>12, <1>13

-----------------------------------------------------------------------------
(* The event loop. *)

\* The getters in a thread are getters.
LEMMA RunningIs == ASSUME TypeOK PROVE Running \subseteq Els(getters)
<1>1. PICK s, m, n : s = getters /\ m = Len(s) /\ n = Cardinality(Workers) OBVIOUS
<1>2. s \in Seq(Calls) /\ m \in Nat /\ n \in Nat
  BY <1>1, Bounds, LenProperties, FS_CardinalityType DEF TypeOK
<1>3. PICK d : d = Min({m, n}) OBVIOUS
<1>4. d \in Nat /\ d <= m
  <2>1. \E x \in {m, n} : \A y \in {m, n} : x <= y BY <1>2
  <2>2. d \in {m, n} /\ \A y \in {m, n} : d <= y BY <1>3, <2>1 DEF Min
  <2>3. QED BY <1>2, <2>2
<1>5. \A i \in 1..d : i \in 1..m /\ s[i] \in Calls BY <1>1, <1>2, <1>4, ElementOfSeq
<1>6. PICK t : t = SubSeq(s, 1, d) OBVIOUS
<1>7. t \in Seq(Calls) /\ Len(t) = d /\ \A i \in 1..d : t[i] = s[i]
  <2>1. /\ t \in Seq(Calls) /\ Len(t) = (IF 1 <= d THEN d - 1 + 1 ELSE 0)
        /\ \A i \in 1..(d - 1 + 1) : t[i] = s[1 + i - 1]
    BY <1>4, <1>5, <1>6, SubSeqProperties
  <2>2. d - 1 + 1 = d /\ \A i \in 1..d : 1 + i - 1 = i BY <1>4
  <2>3. (IF 1 <= d THEN d - 1 + 1 ELSE 0) = d BY <1>4
  <2>4. QED BY <2>1, <2>2, <2>3
<1>8. Running = ToSet(t) BY <1>1, <1>3, <1>6 DEF Running
<1>9. DOMAIN t = 1..d BY <1>7, LenProperties
<1>10. QED BY <1>1, <1>5, <1>7, <1>8, <1>9 DEF ToSet, Els

\* A result goes to one of the getters of its worker.
LEMMA GetKeeps ==
    ASSUME IInv, NEW k \in Calls, Get(k)
    PROVE  IInv'
<1>1. TypeOK /\ MadeInv /\ FreshInv /\ OwnInv BY DEF IInv
<1>2. PICK w, s, a, c : w = At(k) /\ s = resQ[w] /\ a = Head(s) /\ c = call[k] OBVIOUS
<1>3. /\ w \in Workers /\ s \in Seq(Results) /\ s # << >> /\ c \in CallRec
      /\ resQ \in [Workers -> Seq(Results)] /\ call \in [Calls -> CallRec]
      /\ getters \in Seq(Calls) /\ Once(getters)
  BY <1>1, <1>2, CallParts DEF Get, TypeOK, CallRec, MadeInv
<1>4. /\ Tail(s) \in Seq(Results) /\ Len(s) \in Nat \ {0} /\ Len(Tail(s)) = Len(s) - 1
      /\ Els(Tail(s)) \subseteq Els(s) /\ a \in Els(s) /\ a \in Results
  BY <1>2, <1>3, TailIs
<1>5. /\ getters' \in Seq(Calls) /\ Els(getters') \subseteq Els(getters) \ {k} /\ Once(getters')
  BY <1>3, RemoveFirstIs DEF Get, Without
<1>6. k \in Els(getters) BY <1>1, RunningIs DEF Get
<1>7. /\ resQ' = [resQ EXCEPT ![w] = Tail(s)] /\ c.live
      /\ UNCHANGED << dataVars, clientVars, workerVars, lost, avail, taskQ, slow >>
  BY <1>2 DEF Get
<1>8. /\ resQ' \in [Workers -> Seq(Results)] /\ resQ'[w] = Tail(s)
      /\ \A x \in Workers \ {w} : resQ'[x] = resQ[x]
  BY <1>3, <1>4, <1>7
<1>9. /\ call' \in [Calls -> CallRec] /\ \A j \in Calls \ {k} : call'[j] = call[j]
      /\ call'[k].floor = c.floor /\ call'[k].shared = c.shared /\ call'[k].live = c.live
      /\ c.st = "waiting" => call'[k].st = "answered" /\ call'[k].got = a
      /\ c.st # "waiting" => call'[k] = c
  <2>1. CASE c.st = "waiting"
    <3>1. PICK d : d = [c EXCEPT !.st = "answered", !.got = a] OBVIOUS
    <3>2. call' = [call EXCEPT ![k] = d] BY <1>2, <2>1, <3>1 DEF Get
    <3>3. /\ d \in CallRec /\ d.st = "answered" /\ d.got = a
           /\ d.floor = c.floor /\ d.shared = c.shared /\ d.live = c.live
      BY <1>3, <1>4, <3>1 DEF CallRec
    <3>4. QED BY <1>3, <2>1, <3>2, <3>3
  <2>2. CASE c.st # "waiting"
    <3>1. call' = call BY <1>2, <2>2 DEF Get
    <3>2. QED BY <1>2, <1>3, <2>2, <3>1
  <2>3. QED BY <2>1, <2>2
<1>10. TypeOK' BY <1>1, <1>5, <1>7, <1>8, <1>9 DEF TypeOK, CallRec, dataVars, clientVars, workerVars
<1>11. MadeInv'
  <2>1. ~ Unmade(k) BY <1>1, <1>6 DEF MadeInv
  <2>2. \A j \in Calls : Unmade(j)' <=> Unmade(j) BY <1>7 DEF Unmade, dataVars, clientVars
  <2>3. \A x \in Workers : Els(taskQ[x]) \subseteq Calls BY <1>1, ElsIn DEF TypeOK
  <2>4. UNCHANGED << upd, busy, taskQ >> BY <1>7 DEF dataVars, workerVars
  <2>5. \A j \in Calls : Unmade(j)' => Unmade(j) /\ call'[j].st = call[j].st BY <1>9, <2>1, <2>2
  <2>6. upd.pc # "idle" => upd.round \in Rounds BY <1>1 DEF MadeInv
  <2>7. \A j \in Calls : Unmade(j)' =>
           /\ Unmade(j) /\ call'[j].st = call[j].st
           /\ j \in Els(getters') => j \in Els(getters)
           /\ \A x \in Workers : j \in Els(taskQ'[x]) => j \in Els(taskQ[x])
    BY <1>5, <2>4, <2>5
  <2>8. \A x \in Workers :
           /\ busy'[x].at # "idle" => \/ Working(x) /\ busy'[x].call = busy[x].call
                                      \/ busy'[x].call \in Els(taskQ[x])
           /\ Els(taskQ[x]) \subseteq Calls
    BY <2>3, <2>4 DEF Working
  <2>9. upd'.pc # "idle" => upd'.round \in Rounds BY <2>4, <2>6
  <2>10. QED BY <1>1, <1>5, <2>7, <2>8, <2>9, MadeKeeps
<1>12. FreshInv'
  <2>1. UNCHANGED << files, db, upd, ver, content, busy >> BY <1>7 DEF dataVars, workerVars
  <2>2. \A j \in Calls : call'[j].floor = call[j].floor BY <1>2, <1>9
  <2>3. QED BY <1>1, <2>1, <2>2, FreshKeeps
<1>13. OwnInv'
  <2>1. UNCHANGED << lost, taskQ, busy >> BY <1>7 DEF workerVars
  <2>2. \A j \in Calls \ {k} : call'[j] = call[j] BY <1>9
  <2>3. Waiting' = Waiting \ {k}
    <3>1. call'[k].st # "waiting" BY <1>9
    <3>2. QED BY <2>2, <3>1 DEF Waiting
  <2>4. c.st # "waiting" => w \in lost BY <1>1, <1>2, <1>6, <1>7 DEF OwnInv
  <2>5. ASSUME NEW x \in Workers, x \notin lost
        PROVE  IsFiniteSet(WaitingAt(x)') /\ Load(x)' = Cardinality(WaitingAt(x)')
    <3>1. CASE x = w
      <4>1. k \in WaitingAt(w) BY <1>2, <2>4, <2>5, <3>1 DEF WaitingAt, Waiting
      <4>2. WaitingAt(w)' = WaitingAt(w) \ {k} BY <2>3 DEF WaitingAt
      <4>3. IsFiniteSet(WaitingAt(w)) /\ Load(w) = Cardinality(WaitingAt(w))
        BY <1>1, <2>5, <3>1 DEF OwnInv
      <4>4. /\ IsFiniteSet(WaitingAt(w)')
            /\ Cardinality(WaitingAt(w)') = Cardinality(WaitingAt(w)) - 1
        BY <4>1, <4>2, <4>3, FS_RemoveElement
      <4>5. PICK m, n, t : m = Len(s) /\ n = Len(taskQ[w]) /\ t = (IF Working(w) THEN 1 ELSE 0) OBVIOUS
      <4>6. m \in Nat /\ n \in Nat /\ t \in Nat BY <1>1, <1>3, <1>4, <4>5, ElsIn DEF TypeOK
      <4>7. Load(w) = m + n + t BY <1>2, <4>5 DEF Load
      <4>8. Load(w)' = (m - 1) + n + t BY <1>4, <1>8, <2>1, <4>5 DEF Load, Working
      <4>9. (m - 1) + n + t = (m + n + t) - 1 BY <4>6
      <4>10. QED BY <3>1, <4>3, <4>4, <4>7, <4>8, <4>9
    <3>2. CASE x # w
      <4>1. WaitingAt(x)' = WaitingAt(x) BY <1>2, <2>3, <3>2 DEF WaitingAt
      <4>2. Load(x)' = Load(x) BY <1>8, <2>1, <3>2 DEF Load, Working
      <4>3. QED BY <1>1, <2>5, <4>1, <4>2 DEF OwnInv
    <3>3. QED BY <3>1, <3>2
  <2>6. \A j \in Els(getters') : call'[j].live /\ At(j) \notin lost => call'[j].st = "waiting"
    <3>1. Els(getters) \subseteq Calls BY <1>3, ElsIn
    <3>2. QED BY <1>1, <1>5, <2>2, <3>1 DEF OwnInv
  <2>7. ASSUME NEW j \in Waiting', ~ call'[j].shared
        PROVE  /\ \A i \in Waiting' : At(i) = At(j) => i = j
               /\ call'[j].live => At(j) \notin lost /\ Only(j)'
    <3>1. j \in Waiting /\ j # k /\ call'[j] = call[j] BY <2>2, <2>3 DEF Waiting
    <3>2. \A i \in Waiting : At(i) = At(j) => i = j BY <1>1, <2>7, <3>1 DEF OwnInv
    <3>3. ASSUME call'[j].live PROVE At(j) \notin lost /\ Only(j)'
      <4>1. At(j) \notin lost /\ Only(j) BY <1>1, <2>7, <3>1, <3>3 DEF OwnInv
      <4>2. At(j) # w
        <5>1. SUFFICES ASSUME At(j) = w PROVE FALSE OBVIOUS
        <5>2. k \in Waiting BY <1>2, <2>4, <4>1, <5>1 DEF Waiting
        <5>3. QED BY <1>2, <3>1, <3>2, <5>1, <5>2
      <4>3. At(j) \in Workers BY <3>1, CallParts DEF Waiting
      <4>4. QED BY <1>8, <2>1, <4>1, <4>2, <4>3 DEF Only, Working
    <3>4. QED BY <2>3, <3>2, <3>3
  <2>8. OwnUnlessShared'
    <3>1. ASSUME NEW j \in Calls, call'[j].st = "answered", ~ call'[j].shared
          PROVE  call'[j].got.call = j
      <4>1. CASE call'[j] = call[j]
        BY <1>1, <3>1, <4>1 DEF OwnInv, OwnUnlessShared, Answered
      <4>2. CASE j = k /\ c.st = "waiting"
        <5>1. k \in Waiting /\ ~ call[k].shared /\ call[k].live BY <1>2, <1>7, <1>9, <3>1, <4>2 DEF Waiting
        <5>2. Only(k) BY <1>1, <5>1 DEF OwnInv
        <5>3. a.call = k BY <1>2, <1>4, <5>2 DEF Only
        <5>4. QED BY <1>9, <4>2, <5>3
      <4>3. QED BY <1>2, <1>9, <4>1, <4>2
    <3>2. QED BY <3>1 DEF OwnUnlessShared, Answered
  <2>9. \A j \in Calls : call'[j].st = "answered" => call'[j].got \in Results
    <3>1. \A j \in Calls : call[j].st = "answered" => call[j].got \in Results BY <1>1 DEF OwnInv
    <3>2. QED BY <1>2, <1>4, <1>9, <3>1
  <2>10. QED BY <2>1, <2>5, <2>6, <2>7, <2>8, <2>9 DEF OwnInv
<1>14. QED BY <1>10, <1>11, <1>12, <1>13 DEF IInv

\* A wait is given up: the worker is lost.
LEMMA TimeoutKeeps ==
    ASSUME IInv, NEW k \in Calls, Timeout(k)
    PROVE  IInv'
<1>1. TypeOK /\ MadeInv /\ FreshInv /\ OwnInv BY DEF IInv
<1>2. PICK w, c : w = At(k) /\ c = call[k] OBVIOUS
<1>3. /\ w \in Workers /\ c \in CallRec /\ call \in [Calls -> CallRec]
      /\ getters \in Seq(Calls) /\ Once(getters)
  BY <1>1, <1>2, CallParts DEF TypeOK, CallRec, MadeInv
<1>4. /\ getters' \in Seq(Calls) /\ Els(getters') \subseteq Els(getters) /\ Once(getters')
  BY <1>3, RemoveFirstIs DEF Timeout, GivesUp, Without
<1>5. /\ c.st = "waiting" /\ lost' = lost \cup {w}
      /\ UNCHANGED << dataVars, clientVars, workerVars, avail, taskQ, resQ >>
  BY <1>2 DEF Timeout, GivesUp
<1>6. /\ call' \in [Calls -> CallRec] /\ \A j \in Calls \ {k} : call'[j] = call[j]
      /\ call'[k].st = "timeout" /\ call'[k].floor = c.floor
  <2>1. PICK d : d = [c EXCEPT !.st = "timeout"] OBVIOUS
  <2>2. call' = [call EXCEPT ![k] = d] BY <1>2, <2>1 DEF Timeout, GivesUp
  <2>3. d \in CallRec /\ d.st = "timeout" /\ d.floor = c.floor BY <1>3, <2>1 DEF CallRec
  <2>4. QED BY <1>3, <2>2, <2>3
<1>7. slow' \in 0..MaxSlow
  <2>1. MaxSlow \in Nat /\ slow \in 0..MaxSlow BY <1>1, Bounds DEF TypeOK
  <2>2. slow' = slow \/ (slow < MaxSlow /\ slow' = slow + 1) BY DEF Timeout, GivesUp
  <2>3. QED BY <2>1, <2>2
<1>8. TypeOK' BY <1>1, <1>3, <1>4, <1>5, <1>6, <1>7 DEF TypeOK, CallRec, dataVars, clientVars, workerVars
<1>9. UNCHANGED << files, db, upd, pc, ver, content, busy, taskQ, resQ >>
  BY <1>5 DEF dataVars, clientVars, workerVars
<1>10. MadeInv'
  <2>1. ~ Unmade(k) BY <1>1, <1>2, <1>5 DEF MadeInv
  <2>2. \A j \in Calls : Unmade(j)' <=> Unmade(j) BY <1>9 DEF Unmade
  <2>3. \A x \in Workers : Els(taskQ[x]) \subseteq Calls BY <1>1, ElsIn DEF TypeOK
  <2>4. \A j \in Calls : Unmade(j)' =>
           /\ Unmade(j) /\ call'[j].st = call[j].st
           /\ j \in Els(getters') => j \in Els(getters)
           /\ \A x \in Workers : j \in Els(taskQ'[x]) => j \in Els(taskQ[x])
    BY <1>4, <1>6, <1>9, <2>1, <2>2
  <2>5. \A x \in Workers :
           /\ busy'[x].at # "idle" => \/ Working(x) /\ busy'[x].call = busy[x].call
                                      \/ busy'[x].call \in Els(taskQ[x])
           /\ Els(taskQ[x]) \subseteq Calls
    BY <1>9, <2>3 DEF Working
  <2>6. upd'.pc # "idle" => upd'.round \in Rounds BY <1>1, <1>9 DEF MadeInv
  <2>7. QED BY <1>1, <1>4, <2>4, <2>5, <2>6, MadeKeeps
<1>11. FreshInv'
  <2>1. \A j \in Calls : call'[j].floor = call[j].floor BY <1>2, <1>6
  <2>2. QED BY <1>1, <1>9, <2>1, FreshKeeps
<1>12. OwnInv'
  <2>1. Waiting' = Waiting \ {k} /\ k \in Waiting BY <1>2, <1>5, <1>6 DEF Waiting
  <2>2. ASSUME NEW x \in Workers, x \notin lost'
        PROVE  IsFiniteSet(WaitingAt(x)') /\ Load(x)' = Cardinality(WaitingAt(x)')
    <3>1. x # w /\ x \notin lost BY <1>5, <2>2
    <3>2. WaitingAt(x)' = WaitingAt(x) BY <1>2, <2>1, <3>1 DEF WaitingAt
    <3>3. Load(x)' = Load(x) BY <1>9 DEF Load, Working
    <3>4. QED BY <1>1, <3>1, <3>2, <3>3 DEF OwnInv
  <2>3. \A j \in Els(getters') : call'[j].live /\ At(j) \notin lost' => call'[j].st = "waiting"
    <3>1. Els(getters) \subseteq Calls BY <1>3, ElsIn
    <3>2. ASSUME NEW j \in Els(getters'), call'[j].live, At(j) \notin lost'
          PROVE  call'[j].st = "waiting"
      <4>1. At(j) # w /\ At(j) \notin lost BY <1>5, <3>2
      <4>2. j \in Els(getters) /\ call'[j] = call[j] BY <1>2, <1>4, <1>6, <3>1, <4>1
      <4>3. QED BY <1>1, <3>2, <4>1, <4>2 DEF OwnInv
    <3>3. QED BY <3>2
  <2>4. ASSUME NEW j \in Waiting', ~ call'[j].shared
        PROVE  /\ \A i \in Waiting' : At(i) = At(j) => i = j
               /\ call'[j].live => At(j) \notin lost' /\ Only(j)'
    <3>1. j \in Waiting /\ j # k /\ call'[j] = call[j] BY <1>6, <2>1 DEF Waiting
    <3>2. \A i \in Waiting : At(i) = At(j) => i = j BY <1>1, <2>4, <3>1 DEF OwnInv
    <3>3. At(j) # w BY <1>2, <2>1, <3>1, <3>2
    <3>4. ASSUME call'[j].live PROVE At(j) \notin lost' /\ Only(j)'
      <4>1. At(j) \notin lost /\ Only(j) BY <1>1, <2>4, <3>1, <3>4 DEF OwnInv
      <4>2. At(j) \notin lost' BY <1>5, <3>3, <4>1
      <4>3. Only(j)' BY <1>9, <4>1 DEF Only, Working
      <4>4. QED BY <4>2, <4>3
    <3>5. QED BY <2>1, <3>2, <3>4
  <2>5. OwnUnlessShared'
    <3>1. \A j \in Calls : call[j].st = "answered" /\ ~ call[j].shared => call[j].got.call = j
      BY <1>1 DEF OwnInv, OwnUnlessShared, Answered
    <3>2. \A j \in Calls : call'[j].st = "answered" /\ ~ call'[j].shared => call'[j].got.call = j
      BY <1>6, <3>1
    <3>3. QED BY <3>2 DEF OwnUnlessShared, Answered
  <2>6. \A j \in Calls : call'[j].st = "answered" => call'[j].got \in Results
    <3>1. \A j \in Calls : call[j].st = "answered" => call[j].got \in Results BY <1>1 DEF OwnInv
    <3>2. QED BY <1>6, <3>1
  <2>7. QED BY <2>2, <2>3, <2>4, <2>5, <2>6 DEF OwnInv
<1>13. QED BY <1>8, <1>10, <1>11, <1>12 DEF IInv

-----------------------------------------------------------------------------
(* Requests. *)

\* The task queues and the workers hold what they held.
LEMMA MadeStays ==
    ASSUME TypeOK, MadeInv, UNCHANGED << upd, getters, taskQ, busy >>,
           \A k \in Calls : Unmade(k)' => Unmade(k) /\ call'[k].st = call[k].st
    PROVE  MadeInv'
<1>1. \A w \in Workers : Els(taskQ[w]) \subseteq Calls BY ElsIn DEF TypeOK
<1>2. \A w \in Workers :
         /\ busy'[w].at # "idle" => \/ Working(w) /\ busy'[w].call = busy[w].call
                                    \/ busy'[w].call \in Els(taskQ[w])
         /\ Els(taskQ[w]) \subseteq Calls
  BY <1>1 DEF Working
<1>3. \A k \in Calls : Unmade(k)' =>
         /\ Unmade(k) /\ call'[k].st = call[k].st
         /\ k \in Els(getters') => k \in Els(getters)
         /\ \A w \in Workers : k \in Els(taskQ'[w]) => k \in Els(taskQ[w])
  OBVIOUS
<1>4. Once(getters') BY DEF MadeInv
<1>5. upd'.pc # "idle" => upd'.round \in Rounds BY DEF MadeInv
<1>6. QED BY <1>2, <1>3, <1>4, <1>5, MadeKeeps

\* The calls S are made.
LEMMA MadeGrows ==
    ASSUME TypeOK, MadeInv, UNCHANGED busy, NEW S, Once(getters'),
           upd'.pc # "idle" => upd'.round \in Rounds,
           \A w \in Workers : Els(taskQ'[w]) \subseteq Els(taskQ[w]) \cup S,
           Els(getters') \subseteq Els(getters) \cup S,
           \A k \in Calls \ S : call'[k].st = call[k].st,
           \A k \in Calls : Unmade(k)' => Unmade(k) /\ k \notin S
    PROVE  MadeInv'
<1>1. \A w \in Workers : Els(taskQ[w]) \subseteq Calls BY ElsIn DEF TypeOK
<1>2. \A w \in Workers :
         /\ busy'[w].at # "idle" => \/ Working(w) /\ busy'[w].call = busy[w].call
                                    \/ busy'[w].call \in Els(taskQ[w])
         /\ Els(taskQ[w]) \subseteq Calls
  BY <1>1 DEF Working
<1>3. \A k \in Calls : Unmade(k)' =>
         /\ Unmade(k) /\ call'[k].st = call[k].st
         /\ k \in Els(getters') => k \in Els(getters)
         /\ \A w \in Workers : k \in Els(taskQ'[w]) => k \in Els(taskQ[w])
  OBVIOUS
<1>4. QED BY <1>2, <1>3, MadeKeeps

LEMMA ForgetKeeps ==
    ASSUME TypeOK, MadeInv, OwnInv, NEW S, Forget(S), UNCHANGED << resQ, taskQ, busy >>
    PROVE  /\ call' \in [Calls -> CallRec] /\ UNCHANGED << getters, lost >>
           /\ \A k \in Calls : /\ call'[k].floor = call[k].floor \/ call'[k].floor = 0
                               /\ Unmade(k) => call'[k].st = call[k].st
           /\ OwnInv'
<1>1. call \in [Calls -> CallRec] /\ 0 \in 0..MaxVersion BY Bounds DEF TypeOK, CallRec
<1>2. ASSUME NEW k \in Calls
      PROVE  /\ call'[k] \in CallRec
             /\ \/ call'[k] = call[k]
                \/ /\ call[k].st # "waiting" /\ call'[k].st = "new"
                   /\ call'[k].live = call[k].live /\ call'[k].floor = 0
  <2>1. PICK c, d : c = call[k] /\ d = [NoCall EXCEPT !.live = c.live] OBVIOUS
  <2>2. /\ d \in CallRec /\ d.st = "new" /\ d.live = c.live /\ d.floor = 0
    BY <1>1, <2>1 DEF NoCall, CallRec
  <2>3. call'[k] = IF k \in S /\ c.st # "waiting" THEN d ELSE c BY <2>1 DEF Forget
  <2>4. QED BY <1>1, <2>1, <2>2, <2>3
<1>3. call' \in [Calls -> CallRec] BY <1>2 DEF Forget
<1>4. UNCHANGED << getters, lost >> BY DEF Forget
<1>5. OwnInv' BY <1>2, <1>4, OwnKeeps
<1>6. \A k \in Calls : Unmade(k) => call'[k].st = call[k].st BY <1>2 DEF MadeInv
<1>7. QED BY <1>2, <1>3, <1>4, <1>5, <1>6

LEMMA CacheKeeps ==
    ASSUME IInv, NEW c \in Clients, CacheUserdata(c)
    PROVE  IInv'
<1> DEFINE S == Of(c, "cache")
<1>1. TypeOK /\ MadeInv /\ FreshInv /\ OwnInv BY DEF IInv
<1>2. Batch(S) /\ \A k \in S : k \in Calls /\ k[1] = c /\ k[2] = "cache"
  BY OfIs DEF Batch
<1>3. /\ pc[c] = "idle" /\ pc' = [pc EXCEPT ![c] = "cache"] /\ Submit(S)
      /\ UNCHANGED << files, db, upd, busy, ver, content, cache, hash, avail, resQ, slow >>
  BY DEF CacheUserdata, dataVars, workerVars
<1>4. \A k \in S : Unmade(k) BY <1>2, <1>3 DEF Unmade
<1> HIDE DEF S
<1>5. /\ call' \in [Calls -> CallRec] /\ taskQ' \in [Workers -> Seq(Calls)]
      /\ getters' \in Seq(Calls) /\ lost' = lost /\ Once(getters')
      /\ \A w \in Workers : Els(taskQ'[w]) \subseteq Els(taskQ[w]) \cup S
      /\ Els(getters') \subseteq Els(getters) \cup S
      /\ \A k \in Calls \ S : call'[k].st = call[k].st /\ call'[k].floor = call[k].floor
      /\ \A k \in S : call'[k].floor = (IF k[2] = "recommend" THEN db ELSE 0)
      /\ OwnInv'
  BY <1>1, <1>2, <1>3, <1>4, SubmitKeeps
<1>6. TypeOK' BY <1>1, <1>3, <1>5 DEF TypeOK, CallRec
<1>7. \A k \in Calls : Unmade(k)' => Unmade(k) /\ k \notin S
  BY <1>1, <1>2, <1>3, CallParts DEF Unmade, TypeOK
<1>8. MadeInv'
  <2>1. upd'.pc # "idle" => upd'.round \in Rounds BY <1>1, <1>3 DEF MadeInv
  <2>2. QED BY <1>1, <1>3, <1>5, <1>7, <2>1, MadeGrows
<1>9. FreshInv'
  <2>1. \A k \in Calls : call'[k].floor = call[k].floor \/ call'[k].floor = 0 BY <1>2, <1>5
  <2>2. QED BY <1>1, <1>3, <2>1, FreshKeeps
<1>10. QED BY <1>5, <1>6, <1>8, <1>9 DEF IInv

LEMMA CacheEndsKeeps ==
    ASSUME IInv, NEW c \in Clients, CacheEnds(c)
    PROVE  IInv'
<1> DEFINE S == Of(c, "cache")
           h == << c, "cache", FirstWorker >>
<1>1. TypeOK /\ MadeInv /\ FreshInv /\ OwnInv BY DEF IInv
<1>2. /\ pc[c] = "cache" /\ Forget(S)
      /\ UNCHANGED << files, db, upd, busy, ver, content, cache, avail, taskQ, resQ, slow >>
  BY DEF CacheEnds, dataVars, workerVars
<1>3. \/ pc' = [pc EXCEPT ![c] = "failed"] /\ hash' = hash
      \/ /\ \A k \in S : Answered(k)
         /\ call[h].got.call[2] = "cache"
         /\ pc' = [pc EXCEPT ![c] = "acquire"]
         /\ hash' = [hash EXCEPT ![c] = Data[call[h].got.call[1]]]
  BY DEF CacheEnds
<1>4. /\ call' \in [Calls -> CallRec] /\ UNCHANGED << getters, lost >>
      /\ \A k \in Calls : /\ call'[k].floor = call[k].floor \/ call'[k].floor = 0
                          /\ Unmade(k) => call'[k].st = call[k].st
      /\ OwnInv'
  BY <1>1, <1>2, ForgetKeeps
<1>5. hash' \in [Clients -> {Data[x] : x \in Clients} \cup {None}]
  <2>1. hash \in [Clients -> {Data[x] : x \in Clients} \cup {None}] BY <1>1 DEF TypeOK
  <2>2. ASSUME \A k \in S : Answered(k), call[h].got.call[2] = "cache"
        PROVE  Data[call[h].got.call[1]] \in {Data[x] : x \in Clients}
    <3>1. FirstWorker \in Workers BY DeckAssumption DEF FirstWorker
    <3>2. h \in S /\ h \in Calls BY <3>1 DEF Of, Calls
    <3>3. call[h].got \in Results BY <1>1, <2>2, <3>2 DEF OwnInv, Answered
    <3>4. call[h].got.call \in Calls BY <3>3 DEF Results
    <3>5. call[h].got.call[1] \in Clients BY <2>2, <3>4, CallParts
    <3>6. QED BY <3>5
  <2>3. QED BY <1>3, <2>1, <2>2
<1>6. pc' \in [Clients -> {"idle", "cache", "acquire", "recommend", "done", "failed"}]
  BY <1>1, <1>3 DEF TypeOK
<1>7. TypeOK' BY <1>1, <1>2, <1>4, <1>5, <1>6 DEF TypeOK, CallRec
<1>8. \A k \in Calls : Unmade(k)' => Unmade(k)
  <2>1. \A x \in Clients : x # c => pc'[x] = pc[x] BY <1>1, <1>3 DEF TypeOK
  <2>2. pc'[c] \in {"failed", "acquire"} BY <1>1, <1>3 DEF TypeOK
  <2>3. QED BY <1>2, <2>1, <2>2, CallParts DEF Unmade
<1>9. MadeInv' BY <1>1, <1>2, <1>4, <1>8, MadeStays
<1>10. FreshInv' BY <1>1, <1>2, <1>4, FreshKeeps
<1>11. QED BY <1>4, <1>7, <1>9, <1>10 DEF IInv

LEMMA RecommendKeeps ==
    ASSUME IInv, NEW c \in Clients, NEW w \in Workers, Recommend(c, w)
    PROVE  IInv'
<1> DEFINE h == << c, "recommend", w >>
<1>1. TypeOK /\ MadeInv /\ FreshInv /\ OwnInv BY DEF IInv
<1>2. h \in Calls /\ h[1] = c /\ h[2] = "recommend" BY DEF Calls
<1>3. /\ pc[c] = "acquire" /\ pc' = [pc EXCEPT ![c] = "recommend"] /\ Submit({h})
      /\ avail' = avail \ {w}
      /\ UNCHANGED << files, db, upd, busy, ver, content, cache, hash, resQ, slow >>
  BY DEF Recommend, dataVars, workerVars
<1>4. Batch({h})
  <2>1. IsFiniteSet({h}) BY FS_Singleton
  <2>2. QED BY <1>2, <2>1 DEF Batch
<1>5. Unmade(h) BY <1>2, <1>3 DEF Unmade
<1> HIDE DEF h
<1>6. /\ call' \in [Calls -> CallRec] /\ taskQ' \in [Workers -> Seq(Calls)]
      /\ getters' \in Seq(Calls) /\ lost' = lost /\ Once(getters')
      /\ \A x \in Workers : Els(taskQ'[x]) \subseteq Els(taskQ[x]) \cup {h}
      /\ Els(getters') \subseteq Els(getters) \cup {h}
      /\ \A k \in Calls \ {h} : call'[k].st = call[k].st /\ call'[k].floor = call[k].floor
      /\ \A k \in {h} : call'[k].floor = (IF k[2] = "recommend" THEN db ELSE 0)
      /\ OwnInv'
  <2>1. \A k \in {h} : Unmade(k) BY <1>5
  <2>2. UNCHANGED << resQ, busy >> BY <1>3
  <2>3. QED BY <1>1, <1>3, <1>4, <2>1, <2>2, SubmitKeeps
<1>7. TypeOK' BY <1>1, <1>3, <1>6 DEF TypeOK, CallRec
<1>8. \A k \in Calls : Unmade(k)' => Unmade(k) /\ k \notin {h}
  BY <1>1, <1>2, <1>3, CallParts DEF Unmade, TypeOK
<1>9. MadeInv'
  <2>1. upd'.pc # "idle" => upd'.round \in Rounds BY <1>1, <1>3 DEF MadeInv
  <2>2. QED BY <1>1, <1>3, <1>6, <1>8, <2>1, MadeGrows
<1>10. FreshInv'
  <2>1. \A k \in Calls : \/ call'[k].floor = call[k].floor
                         \/ call'[k].floor = 0
                         \/ Unmade(k) /\ call'[k].floor = db
    BY <1>2, <1>5, <1>6
  <2>2. QED BY <1>1, <1>3, <2>1, FreshKeeps
<1>11. QED BY <1>6, <1>7, <1>9, <1>10 DEF IInv

LEMMA RecommendEndsKeeps ==
    ASSUME IInv, NEW c \in Clients, NEW w \in Workers, RecommendEnds(c, w)
    PROVE  IInv'
<1>1. TypeOK /\ MadeInv /\ FreshInv /\ OwnInv BY DEF IInv
<1>2. /\ pc[c] = "recommend" /\ Forget({<< c, "recommend", w >>})
      /\ avail' = avail \cup {w}
      /\ UNCHANGED << files, db, upd, busy, ver, content, cache, hash, taskQ, resQ, slow >>
  BY DEF RecommendEnds, dataVars, workerVars
<1>3. pc' = [pc EXCEPT ![c] = "done"] \/ pc' = [pc EXCEPT ![c] = "failed"]
  BY DEF RecommendEnds, Outcome
<1>4. /\ call' \in [Calls -> CallRec] /\ UNCHANGED << getters, lost >>
      /\ \A k \in Calls : /\ call'[k].floor = call[k].floor \/ call'[k].floor = 0
                          /\ Unmade(k) => call'[k].st = call[k].st
      /\ OwnInv'
  BY <1>1, <1>2, ForgetKeeps
<1>5. pc' \in [Clients -> {"idle", "cache", "acquire", "recommend", "done", "failed"}]
  BY <1>1, <1>3 DEF TypeOK
<1>6. TypeOK' BY <1>1, <1>2, <1>4, <1>5 DEF TypeOK, CallRec
<1>7. \A k \in Calls : Unmade(k)' => Unmade(k)
  <2>1. \A x \in Clients : x # c => pc'[x] = pc[x] BY <1>1, <1>3 DEF TypeOK
  <2>2. pc'[c] \in {"done", "failed"} BY <1>1, <1>3 DEF TypeOK
  <2>3. QED BY <1>2, <2>1, <2>2, CallParts DEF Unmade
<1>8. MadeInv' BY <1>1, <1>2, <1>4, <1>7, MadeStays
<1>9. FreshInv' BY <1>1, <1>2, <1>4, FreshKeeps
<1>10. QED BY <1>4, <1>6, <1>8, <1>9 DEF IInv

-----------------------------------------------------------------------------
(* Game data. *)

\* A step of the upload that makes and ends no call.
LEMMA UploadKeeps ==
    ASSUME IInv,
           UNCHANGED << db, clientVars, callVars, workerVars, avail, taskQ, resQ, slow >>,
           files' \in SUBSET (0..MaxVersion),
           upd' \in [pc : {"idle", "upload", "write", "refresh"}, round : 0..MaxRounds,
                     ver : 0..MaxVersion, data : 0..MaxVersion],
           upd'.pc # "idle" => upd'.round \in Rounds,
           \A k \in Calls : Unmade(k)' => Unmade(k),
           \A f \in files' : f >= db,
           upd'.pc \in {"upload", "write"} => upd'.ver > db,
           upd'.pc = "write" => upd'.data >= upd'.ver
    PROVE  IInv'
<1>1. TypeOK /\ MadeInv /\ FreshInv /\ OwnInv BY DEF IInv
<1>2. UNCHANGED << db, pc, hash, call, getters, lost, busy, ver, content, cache, avail, taskQ, resQ, slow >>
  BY DEF clientVars, callVars, workerVars
<1>3. TypeOK' BY <1>1, <1>2 DEF TypeOK
<1>4. MadeInv' BY <1>1, <1>2 DEF MadeInv, Working
<1>5. FreshInv' BY <1>1, <1>2 DEF FreshInv
<1>6. OwnInv'
  <2>1. \A k \in Calls : call'[k] = call[k] BY <1>2
  <2>2. QED BY <1>1, <1>2, <2>1, OwnKeeps
<1>7. QED BY <1>3, <1>4, <1>5, <1>6 DEF IInv

UpdRec == [pc : {"idle", "upload", "write", "refresh"}, round : 0..MaxRounds,
           ver : 0..MaxVersion, data : 0..MaxVersion]

LEMMA ProbeKeeps == ASSUME IInv, Probe PROVE IInv'
<1>1. TypeOK /\ MadeInv /\ FreshInv /\ OwnInv BY DEF IInv
<1>2. PICK v \in (db + 1) .. MaxVersion :
         upd' = [upd EXCEPT !.pc = "upload", !.round = @ + 1, !.ver = v]
  BY DEF Probe
<1>3. PICK u, d : u = upd /\ d = upd' OBVIOUS
<1>4. /\ u \in UpdRec /\ u.pc = "idle" /\ u.round < MaxRounds
      /\ MaxRounds \in Nat /\ MaxVersion \in Nat /\ db \in 0..MaxVersion
  BY <1>1, <1>3, Bounds DEF TypeOK, UpdRec, Probe
<1>5. /\ v \in 0..MaxVersion /\ v > db
      /\ u.round + 1 \in 0..MaxRounds /\ u.round + 1 \in Rounds
  BY <1>2, <1>4 DEF UpdRec, Rounds
<1>6. d \in UpdRec /\ d.pc = "upload" /\ d.ver = v /\ d.round = u.round + 1 /\ d.round \in Rounds
  <2>1. PICK n : n = u.round + 1 OBVIOUS
  <2>2. d = [u EXCEPT !.pc = "upload", !.round = n, !.ver = v] BY <1>2, <1>3, <2>1
  <2>3. QED BY <1>4, <1>5, <2>1, <2>2 DEF UpdRec
<1>7. \A k \in Calls : Unmade(k)' => Unmade(k)
  <2>1. ASSUME NEW k \in Calls, k[2] = "refresh", Unmade(k)'
        PROVE  k[1] > u.round
    <3>1. PICK r \in Rounds : r = k[1] BY <2>1 DEF Calls
    <3>2. r > u.round + 1 \/ r = u.round + 1 BY <1>3, <1>6, <2>1, <3>1 DEF Unmade
    <3>3. QED BY <1>4, <3>1, <3>2 DEF Rounds, UpdRec
  <2>2. pc' = pc BY DEF Probe, clientVars
  <2>3. QED BY <1>3, <2>1, <2>2 DEF Unmade
<1>8. \A f \in files : f >= db BY <1>1 DEF FreshInv
<1>9. UNCHANGED << files, db, clientVars, callVars, workerVars, avail, taskQ, resQ, slow >>
  BY DEF Probe
<1>10. files \in SUBSET (0..MaxVersion) BY <1>1 DEF TypeOK
<1>11. QED BY <1>3, <1>5, <1>6, <1>7, <1>8, <1>9, <1>10, UploadKeeps DEF UpdRec

LEMMA BeginWriteKeeps == ASSUME IInv, BeginWrite PROVE IInv'
<1>1. TypeOK /\ MadeInv /\ FreshInv /\ OwnInv BY DEF IInv
<1>2. PICK v \in upd.ver .. MaxVersion :
         upd' = [upd EXCEPT !.pc = "write", !.data = v] /\ files' = files \cup {v}
  BY DEF BeginWrite
<1>3. PICK u, d : u = upd /\ d = upd' OBVIOUS
<1>4. /\ u \in UpdRec /\ u.pc = "upload" /\ u.ver > db /\ u.round \in Rounds
      /\ MaxVersion \in Nat /\ db \in 0..MaxVersion
  BY <1>1, <1>3, Bounds DEF TypeOK, UpdRec, BeginWrite, FreshInv, MadeInv
<1>5. v \in 0..MaxVersion /\ v >= u.ver /\ v >= db BY <1>2, <1>3, <1>4 DEF UpdRec
<1>6. d \in UpdRec /\ d.pc = "write" /\ d.ver = u.ver /\ d.round = u.round /\ d.data = v
  <2>1. d = [u EXCEPT !.pc = "write", !.data = v] BY <1>2, <1>3
  <2>2. QED BY <1>4, <1>5, <2>1 DEF UpdRec
<1>7. \A k \in Calls : Unmade(k)' => Unmade(k)
  <2>1. pc' = pc BY DEF BeginWrite, clientVars
  <2>2. QED BY <1>3, <1>4, <1>6, <2>1 DEF Unmade
<1>8. \A f \in files' : f >= db BY <1>1, <1>2, <1>5 DEF FreshInv
<1>9. UNCHANGED << db, clientVars, callVars, workerVars, avail, taskQ, resQ, slow >>
  BY DEF BeginWrite
<1>10. files' \in SUBSET (0..MaxVersion) BY <1>1, <1>2, <1>5 DEF TypeOK
<1>11. QED BY <1>3, <1>4, <1>5, <1>6, <1>7, <1>8, <1>9, <1>10, UploadKeeps DEF UpdRec

LEMMA WriteFailsKeeps == ASSUME IInv, WriteFails PROVE IInv'
<1>1. TypeOK /\ MadeInv /\ FreshInv /\ OwnInv BY DEF IInv
<1>2. PICK u, d : u = upd /\ d = upd' OBVIOUS
<1>3. /\ u \in UpdRec /\ u.pc = "write" /\ d = [u EXCEPT !.pc = "idle"]
  BY <1>1, <1>2 DEF TypeOK, UpdRec, WriteFails
<1>4. d \in UpdRec /\ d.pc = "idle" /\ d.round = u.round BY <1>3 DEF UpdRec
<1>5. \A k \in Calls : Unmade(k)' => Unmade(k)
  <2>1. pc' = pc BY DEF WriteFails, clientVars
  <2>2. QED BY <1>2, <1>3, <1>4, <2>1 DEF Unmade
<1>6. UNCHANGED << files, db, clientVars, callVars, workerVars, avail, taskQ, resQ, slow >>
  BY DEF WriteFails
<1>7. files \in SUBSET (0..MaxVersion) BY <1>1 DEF TypeOK
<1>8. \A f \in files : f >= db BY <1>1 DEF FreshInv
<1>9. QED BY <1>2, <1>4, <1>5, <1>6, <1>7, <1>8, UploadKeeps DEF UpdRec

LEMMA EndWriteKeeps == ASSUME IInv, EndWrite PROVE IInv'
<1> DEFINE S == Of(upd.round, "refresh")
<1>1. TypeOK /\ MadeInv /\ FreshInv /\ OwnInv BY DEF IInv
<1>2. PICK u, d : u = upd /\ d = upd' OBVIOUS
<1>3. /\ u \in UpdRec /\ u.pc = "write" /\ d = [u EXCEPT !.pc = "refresh"]
      /\ u.round \in Rounds /\ u.ver > db /\ u.data >= u.ver
      /\ MaxVersion \in Nat /\ db \in 0..MaxVersion
  BY <1>1, <1>2, Bounds DEF TypeOK, UpdRec, EndWrite, MadeInv, FreshInv
<1>4. d \in UpdRec /\ d.pc = "refresh" /\ d.round = u.round BY <1>3 DEF UpdRec
<1>5. Batch(S) /\ \A k \in S : k \in Calls /\ k[1] = u.round /\ k[2] = "refresh"
  BY <1>2, <1>3, OfIs DEF Batch
<1>6. /\ Submit(S) /\ files' = {u.data} /\ db' = u.ver
      /\ UNCHANGED << pc, hash, busy, ver, content, cache, avail, resQ, slow >>
  BY <1>2 DEF EndWrite, clientVars, workerVars
<1>7. \A k \in S : Unmade(k) BY <1>2, <1>3, <1>5 DEF Unmade
<1> HIDE DEF S
<1>8. /\ call' \in [Calls -> CallRec] /\ taskQ' \in [Workers -> Seq(Calls)]
      /\ getters' \in Seq(Calls) /\ lost' = lost /\ Once(getters')
      /\ \A w \in Workers : Els(taskQ'[w]) \subseteq Els(taskQ[w]) \cup S
      /\ Els(getters') \subseteq Els(getters) \cup S
      /\ \A k \in Calls \ S : call'[k].st = call[k].st /\ call'[k].floor = call[k].floor
      /\ \A k \in S : call'[k].floor = (IF k[2] = "recommend" THEN db ELSE 0)
      /\ OwnInv'
  BY <1>1, <1>5, <1>6, <1>7, SubmitKeeps
<1>9. TypeOK'
  <2>1. files' \in SUBSET (0..MaxVersion) /\ db' \in 0..MaxVersion BY <1>3, <1>6 DEF UpdRec
  <2>2. upd' \in UpdRec BY <1>2, <1>4
  <2>3. QED BY <1>1, <1>6, <1>8, <2>1, <2>2 DEF TypeOK, CallRec, UpdRec
<1>10. \A k \in Calls : Unmade(k)' => Unmade(k) /\ k \notin S
  <2>1. ASSUME NEW k \in Calls, k[2] = "refresh", Unmade(k)'
        PROVE  k[1] > u.round /\ k[1] # u.round
    <3>1. PICK r \in Rounds : r = k[1] BY <2>1 DEF Calls
    <3>2. r > u.round BY <1>2, <1>4, <2>1, <3>1 DEF Unmade
    <3>3. QED BY <1>3, <3>1, <3>2 DEF Rounds
  <2>2. QED BY <1>2, <1>5, <1>6, <2>1 DEF Unmade
<1>11. MadeInv'
  <2>1. upd'.pc # "idle" => upd'.round \in Rounds BY <1>2, <1>3, <1>4
  <2>2. QED BY <1>1, <1>6, <1>8, <1>10, <2>1, MadeGrows
<1>12. FreshInv'
  <2>1. \A k \in Calls : call'[k].floor = call[k].floor \/ call'[k].floor = 0 BY <1>5, <1>8
  <2>2. \A k \in Calls : call[k].floor \in Nat /\ call[k].floor <= db
    BY <1>1, <1>3 DEF FreshInv, TypeOK
  <2>3. \A k \in Calls : call'[k].floor <= db' BY <1>3, <1>6, <2>1, <2>2 DEF UpdRec
  <2>4. \A w \in Workers : ver[w] \in Nat /\ busy[w].seen \in Nat BY <1>1, <1>3 DEF TypeOK
  <2>5. \A w \in Workers : ver[w] <= db /\ \A v \in content[w] : v >= ver[w]
    BY <1>1 DEF FreshInv
  <2>6. \A w \in Workers : ver[w] <= db' BY <1>3, <1>6, <2>4, <2>5 DEF UpdRec
  <2>7. ASSUME NEW w \in Workers, busy[w].at = "load"
        PROVE  /\ busy[w].seen <= db' /\ call'[busy[w].call].floor <= busy[w].seen
               /\ \A v \in content[w] : v >= busy[w].seen
    <3>1. /\ busy[w].seen <= db /\ call[busy[w].call].floor <= busy[w].seen
          /\ \A v \in content[w] : v >= busy[w].seen
      BY <1>1, <2>7 DEF FreshInv
    <3>2. busy[w].call \in Calls BY <1>1, <2>7 DEF MadeInv, Working
    <3>3. busy[w].seen <= db' BY <1>3, <1>6, <2>4, <3>1 DEF UpdRec
    <3>4. call'[busy[w].call].floor <= busy[w].seen BY <2>1, <2>4, <3>1, <3>2
    <3>5. QED BY <3>1, <3>3, <3>4
  <2>8. ASSUME NEW w \in Workers, busy[w].at = "compute"
        PROVE  call'[busy[w].call].floor <= ver[w]
    <3>1. call[busy[w].call].floor <= ver[w] BY <1>1, <2>8 DEF FreshInv
    <3>2. busy[w].call \in Calls BY <1>1, <2>8 DEF MadeInv, Working
    <3>3. QED BY <2>1, <2>4, <3>1, <3>2
  <2>9. \A f \in files' : f >= db' BY <1>3, <1>6
  <2>10. upd'.pc = "refresh" BY <1>2, <1>4
  <2>11. QED BY <1>6, <2>3, <2>5, <2>6, <2>7, <2>8, <2>9, <2>10 DEF FreshInv
<1>13. QED BY <1>8, <1>9, <1>11, <1>12 DEF IInv

LEMMA RefreshEndsKeeps == ASSUME IInv, RefreshEnds PROVE IInv'
<1>1. TypeOK /\ MadeInv /\ FreshInv /\ OwnInv BY DEF IInv
<1>2. PICK u, d : u = upd /\ d = upd' OBVIOUS
<1>3. u \in UpdRec /\ u.pc = "refresh" /\ d = [u EXCEPT !.pc = "idle"]
  BY <1>1, <1>2 DEF TypeOK, UpdRec, RefreshEnds
<1>4. d \in UpdRec /\ d.pc = "idle" /\ d.round = u.round BY <1>3 DEF UpdRec
<1>5. /\ Forget(Of(upd.round, "refresh"))
      /\ UNCHANGED << files, db, pc, hash, busy, ver, content, cache, avail, taskQ, resQ, slow >>
  BY DEF RefreshEnds, clientVars, workerVars
<1>6. /\ call' \in [Calls -> CallRec] /\ UNCHANGED << getters, lost >>
      /\ \A k \in Calls : /\ call'[k].floor = call[k].floor \/ call'[k].floor = 0
                          /\ Unmade(k) => call'[k].st = call[k].st
      /\ OwnInv'
  BY <1>1, <1>5, ForgetKeeps
<1>7. TypeOK'
  <2>1. upd' \in UpdRec BY <1>2, <1>4
  <2>2. QED BY <1>1, <1>5, <1>6, <2>1 DEF TypeOK, CallRec, UpdRec
<1>8. \A k \in Calls : Unmade(k)' => Unmade(k) BY <1>2, <1>3, <1>4, <1>5 DEF Unmade
<1>9. MadeInv'
  <2>1. upd'.pc = "idle" BY <1>2, <1>4
  <2>2. \A k \in Calls : Unmade(k)' =>
           /\ call'[k].st = "new" /\ k \notin Els(getters)
           /\ \A w \in Workers : k \notin Els(taskQ[w]) /\ (Working(w) => busy[w].call # k)
    BY <1>1, <1>6, <1>8 DEF MadeInv
  <2>3. QED BY <1>1, <1>5, <1>6, <2>1, <2>2 DEF MadeInv, Working
<1>10. FreshInv'
  <2>1. upd'.pc = "idle" BY <1>2, <1>4
  <2>2. \A k \in Calls : /\ call[k].floor \in Nat /\ call[k].floor <= db
                         /\ call'[k].floor = call[k].floor \/ call'[k].floor = 0
    BY <1>1, <1>6, Bounds DEF FreshInv, TypeOK
  <2>3. db \in Nat /\ \A w \in Workers : ver[w] \in Nat /\ busy[w].seen \in Nat
    BY <1>1, Bounds DEF TypeOK
  <2>4. \A w \in Workers : busy[w].at = "load" => call'[busy[w].call].floor <= busy[w].seen
    BY <1>1, <2>2, <2>3 DEF FreshInv, MadeInv, Working
  <2>5. \A w \in Workers : busy[w].at = "compute" => call'[busy[w].call].floor <= ver[w]
    BY <1>1, <2>2, <2>3 DEF FreshInv, MadeInv, Working
  <2>6. \A k \in Calls : call'[k].floor <= db BY <2>2, <2>3
  <2>7. QED BY <1>1, <1>5, <2>1, <2>4, <2>5, <2>6 DEF FreshInv
<1>11. QED BY <1>6, <1>7, <1>9, <1>10 DEF IInv

-----------------------------------------------------------------------------
(* The worker processes. *)

LEMMA TakesIs ==
    ASSUME TypeOK, NEW w \in Workers, NEW op, Takes(w, op)
    PROVE  /\ taskQ' \in [Workers -> Seq(Calls)]
           /\ \A x \in Workers \ {w} : taskQ'[x] = taskQ[x]
           /\ Len(taskQ'[w]) = Len(taskQ[w]) - 1
           /\ Els(taskQ'[w]) \subseteq Els(taskQ[w])
           /\ Head(taskQ[w]) \in Els(taskQ[w]) /\ Head(taskQ[w]) \in Calls
           /\ Head(taskQ[w])[2] = op /\ busy[w] = Idle
<1>1. PICK s : s = taskQ[w] OBVIOUS
<1>2. /\ s \in Seq(Calls) /\ s # << >> /\ taskQ \in [Workers -> Seq(Calls)]
      /\ taskQ' = [taskQ EXCEPT ![w] = Tail(s)] /\ Head(s)[2] = op /\ busy[w] = Idle
  BY <1>1 DEF TypeOK, Takes
<1>3. /\ Tail(s) \in Seq(Calls) /\ Len(Tail(s)) = Len(s) - 1
      /\ Els(Tail(s)) \subseteq Els(s) /\ Head(s) \in Els(s) /\ Head(s) \in Calls
  BY <1>2, TailIs
<1>4. taskQ'[w] = Tail(s) BY <1>2
<1>5. QED BY <1>1, <1>2, <1>3, <1>4

LEMMA AnswerIs ==
    ASSUME TypeOK, NEW w \in Workers, NEW k \in Calls, NEW ok \in BOOLEAN, Answer(w, k, ok)
    PROVE  /\ resQ' \in [Workers -> Seq(Results)]
           /\ \A x \in Workers \ {w} : resQ'[x] = resQ[x]
           /\ Len(resQ'[w]) = Len(resQ[w]) + 1
           /\ \A a \in Els(resQ'[w]) : a \in Els(resQ[w]) \/ a.call = k
<1>1. PICK s, r : s = resQ[w] /\ r = [call |-> k, ok |-> ok] OBVIOUS
<1>2. /\ s \in Seq(Results) /\ r \in Results /\ r.call = k /\ resQ \in [Workers -> Seq(Results)]
      /\ resQ' = [resQ EXCEPT ![w] = Append(s, r)]
  BY <1>1 DEF TypeOK, Answer, Results
<1>3. /\ Append(s, r) \in Seq(Results) /\ Len(Append(s, r)) = Len(s) + 1
      /\ Els(Append(s, r)) = Els(s) \cup {r}
  BY <1>2, AppendIs
<1>4. resQ'[w] = Append(s, r) BY <1>2
<1>5. QED BY <1>1, <1>2, <1>3, <1>4

\* A step of w moves one task on: from its queue to its hands, from there to its results.
WorkerMoves(w) ==
    /\ UNCHANGED << files, db, upd, pc, hash, call, getters, lost, avail, slow >>
    /\ taskQ' \in [Workers -> Seq(Calls)] /\ resQ' \in [Workers -> Seq(Results)]
    /\ busy' \in [Workers -> [call : Calls \cup {None}, seen : 0..MaxVersion,
                              at : {"idle", "load", "compute"}]]
    /\ \A x \in Workers \ {w} :
          taskQ'[x] = taskQ[x] /\ resQ'[x] = resQ[x] /\ busy'[x] = busy[x]
    /\ Len(resQ'[w]) + Len(taskQ'[w]) + (IF busy'[w].at # "idle" THEN 1 ELSE 0) = Load(w)
    /\ Els(taskQ'[w]) \subseteq Els(taskQ[w])
    /\ busy'[w].at # "idle" => \/ Working(w) /\ busy'[w].call = busy[w].call
                               \/ busy'[w].call \in Els(taskQ[w])
    /\ \A a \in Els(resQ'[w]) : \/ a \in Els(resQ[w])
                                \/ a.call \in Els(taskQ[w])
                                \/ Working(w) /\ a.call = busy[w].call

LEMMA WorkerKeeps ==
    ASSUME TypeOK, MadeInv, OwnInv, NEW w \in Workers, WorkerMoves(w)
    PROVE  MadeInv' /\ OwnInv'
<1>1. UNCHANGED << upd, pc, call, getters, lost >> BY DEF WorkerMoves
<1>2. \A x \in Workers : Els(taskQ[x]) \subseteq Calls BY ElsIn DEF TypeOK
<1>3. MadeInv'
  <2>1. \A k \in Calls : Unmade(k)' <=> Unmade(k) BY <1>1 DEF Unmade
  <2>2. \A x \in Workers : Els(taskQ'[x]) \subseteq Els(taskQ[x]) BY DEF WorkerMoves
  <2>3. \A k \in Calls : Unmade(k)' =>
           /\ Unmade(k) /\ call'[k].st = call[k].st
           /\ k \in Els(getters') => k \in Els(getters)
           /\ \A x \in Workers : k \in Els(taskQ'[x]) => k \in Els(taskQ[x])
    BY <1>1, <2>1, <2>2
  <2>4. \A x \in Workers :
           /\ busy'[x].at # "idle" => \/ Working(x) /\ busy'[x].call = busy[x].call
                                      \/ busy'[x].call \in Els(taskQ[x])
           /\ Els(taskQ[x]) \subseteq Calls
    BY <1>2 DEF WorkerMoves, Working
  <2>5. Once(getters') /\ (upd'.pc # "idle" => upd'.round \in Rounds) BY <1>1 DEF MadeInv
  <2>6. QED BY <2>3, <2>4, <2>5, MadeKeeps
<1>4. Waiting' = Waiting /\ \A x : WaitingAt(x)' = WaitingAt(x) BY <1>1 DEF Waiting, WaitingAt
<1>5. \A x \in Workers : Load(x)' = Load(x) BY DEF WorkerMoves, Load, Working
<1>6. \A k \in Calls : Only(k) => Only(k)'
  <2>1. ASSUME NEW k \in Calls, Only(k) PROVE Only(k)'
    <3>1. PICK x \in Workers : x = At(k) BY CallParts
    <3>2. /\ Els(taskQ[x]) \subseteq {k} /\ \A a \in Els(resQ[x]) : a.call = k
          /\ Working(x) => busy[x].call = k
      BY <2>1, <3>1 DEF Only
    <3>3. /\ Els(taskQ'[x]) \subseteq {k} /\ \A a \in Els(resQ'[x]) : a.call = k
          /\ busy'[x].at # "idle" => busy'[x].call = k
      <4>1. CASE x = w BY <3>2, <4>1 DEF WorkerMoves
      <4>2. CASE x # w
        <5>1. taskQ'[x] = taskQ[x] /\ resQ'[x] = resQ[x] /\ busy'[x] = busy[x]
          BY <4>2 DEF WorkerMoves
        <5>2. QED BY <3>2, <5>1 DEF Working
      <4>3. QED BY <4>1, <4>2
    <3>4. QED BY <3>1, <3>3 DEF Only, Working
  <2>2. QED BY <2>1
<1>7. \A k \in Waiting : k \in Calls BY DEF Waiting
<1>8. OwnInv'
  <2>1. \A x \in Workers \ lost : IsFiniteSet(WaitingAt(x)') /\ Load(x)' = Cardinality(WaitingAt(x)')
    BY <1>4, <1>5 DEF OwnInv
  <2>2. \A k \in Waiting : ~ call[k].shared /\ call[k].live => At(k) \notin lost /\ Only(k)'
    BY <1>6, <1>7 DEF OwnInv
  <2>3. OwnUnlessShared' BY <1>1 DEF OwnInv, OwnUnlessShared, Answered
  <2>4. QED BY <1>1, <1>4, <2>1, <2>2, <2>3 DEF OwnInv
<1>9. QED BY <1>3, <1>8

\* The lengths that a step of w changes.
LEMMA LoadIs ==
    ASSUME TypeOK, NEW w \in Workers
    PROVE  /\ Len(resQ[w]) \in Nat /\ Len(taskQ[w]) \in Nat
           /\ Load(w) = Len(resQ[w]) + Len(taskQ[w]) + (IF busy[w].at # "idle" THEN 1 ELSE 0)
           /\ busy[w] = Idle => busy[w].at = "idle"
BY ElsIn DEF TypeOK, Load, Working, Idle

LEMMA CacheTaskKeeps ==
    ASSUME IInv, NEW w \in Workers, cache_userdata(w)
    PROVE  WorkerMoves(w) /\ IInv'
<1>1. TypeOK /\ MadeInv /\ FreshInv /\ OwnInv BY DEF IInv
<1>2. PICK k : k = Head(taskQ[w]) OBVIOUS
<1>3. /\ Takes(w, "cache") /\ Answer(w, k, TRUE)
      /\ UNCHANGED << files, db, upd, pc, hash, call, getters, lost, busy, ver, content, avail, slow >>
  BY <1>2 DEF cache_userdata, dataVars, clientVars, callVars
<1>4. /\ taskQ' \in [Workers -> Seq(Calls)]
      /\ \A x \in Workers \ {w} : taskQ'[x] = taskQ[x]
      /\ Len(taskQ'[w]) = Len(taskQ[w]) - 1
      /\ Els(taskQ'[w]) \subseteq Els(taskQ[w])
      /\ k \in Els(taskQ[w]) /\ k \in Calls /\ k[2] = "cache" /\ busy[w] = Idle
  BY <1>1, <1>2, <1>3, TakesIs
<1>5. /\ resQ' \in [Workers -> Seq(Results)]
      /\ \A x \in Workers \ {w} : resQ'[x] = resQ[x]
      /\ Len(resQ'[w]) = Len(resQ[w]) + 1
      /\ \A a \in Els(resQ'[w]) : a \in Els(resQ[w]) \/ a.call = k
  BY <1>1, <1>3, <1>4, AnswerIs
<1>6. WorkerMoves(w)
  <2>1. PICK m, n : m = Len(resQ[w]) /\ n = Len(taskQ[w]) OBVIOUS
  <2>2. m \in Nat /\ n \in Nat /\ Load(w) = m + n + 0 /\ busy'[w].at = "idle"
    BY <1>1, <1>3, <1>4, <2>1, LoadIs
  <2>3. (m + 1) + (n - 1) + 0 = m + n + 0 BY <2>2
  <2>4. Len(resQ'[w]) + Len(taskQ'[w]) + (IF busy'[w].at # "idle" THEN 1 ELSE 0) = Load(w)
    BY <1>4, <1>5, <2>1, <2>2, <2>3
  <2>5. busy' \in [Workers -> [call : Calls \cup {None}, seen : 0..MaxVersion,
                               at : {"idle", "load", "compute"}]]
    BY <1>1, <1>3 DEF TypeOK
  <2>6. QED BY <1>3, <1>4, <1>5, <2>2, <2>4, <2>5 DEF WorkerMoves
<1>7. /\ cache' \in [Workers -> Seq({Data[c] : c \in Clients})]
      /\ \A x \in Workers : Len(cache'[x]) <= CacheNum
  <2> DEFINE D == {Data[c] : c \in Clients}
  <2>1. PICK b, s, t : b = Data[k[1]] /\ s = cache[w] /\ t = Append(s, b) OBVIOUS
  <2>2. /\ cache \in [Workers -> Seq(D)] /\ \A x \in Workers : Len(cache[x]) <= CacheNum
        /\ CacheNum \in Nat \ {0}
    BY <1>1, Bounds DEF TypeOK
  <2>3. b \in D BY <1>4, <2>1, CallParts
  <2>4. cache' = cache \/ cache' = [cache EXCEPT ![w] = Evict(s, b)]
    BY <1>2, <2>1 DEF cache_userdata
  <2> HIDE DEF D
  <2>5. /\ s \in Seq(D) /\ Len(s) \in Nat /\ Len(s) <= CacheNum
        /\ t \in Seq(D) /\ Len(t) = Len(s) + 1 /\ t # << >>
    <3>1. s \in Seq(D) /\ Len(s) <= CacheNum BY <2>1, <2>2
    <3>2. t \in Seq(D) /\ Len(s) \in Nat /\ Len(t) = Len(s) + 1 BY <2>1, <2>3, <3>1, AppendIs
    <3>3. t # << >> BY <3>2, EmptySeq
    <3>4. QED BY <3>1, <3>2, <3>3
  <2>6. Tail(t) \in Seq(D) /\ Len(Tail(t)) = Len(t) - 1 BY <2>5, TailIs
  <2>7. Evict(s, b) = IF Len(t) > CacheNum THEN Tail(t) ELSE t BY <2>1 DEF Evict
  <2>8. Evict(s, b) \in Seq(D) /\ Len(Evict(s, b)) <= CacheNum BY <2>2, <2>5, <2>6, <2>7
  <2>9. cache' \in [Workers -> Seq(D)] /\ \A x \in Workers : Len(cache'[x]) <= CacheNum
    BY <2>2, <2>4, <2>8
  <2>10. QED BY <2>9 DEF D
<1>8. MadeInv' /\ OwnInv' BY <1>1, <1>6, WorkerKeeps
<1>9. TypeOK' BY <1>1, <1>3, <1>4, <1>5, <1>7 DEF TypeOK
<1>10. FreshInv' BY <1>1, <1>3, FreshKeeps
<1>11. QED BY <1>6, <1>8, <1>9, <1>10 DEF IInv

\* Worker w takes its next task into its hands.
LEMMA TakeMoves ==
    ASSUME TypeOK, NEW w \in Workers, NEW op, Takes(w, op), NEW b,
           b \in [call : Calls \cup {None}, seen : 0..MaxVersion, at : {"idle", "load", "compute"}],
           b.call = Head(taskQ[w]), b.at # "idle", busy' = [busy EXCEPT ![w] = b],
           UNCHANGED << files, db, upd, pc, hash, call, getters, lost, avail, resQ, slow >>
    PROVE  WorkerMoves(w)
<1>1. /\ taskQ' \in [Workers -> Seq(Calls)]
      /\ \A x \in Workers \ {w} : taskQ'[x] = taskQ[x]
      /\ Len(taskQ'[w]) = Len(taskQ[w]) - 1
      /\ Els(taskQ'[w]) \subseteq Els(taskQ[w])
      /\ b.call \in Els(taskQ[w]) /\ busy[w] = Idle
  BY TakesIs
<1>2. /\ busy' \in [Workers -> [call : Calls \cup {None}, seen : 0..MaxVersion,
                                at : {"idle", "load", "compute"}]]
      /\ busy'[w] = b /\ \A x \in Workers \ {w} : busy'[x] = busy[x]
      /\ resQ \in [Workers -> Seq(Results)]
  BY DEF TypeOK
<1>3. PICK m, n : m = Len(resQ[w]) /\ n = Len(taskQ[w]) OBVIOUS
<1>4. m \in Nat /\ n \in Nat /\ Load(w) = m + n + 0 BY <1>1, <1>3, LoadIs
<1>5. m + (n - 1) + 1 = m + n + 0 BY <1>4
<1>6. Len(resQ'[w]) + Len(taskQ'[w]) + (IF busy'[w].at # "idle" THEN 1 ELSE 0) = Load(w)
  BY <1>1, <1>2, <1>3, <1>4, <1>5
<1>7. QED BY <1>1, <1>2, <1>6 DEF WorkerMoves

LEMMA BeginLoadKeeps ==
    ASSUME IInv, NEW w \in Workers, BeginLoad(w)
    PROVE  WorkerMoves(w) /\ IInv'
<1>1. TypeOK /\ MadeInv /\ FreshInv /\ OwnInv BY DEF IInv
<1>2. PICK b : b = [call |-> Head(taskQ[w]), at |-> "load", seen |-> db] OBVIOUS
<1>3. /\ busy' = [busy EXCEPT ![w] = b] /\ content' = [content EXCEPT ![w] = files]
      /\ UNCHANGED << files, db, upd, pc, hash, call, getters, lost, ver, cache, avail, resQ, slow >>
  BY <1>2 DEF BeginLoad, dataVars, clientVars, callVars
<1>4. PICK op : Takes(w, op) BY DEF BeginLoad
<1>5. b.call \in Calls /\ taskQ' \in [Workers -> Seq(Calls)] BY <1>1, <1>2, <1>4, TakesIs
<1>6. /\ b \in [call : Calls \cup {None}, seen : 0..MaxVersion, at : {"idle", "load", "compute"}]
      /\ b.call = Head(taskQ[w]) /\ b.at = "load" /\ b.seen = db
  BY <1>1, <1>2, <1>5 DEF TypeOK
<1>7. WorkerMoves(w) /\ MadeInv' /\ OwnInv'
  <2>1. WorkerMoves(w)
    <3>1. b.at # "idle" BY <1>6
    <3>2. QED BY <1>1, <1>3, <1>4, <1>6, <3>1, TakeMoves
  <2>2. QED BY <1>1, <2>1, WorkerKeeps
<1>8. /\ busy' \in [Workers -> [call : Calls \cup {None}, seen : 0..MaxVersion,
                                at : {"idle", "load", "compute"}]]
      /\ busy'[w] = b /\ \A x \in Workers \ {w} : busy'[x] = busy[x]
  BY <1>1, <1>3, <1>6 DEF TypeOK
<1>9. /\ content' \in [Workers -> SUBSET (0..MaxVersion)]
      /\ content'[w] = files /\ \A x \in Workers \ {w} : content'[x] = content[x]
  BY <1>1, <1>3 DEF TypeOK
<1>10. TypeOK' BY <1>1, <1>3, <1>5, <1>8, <1>9 DEF TypeOK
<1>11. FreshInv'
  <2>1. db \in Nat /\ ver[w] \in Nat /\ \A f \in files : f \in Nat
    BY <1>1, Bounds DEF TypeOK
  <2>2. ver[w] <= db /\ call[b.call].floor <= db /\ \A f \in files : f >= db
    BY <1>1, <1>5 DEF FreshInv
  <2>3. /\ \A v \in content'[w] : v >= ver[w] /\ v >= busy'[w].seen
        /\ busy'[w].seen <= db /\ call[busy'[w].call].floor <= busy'[w].seen
        /\ busy'[w].at # "compute"
    BY <1>6, <1>8, <1>9, <2>1, <2>2
  <2>4. ASSUME NEW x \in Workers
        PROVE  /\ ver[x] <= db
               /\ \A v \in content'[x] : v >= ver[x]
               /\ busy'[x].at = "load" => /\ busy'[x].seen <= db
                                          /\ call[busy'[x].call].floor <= busy'[x].seen
                                          /\ \A v \in content'[x] : v >= busy'[x].seen
               /\ busy'[x].at = "compute" => call[busy'[x].call].floor <= ver[x]
    <3>1. CASE x = w BY <2>1, <2>2, <2>3, <3>1
    <3>2. CASE x # w
      <4>1. busy'[x] = busy[x] /\ content'[x] = content[x] BY <1>8, <1>9, <3>2
      <4>2. QED BY <1>1, <4>1 DEF FreshInv
    <3>3. QED BY <3>1, <3>2
  <2>5. QED BY <1>1, <1>3, <2>4 DEF FreshInv
<1>12. QED BY <1>7, <1>10, <1>11 DEF IInv

LEMMA SkipLoadKeeps ==
    ASSUME IInv, NEW w \in Workers, SkipLoad(w)
    PROVE  WorkerMoves(w) /\ IInv'
<1>1. TypeOK /\ MadeInv /\ FreshInv /\ OwnInv BY DEF IInv
<1>2. PICK b : b = [call |-> Head(taskQ[w]), at |-> "compute", seen |-> 0] OBVIOUS
<1>3. /\ busy' = [busy EXCEPT ![w] = b] /\ Takes(w, "recommend") /\ ver[w] = db
      /\ UNCHANGED << files, db, upd, pc, hash, call, getters, lost, ver, content, cache,
                      avail, resQ, slow >>
  BY <1>2 DEF SkipLoad, dataVars, clientVars, callVars
<1>4. b.call \in Calls /\ taskQ' \in [Workers -> Seq(Calls)] BY <1>1, <1>2, <1>3, TakesIs
<1>5. /\ b \in [call : Calls \cup {None}, seen : 0..MaxVersion, at : {"idle", "load", "compute"}]
      /\ b.call = Head(taskQ[w]) /\ b.at = "compute"
  BY <1>2, <1>4, Bounds
<1>6. WorkerMoves(w) /\ MadeInv' /\ OwnInv'
  <2>1. WorkerMoves(w)
    <3>1. b.at # "idle" BY <1>5
    <3>2. QED BY <1>1, <1>3, <1>5, <3>1, TakeMoves
  <2>2. QED BY <1>1, <2>1, WorkerKeeps
<1>7. /\ busy' \in [Workers -> [call : Calls \cup {None}, seen : 0..MaxVersion,
                                at : {"idle", "load", "compute"}]]
      /\ busy'[w] = b /\ \A x \in Workers \ {w} : busy'[x] = busy[x]
  BY <1>1, <1>3, <1>5 DEF TypeOK
<1>8. TypeOK' BY <1>1, <1>3, <1>4, <1>7 DEF TypeOK
<1>9. FreshInv'
  <2>1. call[b.call].floor <= db BY <1>1, <1>4 DEF FreshInv
  <2>2. ASSUME NEW x \in Workers
        PROVE  /\ busy'[x].at = "load" => /\ busy'[x].seen <= db
                                          /\ call[busy'[x].call].floor <= busy'[x].seen
                                          /\ \A v \in content[x] : v >= busy'[x].seen
               /\ busy'[x].at = "compute" => call[busy'[x].call].floor <= ver[x]
    <3>1. CASE x = w BY <1>3, <1>5, <1>7, <2>1, <3>1
    <3>2. CASE x # w
      <4>1. busy'[x] = busy[x] BY <1>7, <3>2
      <4>2. QED BY <1>1, <4>1 DEF FreshInv
    <3>3. QED BY <3>1, <3>2
  <2>3. QED BY <1>1, <1>3, <2>2 DEF FreshInv
<1>10. QED BY <1>6, <1>8, <1>9 DEF IInv

LEMMA EndLoadKeeps ==
    ASSUME IInv, NEW w \in Workers, EndLoad(w)
    PROVE  WorkerMoves(w) /\ IInv'
<1>1. TypeOK /\ MadeInv /\ FreshInv /\ OwnInv BY DEF IInv
<1>2. PICK b, d : b = busy[w] /\ d = [b EXCEPT !.at = "compute"] OBVIOUS
<1>3. /\ b.at = "load" /\ busy' = [busy EXCEPT ![w] = d]
      /\ content' = [content EXCEPT ![w] = @ \cup files] /\ ver' = [ver EXCEPT ![w] = b.seen]
      /\ UNCHANGED << files, db, upd, pc, hash, call, getters, lost, cache, avail, taskQ, resQ, slow >>
  BY <1>2 DEF EndLoad, dataVars, clientVars, callVars
<1>4. /\ b \in [call : Calls \cup {None}, seen : 0..MaxVersion, at : {"idle", "load", "compute"}]
      /\ d \in [call : Calls \cup {None}, seen : 0..MaxVersion, at : {"idle", "load", "compute"}]
      /\ d.call = b.call /\ d.at = "compute"
  <2>1. b \in [call : Calls \cup {None}, seen : 0..MaxVersion, at : {"idle", "load", "compute"}]
    BY <1>1, <1>2 DEF TypeOK
  <2>2. QED BY <1>2, <2>1
<1>5. /\ busy' \in [Workers -> [call : Calls \cup {None}, seen : 0..MaxVersion,
                                at : {"idle", "load", "compute"}]]
      /\ busy'[w] = d /\ \A x \in Workers \ {w} : busy'[x] = busy[x]
  BY <1>1, <1>3, <1>4 DEF TypeOK
<1>6. /\ content' \in [Workers -> SUBSET (0..MaxVersion)]
      /\ content'[w] = content[w] \cup files /\ \A x \in Workers \ {w} : content'[x] = content[x]
      /\ ver' \in [Workers -> 0..MaxVersion]
      /\ ver'[w] = b.seen /\ \A x \in Workers \ {w} : ver'[x] = ver[x]
  BY <1>1, <1>3, <1>4 DEF TypeOK
<1>7. TypeOK' BY <1>1, <1>3, <1>5, <1>6 DEF TypeOK
<1>8. WorkerMoves(w)
  <2>1. Load(w) = Len(resQ[w]) + Len(taskQ[w]) + (IF busy[w].at # "idle" THEN 1 ELSE 0)
    BY <1>1, LoadIs
  <2>2. Len(resQ'[w]) + Len(taskQ'[w]) + (IF busy'[w].at # "idle" THEN 1 ELSE 0) = Load(w)
    BY <1>2, <1>3, <1>4, <1>5, <2>1
  <2>3. Working(w) /\ busy'[w].call = busy[w].call BY <1>2, <1>3, <1>4, <1>5 DEF Working
  <2>4. taskQ \in [Workers -> Seq(Calls)] /\ resQ \in [Workers -> Seq(Results)]
    BY <1>1 DEF TypeOK
  <2>5. QED BY <1>3, <1>5, <2>2, <2>3, <2>4 DEF WorkerMoves
<1>9. MadeInv' /\ OwnInv' BY <1>1, <1>8, WorkerKeeps
<1>10. FreshInv'
  <2>1. /\ b.seen <= db /\ call[b.call].floor <= b.seen /\ \A v \in content[w] : v >= b.seen
        /\ \A f \in files : f >= db
    BY <1>1, <1>2, <1>3 DEF FreshInv
  <2>2. db \in Nat /\ b.seen \in Nat /\ \A f \in files : f \in Nat
    BY <1>1, <1>4, Bounds DEF TypeOK
  <2>3. \A f \in files : f >= b.seen BY <2>1, <2>2
  <2>4. ASSUME NEW x \in Workers
        PROVE  /\ ver'[x] <= db
               /\ \A v \in content'[x] : v >= ver'[x]
               /\ busy'[x].at = "load" => /\ busy'[x].seen <= db
                                          /\ call[busy'[x].call].floor <= busy'[x].seen
                                          /\ \A v \in content'[x] : v >= busy'[x].seen
               /\ busy'[x].at = "compute" => call[busy'[x].call].floor <= ver'[x]
    <3>1. CASE x = w BY <1>4, <1>5, <1>6, <2>1, <2>3, <3>1
    <3>2. CASE x # w
      <4>1. busy'[x] = busy[x] /\ content'[x] = content[x] /\ ver'[x] = ver[x]
        BY <1>5, <1>6, <3>2
      <4>2. QED BY <1>1, <4>1 DEF FreshInv
    <3>3. QED BY <3>1, <3>2
  <2>5. QED BY <1>1, <1>3, <2>4 DEF FreshInv
<1>11. QED BY <1>7, <1>8, <1>9, <1>10 DEF IInv

LEMMA LoadFailsKeeps ==
    ASSUME IInv, NEW w \in Workers, LoadFails(w)
    PROVE  WorkerMoves(w) /\ IInv'
<1>1. TypeOK /\ MadeInv /\ FreshInv /\ OwnInv BY DEF IInv
<1>2. PICK k : k = busy[w].call OBVIOUS
<1>3. /\ busy[w].at = "load" /\ Answer(w, k, FALSE) /\ busy' = [busy EXCEPT ![w] = Idle]
      /\ UNCHANGED << files, db, upd, pc, hash, call, getters, lost, content, cache, avail, taskQ, slow >>
  BY <1>2 DEF LoadFails, dataVars, clientVars, callVars
<1>4. k \in Calls /\ Working(w) BY <1>1, <1>2, <1>3 DEF MadeInv, Working
<1>5. /\ resQ' \in [Workers -> Seq(Results)]
      /\ \A x \in Workers \ {w} : resQ'[x] = resQ[x]
      /\ Len(resQ'[w]) = Len(resQ[w]) + 1
      /\ \A a \in Els(resQ'[w]) : a \in Els(resQ[w]) \/ a.call = k
  BY <1>1, <1>3, <1>4, AnswerIs
<1>6. /\ busy' \in [Workers -> [call : Calls \cup {None}, seen : 0..MaxVersion,
                                at : {"idle", "load", "compute"}]]
      /\ busy'[w].at = "idle" /\ \A x \in Workers \ {w} : busy'[x] = busy[x]
  BY <1>1, <1>3, Bounds DEF TypeOK, Idle
<1>7. /\ ver' \in [Workers -> 0..MaxVersion]
      /\ \A x \in Workers : ver'[x] = ver[x] \/ ver'[x] = 0
      /\ \A x \in Workers \ {w} : ver'[x] = ver[x]
  <2>1. ver' = [ver EXCEPT ![w] = 0] \/ ver' = ver BY DEF LoadFails
  <2>2. ver \in [Workers -> 0..MaxVersion] /\ 0 \in 0..MaxVersion BY <1>1, Bounds DEF TypeOK
  <2>3. QED BY <2>1, <2>2
<1>8. TypeOK' BY <1>1, <1>3, <1>5, <1>6, <1>7 DEF TypeOK
<1>9. WorkerMoves(w)
  <2>1. PICK m, n : m = Len(resQ[w]) /\ n = Len(taskQ[w]) OBVIOUS
  <2>2. m \in Nat /\ n \in Nat /\ Load(w) = m + n + 1 BY <1>1, <1>3, <2>1, LoadIs
  <2>3. (m + 1) + n + 0 = m + n + 1 BY <2>2
  <2>4. Len(resQ'[w]) + Len(taskQ'[w]) + (IF busy'[w].at # "idle" THEN 1 ELSE 0) = Load(w)
    BY <1>3, <1>5, <1>6, <2>1, <2>2, <2>3
  <2>5. taskQ \in [Workers -> Seq(Calls)] BY <1>1 DEF TypeOK
  <2>6. QED BY <1>2, <1>3, <1>4, <1>5, <1>6, <2>4, <2>5 DEF WorkerMoves
<1>10. MadeInv' /\ OwnInv' BY <1>1, <1>9, WorkerKeeps
<1>11. FreshInv'
  <2>1. /\ db \in Nat
        /\ \A x \in Workers : (\A v \in content[x] : v \in Nat) /\ ver[x] \in Nat
    BY <1>1, Bounds DEF TypeOK
  <2>2. ASSUME NEW x \in Workers
        PROVE  /\ ver'[x] <= db
               /\ \A v \in content[x] : v >= ver'[x]
    <3>1. ver[x] <= db /\ \A v \in content[x] : v >= ver[x] BY <1>1 DEF FreshInv
    <3>2. QED BY <1>7, <2>1, <3>1
  <2>3. ASSUME NEW x \in Workers
        PROVE  /\ busy'[x].at = "load" => /\ busy'[x].seen <= db
                                          /\ call[busy'[x].call].floor <= busy'[x].seen
                                          /\ \A v \in content[x] : v >= busy'[x].seen
               /\ busy'[x].at = "compute" => call[busy'[x].call].floor <= ver'[x]
    <3>1. CASE x = w BY <1>6, <3>1
    <3>2. CASE x # w
      <4>1. busy'[x] = busy[x] BY <1>6, <3>2
      <4>2. ver'[x] = ver[x] BY <1>7, <3>2
      <4>3. QED BY <1>1, <4>1, <4>2 DEF FreshInv
    <3>3. QED BY <3>1, <3>2
  <2>4. QED BY <1>1, <1>3, <2>2, <2>3 DEF FreshInv
<1>12. QED BY <1>8, <1>9, <1>10, <1>11 DEF IInv

LEMMA FinishKeeps ==
    ASSUME IInv, NEW w \in Workers, Finish(w)
    PROVE  WorkerMoves(w) /\ IInv'
<1>1. TypeOK /\ MadeInv /\ FreshInv /\ OwnInv BY DEF IInv
<1>2. PICK k, ok : /\ k = busy[w].call
                   /\ ok = (k[2] = "refresh" \/ (ver[w] # 0 /\ Contains(cache[w], hash[k[1]])))
  OBVIOUS
<1>3. /\ busy[w].at = "compute" /\ Answer(w, k, ok) /\ busy' = [busy EXCEPT ![w] = Idle]
      /\ UNCHANGED << files, db, upd, pc, hash, call, getters, lost, ver, content, cache,
                      avail, taskQ, slow >>
  BY <1>2 DEF Finish, dataVars, clientVars, callVars
<1>4. ok \in BOOLEAN BY <1>2
<1>5. k \in Calls /\ Working(w) BY <1>1, <1>2, <1>3 DEF MadeInv, Working
<1>6. /\ resQ' \in [Workers -> Seq(Results)]
      /\ \A x \in Workers \ {w} : resQ'[x] = resQ[x]
      /\ Len(resQ'[w]) = Len(resQ[w]) + 1
      /\ \A a \in Els(resQ'[w]) : a \in Els(resQ[w]) \/ a.call = k
  BY <1>1, <1>3, <1>4, <1>5, AnswerIs
<1>7. /\ busy' \in [Workers -> [call : Calls \cup {None}, seen : 0..MaxVersion,
                                at : {"idle", "load", "compute"}]]
      /\ busy'[w].at = "idle" /\ \A x \in Workers \ {w} : busy'[x] = busy[x]
  BY <1>1, <1>3, Bounds DEF TypeOK, Idle
<1>8. TypeOK' BY <1>1, <1>3, <1>6, <1>7 DEF TypeOK
<1>9. WorkerMoves(w)
  <2>1. PICK m, n : m = Len(resQ[w]) /\ n = Len(taskQ[w]) OBVIOUS
  <2>2. m \in Nat /\ n \in Nat /\ Load(w) = m + n + 1 BY <1>1, <1>3, <2>1, LoadIs
  <2>3. (m + 1) + n + 0 = m + n + 1 BY <2>2
  <2>4. Len(resQ'[w]) + Len(taskQ'[w]) + (IF busy'[w].at # "idle" THEN 1 ELSE 0) = Load(w)
    BY <1>3, <1>6, <1>7, <2>1, <2>2, <2>3
  <2>5. taskQ \in [Workers -> Seq(Calls)] BY <1>1 DEF TypeOK
  <2>6. QED BY <1>2, <1>3, <1>5, <1>6, <1>7, <2>4, <2>5 DEF WorkerMoves
<1>10. MadeInv' /\ OwnInv' BY <1>1, <1>9, WorkerKeeps
<1>11. FreshInv'
  <2>1. ASSUME NEW x \in Workers
        PROVE  /\ busy'[x].at = "load" => /\ busy'[x].seen <= db
                                          /\ call[busy'[x].call].floor <= busy'[x].seen
                                          /\ \A v \in content[x] : v >= busy'[x].seen
               /\ busy'[x].at = "compute" => call[busy'[x].call].floor <= ver[x]
    <3>1. CASE x = w BY <1>7, <3>1
    <3>2. CASE x # w
      <4>1. busy'[x] = busy[x] BY <1>7, <3>2
      <4>2. QED BY <1>1, <4>1 DEF FreshInv
    <3>3. QED BY <3>1, <3>2
  <2>2. QED BY <1>1, <1>3, <2>1 DEF FreshInv
<1>12. QED BY <1>8, <1>9, <1>10, <1>11 DEF IInv

-----------------------------------------------------------------------------
(* The theorems. *)

LEMMA InitHolds == Init => IInv
<1> SUFFICES ASSUME Init PROVE IInv OBVIOUS
<1>1. Els(<< >>) = {} /\ Once(<< >>) /\ \A S : << >> \in Seq(S) /\ Len(<< >>) = 0
  BY EmptySeq DEF Els, Once
<1>2. /\ \A w \in Workers : ~ Working(w) /\ Els(taskQ[w]) = {} /\ Els(resQ[w]) = {} /\ Load(w) = 0
      /\ \A k \in Calls : call[k] = NoCall
      /\ getters = << >>
  BY <1>1 DEF Init, Working, Idle, Load
<1>3. TypeOK
  <2>1. NoCall \in CallRec BY Bounds DEF NoCall, CallRec
  <2>2. call \in [Calls -> CallRec] BY <2>1 DEF Init
  <2>3. /\ db \in 0..MaxVersion /\ files \in SUBSET (0..MaxVersion)
        /\ upd \in [pc : {"idle", "upload", "write", "refresh"}, round : 0..MaxRounds,
                    ver : 0..MaxVersion, data : 0..MaxVersion]
        /\ slow \in 0..MaxSlow
    BY DeckAssumption, Bounds DEF Init
  <2>4. /\ taskQ \in [Workers -> Seq(Calls)] /\ resQ \in [Workers -> Seq(Results)]
        /\ getters \in Seq(Calls)
        /\ cache \in [Workers -> Seq({Data[c] : c \in Clients})]
        /\ \A w \in Workers : Len(cache[w]) <= CacheNum
    BY <1>1, Bounds DEF Init
  <2>5. /\ busy \in [Workers -> [call : Calls \cup {None}, seen : 0..MaxVersion,
                                 at : {"idle", "load", "compute"}]]
        /\ ver \in [Workers -> 0..MaxVersion]
        /\ content \in [Workers -> SUBSET (0..MaxVersion)]
    BY Bounds DEF Init, Idle
  <2>6. /\ pc \in [Clients -> {"idle", "cache", "acquire", "recommend", "done", "failed"}]
        /\ hash \in [Clients -> {Data[c] : c \in Clients} \cup {None}]
        /\ avail \subseteq Workers /\ lost \subseteq Workers
    BY DEF Init
  <2>7. QED BY <2>2, <2>3, <2>4, <2>5, <2>6 DEF TypeOK, CallRec
<1>4. MadeInv
  <2>1. upd.pc = "idle" BY DEF Init
  <2>2. Once(getters) /\ Els(getters) = {} BY <1>1, <1>2
  <2>3. \A k \in Calls : call[k].st = "new" BY <1>2 DEF NoCall
  <2>4. QED BY <1>2, <2>1, <2>2, <2>3 DEF MadeInv
<1>5. FreshInv
  <2>1. db \in Nat BY <1>3, Bounds DEF TypeOK
  <2>2. /\ files = {db} /\ upd.pc = "idle"
        /\ \A w \in Workers : ver[w] = 0 /\ content[w] = {} /\ busy[w].at = "idle"
    BY DEF Init, Idle
  <2>3. \A k \in Calls : call[k].floor = 0 BY <1>2 DEF NoCall
  <2>4. QED BY <2>1, <2>2, <2>3 DEF FreshInv
<1>6. OwnInv
  <2>1. Waiting = {} /\ \A w : WaitingAt(w) = {} BY <1>2 DEF Waiting, WaitingAt, NoCall
  <2>2. \A w \in Workers : IsFiniteSet(WaitingAt(w)) /\ Load(w) = Cardinality(WaitingAt(w))
    BY <1>2, <2>1, FS_EmptySet
  <2>3. \A k \in Calls : call[k].st = "new" BY <1>2 DEF NoCall
  <2>4. Els(getters) = {} BY <1>1, <1>2
  <2>5. QED BY <2>1, <2>2, <2>3, <2>4 DEF OwnInv, OwnUnlessShared, Answered
<1>7. QED BY <1>3, <1>4, <1>5, <1>6 DEF IInv

LEMMA NextKeeps == IInv /\ [Next]_vars => IInv'
<1> SUFFICES ASSUME IInv, [Next]_vars PROVE IInv' OBVIOUS
<1>1. ASSUME NEW c \in Clients, CacheUserdata(c) PROVE IInv' BY <1>1, CacheKeeps
<1>2. ASSUME NEW c \in Clients, CacheEnds(c) PROVE IInv' BY <1>2, CacheEndsKeeps
<1>3. ASSUME NEW c \in Clients, NEW w \in Workers, Recommend(c, w) PROVE IInv'
  BY <1>3, RecommendKeeps
<1>4. ASSUME NEW c \in Clients, NEW w \in Workers, RecommendEnds(c, w) PROVE IInv'
  BY <1>4, RecommendEndsKeeps
<1>5. ASSUME NEW k \in Calls, Get(k) PROVE IInv' BY <1>5, GetKeeps
<1>6. ASSUME NEW k \in Calls, Timeout(k) PROVE IInv' BY <1>6, TimeoutKeeps
<1>7. CASE Probe BY <1>7, ProbeKeeps
<1>8. CASE BeginWrite BY <1>8, BeginWriteKeeps
<1>9. CASE WriteFails BY <1>9, WriteFailsKeeps
<1>10. CASE EndWrite BY <1>10, EndWriteKeeps
<1>11. CASE RefreshEnds BY <1>11, RefreshEndsKeeps
<1>12. ASSUME NEW w \in Workers, WorkerStep(w) PROVE IInv'
  BY <1>12, CacheTaskKeeps, BeginLoadKeeps, SkipLoadKeeps, EndLoadKeeps, LoadFailsKeeps, FinishKeeps
  DEF WorkerStep
<1>13. CASE UNCHANGED vars
  <2>1. /\ UNCHANGED << files, db, upd, pc, hash, call, getters, lost, busy, ver, content, cache >>
        /\ UNCHANGED << avail, taskQ, resQ, slow >>
    BY <1>13 DEF vars, dataVars, clientVars, callVars, workerVars
  <2>2. TypeOK /\ MadeInv /\ FreshInv /\ OwnInv BY DEF IInv
  <2>3. TypeOK' BY <2>1, <2>2 DEF TypeOK
  <2>4. MadeInv'
    <3>1. \A k \in Calls : Unmade(k)' => Unmade(k) /\ call'[k].st = call[k].st
      BY <2>1 DEF Unmade
    <3>2. QED BY <2>1, <2>2, <3>1, MadeStays
  <2>5. FreshInv' BY <2>1, <2>2, FreshKeeps
  <2>6. OwnInv' BY <2>1, <2>2, OwnKeeps
  <2>7. QED BY <2>3, <2>4, <2>5, <2>6 DEF IInv
<1>14. ASSUME NEW c \in Clients, ClientStep(c) PROVE IInv'
  BY <1>2, <1>3, <1>4, <1>14 DEF ClientStep
<1>15. CASE Progress BY <1>5, <1>6, <1>8, <1>10, <1>11, <1>12, <1>14, <1>15 DEF Progress, UploadStep
<1>16. QED BY <1>1, <1>6, <1>7, <1>9, <1>13, <1>15 DEF Next

\* The inductive invariant: each call is made once (MadeInv), the data written and
\* loaded is as new as the version that stands for it (FreshInv), and a worker owes as
\* many answers as calls wait for it (OwnInv).
THEOREM Invariant == Spec => []IInv
BY InitHolds, NextKeeps, PTL DEF Spec

\* Calls, queues, workers and the game data keep their types; no worker caches more
\* user data than USERDATA_CACHE_NUM (worker.py:116-127).
THEOREM DeckTypes == Spec => []TypeOK
<1>1. IInv => TypeOK BY DEF IInv
<1>2. QED BY <1>1, Invariant, PTL

\* No recommendation is computed from data older than the database named when it was
\* asked for (serve.py:24-68, worker.py:76-114).
THEOREM DeckFresh == Spec => []ComputesFresh
<1>1. IInv => ComputesFresh
  <2> SUFFICES ASSUME IInv, NEW w \in Workers, busy[w].at = "compute", NEW v \in content[w]
               PROVE  v >= call[busy[w].call].floor
    BY DEF ComputesFresh, Computes
  <2>1. TypeOK /\ MadeInv /\ FreshInv BY DEF IInv
  <2>2. v >= ver[w] /\ call[busy[w].call].floor <= ver[w] BY <2>1 DEF FreshInv
  <2>3. busy[w].call \in Calls BY <2>1 DEF MadeInv, Working
  <2>4. v \in Nat /\ ver[w] \in Nat /\ call[busy[w].call].floor \in Nat
    BY <2>1, <2>3, Bounds DEF TypeOK
  <2>5. QED BY <2>2, <2>4
<1>2. QED BY <1>1, Invariant, PTL

\* A call that waited alone for its worker got the answer to itself
\* (worker.py:286-298).
THEOREM DeckOwn == Spec => []OwnUnlessShared
<1>1. IInv => OwnUnlessShared BY DEF IInv, OwnInv
<1>2. QED BY <1>1, Invariant, PTL

-----------------------------------------------------------------------------
(* The user data that a recommendation is to use. *)

\* Worker w has cached b, or is full.
Has(w, b) == b \in Els(cache[w]) \/ Len(cache[w]) = CacheNum

\* The task k is to cache b.
Puts(k, b) == k[2] = "cache" /\ Data[k[1]] = b

\* Once a client has sent its data, every worker has it or is to cache it, unless its
\* queues are replaced.
SentInv ==
    \A d \in Clients, w \in Workers \ lost :
        pc[d] # "idle" => Has(w, Data[d]) \/ << d, "cache", w >> \in Els(taskQ[w])

\* The data of a recommendation that is in a queue is there, or comes before it.
QueueInv ==
    \A w \in Workers : \A i \in 1..Len(taskQ[w]) :
        taskQ[w][i][2] = "recommend" =>
            \/ Has(w, hash[taskQ[w][i][1]])
            \/ \E j \in 1..Len(taskQ[w]) : j < i /\ Puts(taskQ[w][j], hash[taskQ[w][i][1]])

HandInv ==
    \A w \in Workers :
        Working(w) /\ busy[w].call[2] = "recommend" => Has(w, hash[busy[w].call[1]])

\* Answers are to what was asked; so that the data named by one was sent.
AnswerInv ==
    /\ \A w \in Workers : \A a \in Els(resQ[w]) : a.call[2] = "cache" => pc[a.call[1]] # "idle"
    /\ \A k \in Calls : Answered(k) /\ call[k].got.call[2] = "cache"
                            => pc[call[k].got.call[1]] # "idle"
HashInv ==
    \A c \in Clients :
        pc[c] = "acquire" => \E d \in Clients : pc[d] # "idle" /\ Data[d] = hash[c]

CacheInv == SentInv /\ QueueInv /\ HandInv /\ AnswerInv /\ HashInv

\* A task that is in a queue or in hand was made.
LEMMA TasksMade ==
    ASSUME IInv, NEW w \in Workers
    PROVE  /\ taskQ[w] \in Seq(Calls) /\ Len(taskQ[w]) \in Nat /\ Els(taskQ[w]) \subseteq Calls
           /\ \A k \in Els(taskQ[w]) : ~ Unmade(k)
           /\ Working(w) => busy[w].call \in Calls /\ ~ Unmade(busy[w].call)
<1>1. TypeOK /\ MadeInv BY DEF IInv
<1>2. taskQ[w] \in Seq(Calls) BY <1>1 DEF TypeOK
<1>3. Els(taskQ[w]) \subseteq Calls /\ Len(taskQ[w]) \in Nat BY <1>2, ElsIn
<1>4. QED BY <1>1, <1>2, <1>3 DEF MadeInv

\* Nothing happens to the tasks.
LEMMA CacheStays ==
    ASSUME IInv, CacheInv, UNCHANGED << taskQ, cache >>, lost \subseteq lost',
           \A w \in Workers : busy'[w].at # "idle" => Working(w) /\ busy'[w].call = busy[w].call,
           \A c \in Clients : /\ pc'[c] = "idle" <=> pc[c] = "idle"
                              /\ pc[c] # "cache" => hash'[c] = hash[c]
                              /\ pc'[c] = "acquire" => \/ pc[c] = "acquire"
                                                       \/ \E d \in Clients : pc[d] # "idle" /\ Data[d] = hash'[c],
           \A w \in Workers : \A a \in Els(resQ'[w]) :
              a \in Els(resQ[w]) \/ (a.call \in Calls /\ ~ Unmade(a.call)),
           \A k \in Calls : call'[k].st = "answered" =>
              \/ call[k].st = "answered" /\ call'[k].got = call[k].got
              \/ \E w \in Workers : call'[k].got \in Els(resQ[w]) /\ call'[k].got.call \in Calls,
           \A k \in Calls : call[k].st = "answered" => call[k].got.call \in Calls,
           \A w \in Workers : \A a \in Els(resQ[w]) : a.call \in Calls
    PROVE  CacheInv'
<1>1. \A w, b : Has(w, b)' <=> Has(w, b) BY DEF Has
<1>2. SentInv' BY <1>1 DEF CacheInv, SentInv
<1>3. \A k \in Calls : k[2] = "recommend" /\ ~ Unmade(k) => hash'[k[1]] = hash[k[1]]
  BY CallParts DEF Unmade
<1>4. QueueInv'
  <2>1. ASSUME NEW w \in Workers, NEW i \in 1..Len(taskQ[w]), taskQ[w][i][2] = "recommend"
        PROVE  hash'[taskQ[w][i][1]] = hash[taskQ[w][i][1]]
    <3>1. taskQ[w][i] \in Els(taskQ[w]) BY DEF Els
    <3>2. QED BY <1>3, <2>1, <3>1, TasksMade
  <2>2. QED BY <1>1, <2>1 DEF CacheInv, QueueInv, Puts
<1>5. HandInv'
  <2>1. ASSUME NEW w \in Workers, busy'[w].at # "idle", busy'[w].call[2] = "recommend"
        PROVE  Has(w, hash'[busy'[w].call[1]])
    <3>1. Working(w) /\ busy'[w].call = busy[w].call BY <2>1
    <3>2. hash'[busy[w].call[1]] = hash[busy[w].call[1]] BY <1>3, <2>1, <3>1, TasksMade
    <3>3. QED BY <2>1, <3>1, <3>2 DEF CacheInv, HandInv
  <2>2. QED BY <1>1, <2>1 DEF HandInv, Working
<1>6. AnswerInv'
  <2>1. ASSUME NEW w \in Workers, NEW a \in Els(resQ'[w]), a.call[2] = "cache"
        PROVE  pc'[a.call[1]] # "idle"
    <3>1. a.call \in Calls /\ a.call[1] \in Clients BY <2>1, CallParts
    <3>2. pc[a.call[1]] # "idle" BY <2>1, <3>1 DEF CacheInv, AnswerInv, Unmade
    <3>3. QED BY <3>1, <3>2
  <2>2. ASSUME NEW k \in Calls, call'[k].st = "answered", call'[k].got.call[2] = "cache"
        PROVE  pc'[call'[k].got.call[1]] # "idle"
    <3>1. PICK a : a = call'[k].got OBVIOUS
    <3>2. a.call \in Calls /\ a.call[1] \in Clients BY <2>2, <3>1, CallParts
    <3>3. pc[a.call[1]] # "idle" BY <2>2, <3>1 DEF CacheInv, AnswerInv, Answered
    <3>4. QED BY <3>1, <3>2, <3>3
  <2>3. QED BY <2>1, <2>2 DEF AnswerInv, Answered
<1>7. HashInv' BY DEF CacheInv, HashInv
<1>8. QED BY <1>2, <1>4, <1>5, <1>6, <1>7 DEF CacheInv

-----------------------------------------------------------------------------
(* Calls are made. *)

\* What is put into the queues comes after what is there.
LEMMA SubmitAfter ==
    ASSUME TypeOK, NEW S, Batch(S), Submit(S), NEW w \in Workers
    PROVE  /\ Len(taskQ[w]) \in Nat /\ Len(taskQ'[w]) \in Nat /\ Len(taskQ[w]) <= Len(taskQ'[w])
           /\ \A i \in 1..Len(taskQ[w]) : taskQ'[w][i] = taskQ[w][i]
           /\ \A i \in 1..Len(taskQ'[w]) : i \in 1..Len(taskQ[w]) \/ taskQ'[w][i] \in Into(S, w)
           /\ Els(taskQ[w]) \subseteq Els(taskQ'[w]) /\ Into(S, w) \subseteq Els(taskQ'[w])
<1>1. PICK s, t, r : s = taskQ[w] /\ t = SetToSeq(Into(S, w)) /\ r = taskQ'[w] OBVIOUS
<1>2. r = s \o t
  <2>1. taskQ' = [x \in Workers |-> taskQ[x] \o SetToSeq({k \in S : At(k) = x /\ x \notin lost})]
    BY DEF Submit
  <2>2. QED BY <1>1, <2>1 DEF Into
<1>3. Into(S, w) \subseteq S /\ S \subseteq Calls /\ IsFiniteSet(S) BY DEF Into, Batch
<1>4. IsFiniteSet(Into(S, w)) BY <1>3, FS_Subset
<1>5. /\ s \in Seq(Calls) /\ t \in Seq(Into(S, w)) /\ Els(t) \subseteq Into(S, w)
      /\ Len(t) = Cardinality(Into(S, w))
  BY <1>1, <1>4, SetToSeqIs DEF TypeOK
<1>6. t \in Seq(Calls) BY <1>3, <1>5, SeqMonotonic
<1>7. PICK m, n : m = Len(s) /\ n = Len(t) OBVIOUS
<1>8. /\ m \in Nat /\ n \in Nat /\ Len(r) = m + n
      /\ \A i \in 1..(m + n) : r[i] = IF i <= m THEN s[i] ELSE t[i - m]
  <2>1. /\ Len(s \o t) = Len(s) + Len(t)
        /\ \A i \in 1..(Len(s) + Len(t)) : (s \o t)[i] = IF i <= Len(s) THEN s[i] ELSE t[i - Len(s)]
    BY <1>5, <1>6, ConcatProperties
  <2>2. Len(s) \in Nat /\ Len(t) \in Nat BY <1>5, <1>6, LenProperties
  <2>3. QED BY <1>2, <1>7, <2>1, <2>2
<1>9. \A i \in 1..m : r[i] = s[i] /\ i \in 1..(m + n) BY <1>8
<1>10. ASSUME NEW i \in 1..(m + n), i \notin 1..m PROVE r[i] \in Into(S, w)
  <2>1. i - m \in 1..n /\ r[i] = t[i - m] BY <1>8, <1>10
  <2>2. t[i - m] \in Els(t) BY <1>7, <2>1 DEF Els
  <2>3. QED BY <1>5, <2>1, <2>2
<1>11. Els(s) \subseteq Els(r) BY <1>7, <1>8, <1>9 DEF Els
<1>12. ASSUME NEW k \in Into(S, w) PROVE k \in Els(r)
  <2>1. \A j \in Into(S, w) : j = k BY <1>12 DEF Into, Batch
  <2>2. Cardinality(Into(S, w)) # 0 BY <1>4, <1>12, FS_EmptySet
  <2>3. 1 \in 1..n BY <1>5, <1>7, <1>8, <2>2
  <2>4. t[1] \in Els(t) BY <1>7, <2>3 DEF Els
  <2>5. t[1] = k BY <1>5, <2>1, <2>4
  <2>6. m + 1 \in 1..(m + n) /\ ~ (m + 1 <= m) /\ (m + 1) - m = 1 BY <1>8, <2>3
  <2>7. r[m + 1] = k BY <1>8, <2>5, <2>6
  <2>8. QED BY <1>8, <2>6, <2>7 DEF Els
<1>13. m + n \in Nat /\ m <= m + n BY <1>8
<1>14. /\ Len(taskQ[w]) = m /\ Len(taskQ'[w]) = m + n
       /\ \A i \in 1..m : taskQ'[w][i] = taskQ[w][i]
       /\ \A i \in 1..(m + n) : i \in 1..m \/ taskQ'[w][i] \in Into(S, w)
  BY <1>1, <1>7, <1>8, <1>9, <1>10
<1>15. Els(taskQ[w]) \subseteq Els(taskQ'[w]) /\ Into(S, w) \subseteq Els(taskQ'[w])
  BY <1>1, <1>11, <1>12
<1>16. QED BY <1>8, <1>13, <1>14, <1>15

\* The calls S are made; a recommendation, to use data that was sent.
LEMMA CacheGrows ==
    ASSUME IInv, CacheInv, NEW S, Batch(S), Submit(S), \A k \in S : Unmade(k),
           UNCHANGED << busy, cache, resQ, hash >>,
           \A c \in Clients : /\ pc[c] # "idle" => pc'[c] # "idle"
                              /\ pc[c] = "idle" /\ pc'[c] # "idle" => Of(c, "cache") \subseteq S
                              /\ pc'[c] = "acquire" => pc[c] = "acquire",
           \A k \in S : k[2] = "recommend" => pc[k[1]] = "acquire"
    PROVE  CacheInv'
<1>1. \A w, b : Has(w, b)' <=> Has(w, b) BY DEF Has
<1>2. TypeOK /\ MadeInv /\ OwnInv BY DEF IInv
<1>3. lost' = lost BY DEF Submit
<1>4. SentInv'
  <2>1. ASSUME NEW d \in Clients, NEW w \in Workers, w \notin lost, pc'[d] # "idle", ~ Has(w, Data[d])
        PROVE  << d, "cache", w >> \in Els(taskQ'[w])
    <3>1. /\ Els(taskQ[w]) \subseteq Els(taskQ'[w]) /\ Into(S, w) \subseteq Els(taskQ'[w])
      BY <1>2, SubmitAfter
    <3>2. CASE pc[d] # "idle" BY <2>1, <3>1, <3>2 DEF CacheInv, SentInv
    <3>3. CASE pc[d] = "idle"
      <4>1. << d, "cache", w >> \in S BY <2>1, <3>3 DEF Of
      <4>2. << d, "cache", w >> \in Into(S, w) BY <2>1, <4>1 DEF Into, At
      <4>3. QED BY <3>1, <4>2
    <3>4. QED BY <3>2, <3>3
  <2>2. QED BY <1>1, <1>3, <2>1 DEF SentInv
<1>5. QueueInv'
  <2>1. ASSUME NEW w \in Workers, NEW i \in 1..Len(taskQ'[w]), NEW k, k = taskQ'[w][i],
               k[2] = "recommend", ~ Has(w, hash[k[1]])
        PROVE  \E j \in 1..Len(taskQ'[w]) : j < i /\ Puts(taskQ'[w][j], hash[k[1]])
    <3>1. PICK m, n : m = Len(taskQ[w]) /\ n = Len(taskQ'[w]) OBVIOUS
    <3>2. /\ m \in Nat /\ n \in Nat /\ m <= n
          /\ \A j \in 1..m : taskQ'[w][j] = taskQ[w][j]
          /\ i \in 1..m \/ k \in Into(S, w)
      BY <1>2, <2>1, <3>1, SubmitAfter
    <3>3. CASE i \in 1..m
      <4>1. k = taskQ[w][i] BY <2>1, <3>2, <3>3
      <4>2. PICK j \in 1..m : j < i /\ Puts(taskQ[w][j], hash[k[1]])
        BY <2>1, <3>1, <3>3, <4>1 DEF CacheInv, QueueInv
      <4>3. j \in 1..n /\ taskQ'[w][j] = taskQ[w][j] BY <3>2
      <4>4. QED BY <3>1, <4>2, <4>3
    <3>4. CASE i \notin 1..m
      <4>1. k \in S /\ w \notin lost /\ k \in Calls BY <3>2, <3>4 DEF Into, Batch
      <4>2. pc[k[1]] = "acquire" /\ k[1] \in Clients BY <2>1, <4>1, CallParts
      <4>3. PICK d \in Clients : pc[d] # "idle" /\ Data[d] = hash[k[1]]
        BY <4>2 DEF CacheInv, HashInv
      <4>4. << d, "cache", w >> \in Els(taskQ[w])
        BY <2>1, <4>1, <4>3 DEF CacheInv, SentInv
      <4>5. PICK j \in 1..m : taskQ[w][j] = << d, "cache", w >> BY <3>1, <4>4 DEF Els
      <4>6. j \in 1..n /\ j < i /\ taskQ'[w][j] = << d, "cache", w >> BY <3>1, <3>2, <3>4, <4>5
      <4>7. Puts(taskQ'[w][j], hash[k[1]]) BY <4>3, <4>6 DEF Puts
      <4>8. QED BY <3>1, <4>6, <4>7
    <3>5. QED BY <3>3, <3>4
  <2>2. QED BY <1>1, <2>1 DEF QueueInv, Puts
<1>6. HandInv' BY <1>1 DEF CacheInv, HandInv, Working
<1>7. AnswerInv'
  <2>1. ASSUME NEW k \in Calls, call'[k].st = "answered"
        PROVE  call[k].st = "answered" /\ call'[k].got = call[k].got
    BY <1>2, <2>1, SubmitCalls
  <2>2. \A k \in Calls : call[k].st = "answered" => call[k].got \in Results BY <1>2 DEF OwnInv
  <2>3. \A w \in Workers : \A a \in Els(resQ[w]) : a \in Results
    <3>1. \A w \in Workers : resQ[w] \in Seq(Results) BY <1>2 DEF TypeOK
    <3>2. QED BY <3>1, ElsIn
  <2>4. \A k \in Calls : k[2] = "cache" /\ pc[k[1]] # "idle" => pc'[k[1]] # "idle" BY CallParts
  <2>5. \A w \in Workers : \A a \in Els(resQ[w]) : a.call[2] = "cache" => pc'[a.call[1]] # "idle"
    BY <2>3, <2>4 DEF CacheInv, AnswerInv, Results
  <2>6. ASSUME NEW k \in Calls, call'[k].st = "answered", call'[k].got.call[2] = "cache"
        PROVE  pc'[call'[k].got.call[1]] # "idle"
    BY <2>1, <2>2, <2>4, <2>6 DEF CacheInv, AnswerInv, Answered, Results
  <2>7. QED BY <2>5, <2>6 DEF AnswerInv, Answered
<1>8. HashInv' BY DEF CacheInv, HashInv
<1>9. QED BY <1>4, <1>5, <1>6, <1>7, <1>8 DEF CacheInv


-----------------------------------------------------------------------------
(* Workers. *)

\* A step of worker w: it caches, takes a task or goes on with the one in hand.
LEMMA WorkerCaches ==
    ASSUME IInv, CacheInv, NEW w \in Workers, UNCHANGED << pc, hash, call, lost >>,
           \A x \in Workers \ {w} :
              taskQ'[x] = taskQ[x] /\ busy'[x] = busy[x] /\ cache'[x] = cache[x],
           \A x \in Workers : \A a \in Els(resQ'[x]) :
              a \in Els(resQ[x]) \/ (a.call \in Calls /\ ~ Unmade(a.call)),
           \A b : Has(w, b) => Has(w, b)',
           \/ /\ taskQ'[w] = taskQ[w]
              /\ busy'[w].at # "idle" => Working(w) /\ busy'[w].call = busy[w].call
           \/ /\ taskQ[w] # << >> /\ taskQ'[w] = Tail(taskQ[w])
              /\ \A b : Puts(Head(taskQ[w]), b) => Has(w, b)'
              /\ busy'[w].at # "idle" => busy'[w].call = Head(taskQ[w])
    PROVE  CacheInv'
<1>1. \A x \in Workers : \A b : Has(x, b) => Has(x, b)' BY DEF Has
<1>2. PICK s, h, n : s = taskQ[w] /\ h = Head(s) /\ n = Len(s) OBVIOUS
<1>3. s \in Seq(Calls) /\ n \in Nat BY <1>2, TasksMade
<1>4. s # << >> => /\ Len(Tail(s)) = n - 1 /\ n \in Nat \ {0} /\ h = s[1]
                   /\ \A i \in 1..(n - 1) : Tail(s)[i] = s[i + 1]
  <2>1. SUFFICES ASSUME s # << >>
                 PROVE  /\ Len(Tail(s)) = n - 1 /\ n \in Nat \ {0} /\ h = s[1]
                        /\ \A i \in 1..(n - 1) : Tail(s)[i] = s[i + 1]
    OBVIOUS
  <2>2. n \in Nat \ {0} BY <1>2, <1>3, <2>1, EmptySeq
  <2>3. QED BY <1>2, <1>3, <2>1, <2>2, HeadTailProperties
<1>5. SentInv'
  <2>1. ASSUME NEW d \in Clients, NEW x \in Workers, x \notin lost, pc[d] # "idle"
        PROVE  Has(x, Data[d])' \/ << d, "cache", x >> \in Els(taskQ'[x])
    <3>1. Has(x, Data[d]) \/ << d, "cache", x >> \in Els(taskQ[x])
      BY <2>1 DEF CacheInv, SentInv
    <3>2. CASE Has(x, Data[d]) BY <1>1, <3>2
    <3>3. CASE << d, "cache", x >> \in Els(taskQ[x]) /\ taskQ'[x] = taskQ[x] BY <3>3
    <3>4. CASE << d, "cache", x >> \in Els(taskQ[x]) /\ taskQ'[x] # taskQ[x]
      <4>1. x = w /\ s # << >> /\ taskQ'[w] = Tail(s) BY <1>2, <3>4
      <4>2. PICK i \in 1..n : s[i] = << d, "cache", w >> BY <1>2, <3>4, <4>1 DEF Els
      <4>3. CASE i = 1
        <5>1. Puts(h, Data[d]) BY <1>4, <4>1, <4>2, <4>3 DEF Puts
        <5>2. QED BY <1>2, <3>4, <4>1, <5>1
      <4>4. CASE i # 1
        <5>1. i - 1 \in 1..(n - 1) /\ (i - 1) + 1 = i BY <1>3, <4>4
        <5>2. Tail(s)[i - 1] = << d, "cache", w >> BY <1>4, <4>1, <4>2, <5>1
        <5>3. taskQ'[x][i - 1] = << d, "cache", x >> /\ i - 1 \in 1..Len(taskQ'[x])
          BY <1>4, <4>1, <5>1, <5>2
        <5>4. QED BY <5>3 DEF Els
      <4>5. QED BY <4>3, <4>4
    <3>5. QED BY <3>1, <3>2, <3>3, <3>4
  <2>2. QED BY <2>1 DEF SentInv
<1>6. ASSUME s # << >>, taskQ'[w] = Tail(s), NEW i \in 1..(n - 1), NEW k, k = Tail(s)[i],
             k[2] = "recommend", ~ Has(w, hash[k[1]])'
      PROVE  \E j \in 1..(n - 1) : j < i /\ Puts(Tail(s)[j], hash[k[1]])
  <2>1. i + 1 \in 1..n /\ k = s[i + 1] BY <1>3, <1>4, <1>6
  <2>2. ~ Has(w, hash[k[1]]) BY <1>1, <1>6
  <2>3. PICK j \in 1..n : j < i + 1 /\ Puts(s[j], hash[k[1]])
    BY <1>2, <1>6, <2>1, <2>2 DEF CacheInv, QueueInv
  <2>4. j # 1
    <3>1. SUFFICES ASSUME j = 1 PROVE FALSE OBVIOUS
    <3>2. Puts(h, hash[k[1]]) BY <1>4, <1>6, <2>3, <3>1
    <3>3. Has(w, hash[k[1]])' \/ taskQ'[w] = taskQ[w] BY <1>2, <3>2
    <3>4. Tail(s) # s
      <4>1. Len(Tail(s)) = n - 1 /\ Len(s) = n BY <1>2, <1>4, <1>6
      <4>2. n - 1 # n BY <1>3
      <4>3. QED BY <4>1, <4>2
    <3>5. QED BY <1>2, <1>6, <3>3, <3>4
  <2>5. j - 1 \in 1..(n - 1) /\ (j - 1) + 1 = j /\ j - 1 < i BY <1>3, <2>3, <2>4
  <2>6. Tail(s)[j - 1] = s[j] BY <1>4, <1>6, <2>5
  <2>7. QED BY <2>3, <2>5, <2>6
<1>7. QueueInv'
  <2>1. ASSUME NEW x \in Workers, NEW i \in 1..Len(taskQ'[x]), NEW k, k = taskQ'[x][i],
               k[2] = "recommend", ~ Has(x, hash[k[1]])'
        PROVE  \E j \in 1..Len(taskQ'[x]) : j < i /\ Puts(taskQ'[x][j], hash[k[1]])
    <3>1. CASE taskQ'[x] = taskQ[x]
      <4>1. ~ Has(x, hash[k[1]]) BY <1>1, <2>1
      <4>2. QED BY <2>1, <3>1, <4>1 DEF CacheInv, QueueInv
    <3>2. CASE taskQ'[x] # taskQ[x]
      <4>1. x = w /\ s # << >> /\ taskQ'[w] = Tail(s) BY <1>2, <3>2
      <4>2. taskQ'[x] = Tail(s) /\ Len(taskQ'[x]) = n - 1 BY <1>4, <4>1
      <4>3. i \in 1..(n - 1) /\ k = Tail(s)[i] /\ ~ Has(w, hash[k[1]])' BY <2>1, <4>1, <4>2
      <4>4. PICK j \in 1..(n - 1) : j < i /\ Puts(Tail(s)[j], hash[k[1]])
        BY <1>6, <2>1, <4>1, <4>3
      <4>5. QED BY <4>2, <4>4
    <3>3. QED BY <3>1, <3>2
  <2>2. QED BY <2>1 DEF QueueInv, Puts
<1>8. HandInv'
  <2>1. ASSUME NEW x \in Workers, NEW k, k = busy'[x].call, busy'[x].at # "idle",
               k[2] = "recommend", ~ Has(x, hash[k[1]])'
        PROVE  FALSE
    <3>1. hash' = hash OBVIOUS
    <3>2. ~ Has(x, hash[k[1]]) BY <1>1, <2>1, <3>1
    <3>3. ~ (Working(x) /\ busy[x].call = k) BY <2>1, <3>2 DEF CacheInv, HandInv
    <3>4. x = w BY <2>1, <3>3 DEF Working
    <3>5. s # << >> /\ k = h /\ taskQ'[w] = Tail(s) BY <1>2, <2>1, <3>3, <3>4
    <3>6. 1 \in 1..n /\ s[1] = k BY <1>4, <3>5
    <3>7. PICK j \in 1..n : j < 1 BY <1>2, <2>1, <3>2, <3>4, <3>6 DEF CacheInv, QueueInv
    <3>8. QED BY <1>3, <3>7
  <2>2. ASSUME NEW x \in Workers, busy'[x].at # "idle", busy'[x].call[2] = "recommend"
        PROVE  \/ hash'[busy'[x].call[1]] \in Els(cache'[x])
               \/ Len(cache'[x]) = CacheNum
    <3>1. PICK k : k = busy'[x].call OBVIOUS
    <3>2. Has(x, hash[k[1]])' BY <2>1, <2>2, <3>1
    <3>3. hash'[k[1]] \in Els(cache'[x]) \/ Len(cache'[x]) = CacheNum BY <3>2 DEF Has
    <3>4. QED BY <3>1, <3>3
  <2>3. QED BY <2>2 DEF HandInv, Working, Has
<1>9. AnswerInv'
  <2>1. ASSUME NEW x \in Workers, NEW a \in Els(resQ'[x]), a.call[2] = "cache"
        PROVE  pc[a.call[1]] # "idle"
    BY <2>1 DEF CacheInv, AnswerInv, Unmade
  <2>2. QED BY <2>1 DEF CacheInv, AnswerInv, Answered
<1>10. HashInv' BY DEF CacheInv, HashInv
<1>11. QED BY <1>5, <1>7, <1>8, <1>9, <1>10 DEF CacheInv

\* What is cached stays, or the cache is full and remains so.
LEMMA EvictIs ==
    ASSUME TypeOK, NEW w \in Workers, cache_userdata(w)
    PROVE  /\ \A b : Has(w, b) => Has(w, b)'
           /\ \A b : Puts(Head(taskQ[w]), b) => Has(w, b)'
           /\ \A x \in Workers \ {w} : cache'[x] = cache[x]
<1> DEFINE D == {Data[c] : c \in Clients}
<1>1. PICK k, d, s, t : /\ k = Head(taskQ[w]) /\ d = Data[k[1]] /\ s = cache[w]
                        /\ t = Append(s, d)
  OBVIOUS
<1>2. cache \in [Workers -> Seq(D)] /\ Len(s) <= CacheNum /\ CacheNum \in Nat \ {0}
  BY <1>1, Bounds DEF TypeOK
<1>3. d \in D
  <2>1. k \in Calls /\ k[2] = "cache" BY <1>1, TakesIs DEF cache_userdata
  <2>2. QED BY <1>1, <2>1, CallParts
<1>4. cache' = IF Contains(s, d) THEN cache ELSE [cache EXCEPT ![w] = Evict(s, d)]
  BY <1>1 DEF cache_userdata
<1> HIDE DEF D
<1>5. /\ s \in Seq(D) /\ t \in Seq(D) /\ Len(s) \in Nat /\ Len(t) = Len(s) + 1
      /\ Els(t) = Els(s) \cup {d}
  <2>1. s \in Seq(D) BY <1>1, <1>2
  <2>2. QED BY <1>1, <1>3, <2>1, AppendIs
<1>6. \A x \in Workers \ {w} : cache'[x] = cache[x] BY <1>2, <1>4
<1>7. CASE Contains(s, d)
  <2>1. d \in Els(s) BY <1>7 DEF Contains, Els
  <2>2. QED BY <1>1, <1>4, <1>6, <1>7, <2>1 DEF Has, Puts
<1>8. CASE ~ Contains(s, d)
  <2>1. cache'[w] = Evict(s, d) BY <1>2, <1>4, <1>8
  <2>2. Evict(s, d) = IF Len(t) > CacheNum THEN Tail(t) ELSE t BY <1>1 DEF Evict
  <2>3. CASE Len(t) > CacheNum
    <3>1. t # << >> BY <1>5, EmptySeq
    <3>2. Len(Tail(t)) = Len(t) - 1 BY <1>5, <3>1, TailIs
    <3>3. Len(cache'[w]) = CacheNum BY <1>2, <1>5, <2>1, <2>2, <2>3, <3>2
    <3>4. QED BY <1>6, <3>3 DEF Has
  <2>4. CASE ~ Len(t) > CacheNum
    <3>1. Els(cache'[w]) = Els(s) \cup {d} BY <1>5, <2>1, <2>2, <2>4
    <3>2. Len(s) # CacheNum BY <1>2, <1>5, <2>4
    <3>3. QED BY <1>1, <1>6, <3>1, <3>2 DEF Has, Puts
  <2>5. QED BY <2>3, <2>4
<1>9. QED BY <1>7, <1>8

LEMMA CacheWorker ==
    ASSUME IInv, CacheInv, NEW w \in Workers, WorkerStep(w)
    PROVE  CacheInv'
<1>1. TypeOK BY DEF IInv
<1>2. UNCHANGED << pc, hash, call, lost >>
  BY DEF WorkerStep, cache_userdata, BeginLoad, SkipLoad, EndLoad, LoadFails, Finish,
         clientVars, callVars
<1>3. \A x \in Workers : \A b : cache' = cache => (Has(x, b)' <=> Has(x, b)) BY DEF Has
<1>4. ASSUME NEW k \in Calls, ~ Unmade(k), NEW ok \in BOOLEAN, Answer(w, k, ok)
      PROVE  \A x \in Workers : \A a \in Els(resQ'[x]) :
                a \in Els(resQ[x]) \/ (a.call \in Calls /\ ~ Unmade(a.call))
  BY <1>1, <1>4, AnswerIs
<1>5. ASSUME NEW op, Takes(w, op)
      PROVE  /\ taskQ[w] # << >> /\ taskQ'[w] = Tail(taskQ[w]) /\ Head(taskQ[w])[2] = op
             /\ \A x \in Workers \ {w} : taskQ'[x] = taskQ[x]
             /\ Head(taskQ[w]) \in Calls /\ ~ Unmade(Head(taskQ[w])) /\ busy[w].at = "idle"
  <2>1. taskQ'[w] = Tail(taskQ[w]) BY <1>1, <1>5 DEF Takes, TypeOK
  <2>2. Head(taskQ[w]) \in Els(taskQ[w]) BY <1>1, <1>5, TakesIs
  <2>3. QED BY <1>1, <1>5, <2>1, <2>2, TakesIs, TasksMade DEF Takes, Idle
<1>6. CASE cache_userdata(w)
  <2>1. Takes(w, "cache") /\ UNCHANGED busy BY <1>6 DEF cache_userdata
  <2>2. \A x \in Workers : \A a \in Els(resQ'[x]) :
            a \in Els(resQ[x]) \/ (a.call \in Calls /\ ~ Unmade(a.call))
    BY <1>4, <1>5, <1>6, <2>1 DEF cache_userdata
  <2>3. busy'[w].at = "idle" BY <1>5, <2>1
  <2>4. /\ \A b : Has(w, b) => Has(w, b)'
        /\ \A b : Puts(Head(taskQ[w]), b) => Has(w, b)'
        /\ \A x \in Workers \ {w} : cache'[x] = cache[x]
    BY <1>1, <1>6, EvictIs
  <2>5. QED BY <1>2, <1>5, <2>1, <2>2, <2>3, <2>4, WorkerCaches
<1>7. CASE BeginLoad(w) \/ SkipLoad(w)
  <2>1. PICK op \in {"refresh", "recommend"} : Takes(w, op) BY <1>7 DEF BeginLoad, SkipLoad
  <2>2. UNCHANGED << cache, resQ >> BY <1>7 DEF BeginLoad, SkipLoad
  <2>3. PICK b : busy' = [busy EXCEPT ![w] = b] /\ b.call = Head(taskQ[w])
    <3>1. CASE BeginLoad(w)
      <4>1. PICK d : d = [call |-> Head(taskQ[w]), at |-> "load", seen |-> db] OBVIOUS
      <4>2. busy' = [busy EXCEPT ![w] = d] /\ d.call = Head(taskQ[w]) BY <3>1, <4>1 DEF BeginLoad
      <4>3. QED BY <4>2
    <3>2. CASE SkipLoad(w)
      <4>1. PICK d : d = [call |-> Head(taskQ[w]), at |-> "compute", seen |-> 0] OBVIOUS
      <4>2. busy' = [busy EXCEPT ![w] = d] /\ d.call = Head(taskQ[w]) BY <3>2, <4>1 DEF SkipLoad
      <4>3. QED BY <4>2
    <3>3. QED BY <1>7, <3>1, <3>2
  <2>4. busy'[w].call = Head(taskQ[w]) /\ \A x \in Workers \ {w} : busy'[x] = busy[x]
    BY <1>1, <2>3 DEF TypeOK
  <2>5. \A h : ~ Puts(Head(taskQ[w]), h) BY <1>5, <2>1 DEF Puts
  <2>6. QED BY <1>2, <1>3, <1>5, <2>1, <2>2, <2>4, <2>5, WorkerCaches
<1>8. CASE EndLoad(w)
  <2>1. UNCHANGED << cache, resQ, taskQ >> /\ busy[w].at = "load" BY <1>8 DEF EndLoad
  <2>2. busy' = [busy EXCEPT ![w].at = "compute"] BY <1>8 DEF EndLoad
  <2>3. busy'[w].call = busy[w].call /\ \A x \in Workers \ {w} : busy'[x] = busy[x]
    BY <1>1, <2>2 DEF TypeOK
  <2>4. QED BY <1>2, <1>3, <2>1, <2>3, WorkerCaches DEF Working
<1>9. CASE Finish(w)
  <2>1. PICK k, ok : /\ k = busy[w].call
                     /\ ok = (k[2] = "refresh" \/ (ver[w] # 0 /\ Contains(cache[w], hash[k[1]])))
    OBVIOUS
  <2>2. Answer(w, k, ok) /\ UNCHANGED << cache, taskQ >> /\ busy[w].at = "compute"
    BY <1>9, <2>1 DEF Finish
  <2>3. busy' = [busy EXCEPT ![w] = Idle] BY <1>9 DEF Finish
  <2>4. busy'[w].at = "idle" /\ \A x \in Workers \ {w} : busy'[x] = busy[x]
    BY <1>1, <2>3 DEF TypeOK, Idle
  <2>5. k \in Calls /\ ~ Unmade(k) BY <2>1, <2>2, TasksMade DEF Working
  <2>6. ok \in BOOLEAN BY <2>1
  <2>7. \A x \in Workers : \A a \in Els(resQ'[x]) :
            a \in Els(resQ[x]) \/ (a.call \in Calls /\ ~ Unmade(a.call))
    BY <1>4, <2>2, <2>5, <2>6
  <2>8. QED BY <1>2, <1>3, <2>2, <2>4, <2>7, WorkerCaches
<1>10. CASE LoadFails(w)
  <2>1. PICK k : k = busy[w].call OBVIOUS
  <2>2. Answer(w, k, FALSE) /\ UNCHANGED << cache, taskQ >> /\ busy[w].at = "load"
    BY <1>10, <2>1 DEF LoadFails
  <2>3. busy' = [busy EXCEPT ![w] = Idle] BY <1>10 DEF LoadFails
  <2>4. busy'[w].at = "idle" /\ \A x \in Workers \ {w} : busy'[x] = busy[x]
    BY <1>1, <2>3 DEF TypeOK, Idle
  <2>5. k \in Calls /\ ~ Unmade(k) BY <2>1, <2>2, TasksMade DEF Working
  <2>6. \A x \in Workers : \A a \in Els(resQ'[x]) :
            a \in Els(resQ[x]) \/ (a.call \in Calls /\ ~ Unmade(a.call))
    BY <1>4, <2>2, <2>5
  <2>7. QED BY <1>2, <1>3, <2>2, <2>4, <2>6, WorkerCaches
<1>11. QED BY <1>6, <1>7, <1>8, <1>9, <1>10 DEF WorkerStep


-----------------------------------------------------------------------------
(* Every step. *)

\* The facts about answers that CacheStays asks for.
LEMMA AnswersMade ==
    ASSUME IInv
    PROVE  /\ \A k \in Calls : call[k].st = "answered" => call[k].got.call \in Calls
           /\ \A w \in Workers : resQ[w] \in Seq(Results)
           /\ \A w \in Workers : \A a \in Els(resQ[w]) : a \in Results /\ a.call \in Calls
<1>1. TypeOK /\ OwnInv BY DEF IInv
<1>2. \A w \in Workers : resQ[w] \in Seq(Results) BY <1>1 DEF TypeOK
<1>3. \A w \in Workers : Els(resQ[w]) \subseteq Results BY <1>2, ElsIn
<1>4. QED BY <1>1, <1>2, <1>3 DEF OwnInv, Results

\* Calls end or wait on, requests go on: what CacheStays asks for is left as it is.
LEMMA CacheIdles ==
    ASSUME IInv, CacheInv, UNCHANGED << taskQ, cache, busy, resQ >>, lost \subseteq lost',
           \A c \in Clients : /\ pc'[c] = "idle" <=> pc[c] = "idle"
                              /\ pc[c] # "cache" => hash'[c] = hash[c]
                              /\ pc'[c] = "acquire" => \/ pc[c] = "acquire"
                                                       \/ \E d \in Clients : pc[d] # "idle" /\ Data[d] = hash'[c],
           \A k \in Calls : call'[k].st = "answered" =>
              call[k].st = "answered" /\ call'[k].got = call[k].got
    PROVE  CacheInv'
<1>1. /\ \A k \in Calls : call[k].st = "answered" => call[k].got.call \in Calls
      /\ \A w \in Workers : \A a \in Els(resQ[w]) : a.call \in Calls
  BY AnswersMade
<1>2. \A w \in Workers : busy'[w].at # "idle" => Working(w) /\ busy'[w].call = busy[w].call
  BY DEF Working
<1>3. QED BY <1>1, <1>2, CacheStays

\* A call of Forget is over or goes on as it was.
LEMMA Forgotten ==
    ASSUME TypeOK, NEW S, Forget(S)
    PROVE  /\ lost' = lost
           /\ \A k \in Calls : call'[k].st = "answered" =>
                 call[k].st = "answered" /\ call'[k].got = call[k].got
<1>1. ASSUME NEW k \in Calls, call'[k].st = "answered" PROVE call'[k] = call[k]
  <2>1. PICK c, d : c = call[k] /\ d = [NoCall EXCEPT !.live = c.live] OBVIOUS
  <2>2. d.st = "new" BY <2>1 DEF NoCall
  <2>3. call'[k] = IF k \in S /\ c.st # "waiting" THEN d ELSE c BY <2>1 DEF Forget
  <2>4. QED BY <1>1, <2>1, <2>2, <2>3
<1>2. QED BY <1>1 DEF Forget

LEMMA CacheSends ==
    ASSUME IInv, CacheInv, NEW c \in Clients, CacheUserdata(c) PROVE CacheInv'
<1> DEFINE S == Of(c, "cache")
<1>1. TypeOK BY DEF IInv
<1>2. Batch(S) /\ \A k \in S : k \in Calls /\ k[1] = c /\ k[2] = "cache"
  BY OfIs DEF Batch
<1>3. /\ pc[c] = "idle" /\ pc' = [pc EXCEPT ![c] = "cache"] /\ Submit(S)
      /\ UNCHANGED << busy, cache, hash, resQ >>
  BY DEF CacheUserdata, workerVars
<1>4. \A k \in S : Unmade(k) /\ k[2] # "recommend" BY <1>2, <1>3 DEF Unmade
<1>5. \A x \in Clients : /\ pc[x] # "idle" => pc'[x] # "idle"
                         /\ pc[x] = "idle" /\ pc'[x] # "idle" => Of(x, "cache") \subseteq S
                         /\ pc'[x] = "acquire" => pc[x] = "acquire"
  BY <1>1, <1>3 DEF TypeOK
<1> HIDE DEF S
<1>6. QED BY <1>2, <1>3, <1>4, <1>5, CacheGrows

LEMMA CacheRecommends ==
    ASSUME IInv, CacheInv, NEW c \in Clients, NEW w \in Workers, Recommend(c, w) PROVE CacheInv'
<1> DEFINE h == << c, "recommend", w >>
<1>1. TypeOK BY DEF IInv
<1>2. h \in Calls /\ h[1] = c /\ h[2] = "recommend" BY DEF Calls
<1>3. /\ pc[c] = "acquire" /\ pc' = [pc EXCEPT ![c] = "recommend"] /\ Submit({h})
      /\ UNCHANGED << busy, cache, hash, resQ >>
  BY DEF Recommend, workerVars
<1>4. Batch({h})
  <2>1. IsFiniteSet({h}) BY FS_Singleton
  <2>2. QED BY <1>2, <2>1 DEF Batch
<1>5. \A k \in {h} : Unmade(k) /\ pc[k[1]] = "acquire" BY <1>2, <1>3 DEF Unmade
<1>6. \A x \in Clients : /\ pc[x] # "idle" => pc'[x] # "idle"
                         /\ pc[x] = "idle" /\ pc'[x] # "idle" => Of(x, "cache") \subseteq {h}
                         /\ pc'[x] = "acquire" => pc[x] = "acquire"
  BY <1>1, <1>3 DEF TypeOK
<1> HIDE DEF h
<1>7. QED BY <1>3, <1>4, <1>5, <1>6, CacheGrows

LEMMA CacheRefreshes == ASSUME IInv, CacheInv, EndWrite PROVE CacheInv'
<1> DEFINE S == Of(upd.round, "refresh")
<1>1. TypeOK /\ MadeInv BY DEF IInv
<1>2. upd.pc = "write" /\ upd.round \in Rounds BY <1>1 DEF EndWrite, MadeInv
<1>3. Batch(S) /\ \A k \in S : k \in Calls /\ k[1] = upd.round /\ k[2] = "refresh"
  BY <1>2, OfIs DEF Batch
<1>4. Submit(S) /\ UNCHANGED << pc, busy, cache, hash, resQ >>
  BY DEF EndWrite, clientVars, workerVars
<1>5. \A k \in S : Unmade(k) /\ k[2] # "recommend" BY <1>2, <1>3 DEF Unmade
<1> HIDE DEF S
<1>6. QED BY <1>3, <1>4, <1>5, CacheGrows

LEMMA CacheAnswered ==
    ASSUME IInv, CacheInv, NEW c \in Clients, CacheEnds(c) PROVE CacheInv'
<1> DEFINE S == Of(c, "cache")
           h == << c, "cache", FirstWorker >>
<1>1. TypeOK /\ OwnInv BY DEF IInv
<1>2. /\ pc[c] = "cache" /\ Forget(S) /\ UNCHANGED << taskQ, cache, busy, resQ >>
  BY DEF CacheEnds, workerVars
<1>3. \/ pc' = [pc EXCEPT ![c] = "failed"] /\ hash' = hash
      \/ /\ \A k \in S : Answered(k)
         /\ call[h].got.call[2] = "cache"
         /\ pc' = [pc EXCEPT ![c] = "acquire"]
         /\ hash' = [hash EXCEPT ![c] = Data[call[h].got.call[1]]]
  BY DEF CacheEnds
<1>4. /\ lost' = lost
      /\ \A k \in Calls : call'[k].st = "answered" =>
            call[k].st = "answered" /\ call'[k].got = call[k].got
  BY <1>1, <1>2, Forgotten
<1>5. \A x \in Clients : pc'[x] = "idle" <=> pc[x] = "idle" BY <1>1, <1>2, <1>3 DEF TypeOK
<1>6. \A x \in Clients : pc[x] # "cache" => hash'[x] = hash[x] BY <1>1, <1>2, <1>3 DEF TypeOK
<1>7. ASSUME NEW x \in Clients, pc'[x] = "acquire", pc[x] # "acquire"
      PROVE  \E d \in Clients : pc[d] # "idle" /\ Data[d] = hash'[x]
  <2>1. x = c /\ pc'[c] # "failed" BY <1>1, <1>3, <1>7 DEF TypeOK
  <2>2. /\ \A k \in S : Answered(k)
        /\ call[h].got.call[2] = "cache"
        /\ hash' = [hash EXCEPT ![c] = Data[call[h].got.call[1]]]
    BY <1>1, <1>3, <2>1 DEF TypeOK
  <2>3. FirstWorker \in Workers BY DeckAssumption DEF FirstWorker
  <2>4. h \in S /\ h \in Calls BY <2>3 DEF Of, Calls
  <2>5. call[h].st = "answered" BY <2>2, <2>4 DEF Answered
  <2>6. PICK d : d = call[h].got.call[1] OBVIOUS
  <2>7. d \in Clients BY <2>2, <2>4, <2>5, <2>6, AnswersMade, CallParts
  <2>8. pc[d] # "idle" BY <2>2, <2>4, <2>5, <2>6 DEF CacheInv, AnswerInv, Answered
  <2>9. hash'[c] = Data[d] BY <1>1, <2>2, <2>6 DEF TypeOK
  <2>10. QED BY <2>1, <2>7, <2>8, <2>9
<1> HIDE DEF S, h
<1>8. QED BY <1>2, <1>4, <1>5, <1>6, <1>7, CacheIdles

LEMMA CacheReleases ==
    ASSUME IInv, CacheInv, NEW c \in Clients, NEW w \in Workers, RecommendEnds(c, w) PROVE CacheInv'
<1>1. TypeOK BY DEF IInv
<1>2. /\ pc[c] = "recommend" /\ Forget({<< c, "recommend", w >>})
      /\ UNCHANGED << taskQ, cache, busy, resQ, hash >>
  BY DEF RecommendEnds, workerVars
<1>3. pc' = [pc EXCEPT ![c] = "done"] \/ pc' = [pc EXCEPT ![c] = "failed"]
  BY DEF RecommendEnds, Outcome
<1>4. /\ lost' = lost
      /\ \A k \in Calls : call'[k].st = "answered" =>
            call[k].st = "answered" /\ call'[k].got = call[k].got
  BY <1>1, <1>2, Forgotten
<1>5. \A x \in Clients : /\ pc'[x] = "idle" <=> pc[x] = "idle"
                         /\ pc'[x] = "acquire" => pc[x] = "acquire"
  BY <1>1, <1>2, <1>3 DEF TypeOK
<1>6. QED BY <1>2, <1>4, <1>5, CacheIdles

LEMMA CacheRounds ==
    ASSUME IInv, CacheInv, Probe \/ BeginWrite \/ WriteFails \/ RefreshEnds PROVE CacheInv'
<1>1. TypeOK BY DEF IInv
<1>2. UNCHANGED << taskQ, cache, busy, resQ, pc, hash >>
  BY DEF Probe, BeginWrite, WriteFails, RefreshEnds, clientVars, workerVars
<1>3. /\ lost' = lost
      /\ \A k \in Calls : call'[k].st = "answered" =>
            call[k].st = "answered" /\ call'[k].got = call[k].got
  <2>1. CASE RefreshEnds BY <1>1, <2>1, Forgotten DEF RefreshEnds
  <2>2. CASE Probe \/ BeginWrite \/ WriteFails
    BY <2>2 DEF Probe, BeginWrite, WriteFails, callVars
  <2>3. QED BY <2>1, <2>2
<1>4. QED BY <1>2, <1>3, CacheIdles

LEMMA CacheTimeout ==
    ASSUME IInv, CacheInv, NEW k \in Calls, Timeout(k) PROVE CacheInv'
<1>1. TypeOK BY DEF IInv
<1>2. /\ UNCHANGED << taskQ, cache, busy, resQ, pc, hash >>
      /\ lost' = lost \cup {At(k)} /\ call' = [call EXCEPT ![k].st = "timeout"]
  BY DEF Timeout, GivesUp, clientVars, workerVars
<1>3. ASSUME NEW j \in Calls, call'[j].st = "answered" PROVE call'[j] = call[j]
  <2>1. CASE j = k
    <3>1. PICK c, d : c = call[k] /\ d = [c EXCEPT !.st = "timeout"] OBVIOUS
    <3>2. c \in CallRec BY <1>1, <3>1 DEF TypeOK, CallRec
    <3>3. d.st = "timeout" BY <3>1, <3>2 DEF CallRec
    <3>4. call'[k] = d BY <1>1, <1>2, <3>1 DEF TypeOK
    <3>5. QED BY <1>3, <2>1, <3>3, <3>4
  <2>2. CASE j # k BY <1>1, <1>2, <2>2 DEF TypeOK
  <2>3. QED BY <2>1, <2>2
<1>4. QED BY <1>2, <1>3, CacheIdles

LEMMA CacheGet ==
    ASSUME IInv, CacheInv, NEW k \in Calls, Get(k) PROVE CacheInv'
<1>1. TypeOK BY DEF IInv
<1>2. PICK w, s, a, c : w = At(k) /\ s = resQ[w] /\ a = Head(s) /\ c = call[k] OBVIOUS
<1>3. /\ w \in Workers /\ s \in Seq(Results) /\ s # << >> /\ c \in CallRec
      /\ resQ \in [Workers -> Seq(Results)] /\ call \in [Calls -> CallRec]
  BY <1>1, <1>2, CallParts DEF Get, TypeOK, CallRec
<1>4. Els(Tail(s)) \subseteq Els(s) /\ a \in Els(s) /\ a \in Results BY <1>2, <1>3, TailIs
<1>5. /\ resQ' = [resQ EXCEPT ![w] = Tail(s)]
      /\ UNCHANGED << taskQ, cache, busy, pc, hash, lost >>
  BY <1>2 DEF Get, clientVars, workerVars
<1>6. \A x \in Workers : Els(resQ'[x]) \subseteq Els(resQ[x]) BY <1>2, <1>3, <1>4, <1>5
<1>7. ASSUME NEW j \in Calls, call'[j].st = "answered"
      PROVE  call'[j] = call[j] \/ call'[j].got = a
  <2>1. CASE c.st = "waiting" /\ j = k
    <3>1. PICK d : d = [c EXCEPT !.st = "answered", !.got = a] OBVIOUS
    <3>2. call' = [call EXCEPT ![k] = d] BY <1>2, <2>1, <3>1 DEF Get
    <3>3. d.got = a BY <1>3, <3>1 DEF CallRec
    <3>4. QED BY <1>3, <2>1, <3>2, <3>3
  <2>2. CASE ~ (c.st = "waiting" /\ j = k) BY <1>2, <1>3, <2>2 DEF Get
  <2>3. QED BY <2>1, <2>2
<1>8. ASSUME NEW j \in Calls, call'[j].st = "answered"
      PROVE  \/ call[j].st = "answered" /\ call'[j].got = call[j].got
             \/ \E x \in Workers : call'[j].got \in Els(resQ[x]) /\ call'[j].got.call \in Calls
  <2>1. CASE call'[j] = call[j] BY <1>8, <2>1
  <2>2. CASE call'[j].got = a BY <1>2, <1>3, <1>4, <2>2 DEF Results
  <2>3. QED BY <1>7, <1>8, <2>1, <2>2
<1>9. /\ \A j \in Calls : call[j].st = "answered" => call[j].got.call \in Calls
      /\ \A x \in Workers : \A b \in Els(resQ[x]) : b.call \in Calls
  BY AnswersMade
<1>10. \A x \in Workers : busy'[x].at # "idle" => Working(x) /\ busy'[x].call = busy[x].call
  BY <1>5 DEF Working
<1>11. QED BY <1>5, <1>6, <1>8, <1>9, <1>10, CacheStays

LEMMA CacheStarts == Init => CacheInv
<1> SUFFICES ASSUME Init PROVE CacheInv OBVIOUS
<1>1. \A w \in Workers : taskQ[w] = << >> /\ resQ[w] = << >> /\ ~ Working(w)
  BY DEF Init, Working, Idle
<1>2. (\A c \in Clients : pc[c] = "idle") /\ \A k \in Calls : call[k].st = "new"
  BY DEF Init, NoCall
<1>3. Len(<< >>) = 0 /\ Els(<< >>) = {} BY NoEls
<1>4. SentInv /\ HashInv BY <1>2 DEF SentInv, HashInv
<1>5. QueueInv
  <2>1. \A w \in Workers : 1..Len(taskQ[w]) = {} BY <1>1, <1>3
  <2>2. QED BY <2>1 DEF QueueInv
<1>6. HandInv BY <1>1 DEF HandInv
<1>7. AnswerInv BY <1>1, <1>2, <1>3 DEF AnswerInv, Answered
<1>8. QED BY <1>4, <1>5, <1>6, <1>7 DEF CacheInv

LEMMA CacheKept == IInv /\ CacheInv /\ [Next]_vars => CacheInv'
<1> SUFFICES ASSUME IInv, CacheInv, [Next]_vars PROVE CacheInv' OBVIOUS
<1>1. ASSUME NEW c \in Clients, CacheUserdata(c) PROVE CacheInv' BY <1>1, CacheSends
<1>2. ASSUME NEW c \in Clients, CacheEnds(c) PROVE CacheInv' BY <1>2, CacheAnswered
<1>3. ASSUME NEW c \in Clients, NEW w \in Workers, Recommend(c, w) PROVE CacheInv'
  BY <1>3, CacheRecommends
<1>4. ASSUME NEW c \in Clients, NEW w \in Workers, RecommendEnds(c, w) PROVE CacheInv'
  BY <1>4, CacheReleases
<1>5. ASSUME NEW k \in Calls, Get(k) PROVE CacheInv' BY <1>5, CacheGet
<1>6. ASSUME NEW k \in Calls, Timeout(k) PROVE CacheInv' BY <1>6, CacheTimeout
<1>7. CASE Probe \/ BeginWrite \/ WriteFails \/ RefreshEnds BY <1>7, CacheRounds
<1>8. CASE EndWrite BY <1>8, CacheRefreshes
<1>9. ASSUME NEW w \in Workers, WorkerStep(w) PROVE CacheInv' BY <1>9, CacheWorker
<1>10. CASE UNCHANGED vars
  <2>1. UNCHANGED << taskQ, cache, busy, resQ, pc, hash, lost, call >>
    BY <1>10 DEF vars, clientVars, callVars, workerVars
  <2>2. QED BY <2>1, CacheIdles
<1>11. ASSUME NEW c \in Clients, ClientStep(c) PROVE CacheInv'
  BY <1>2, <1>3, <1>4, <1>11 DEF ClientStep
<1>12. CASE Progress BY <1>5, <1>6, <1>7, <1>8, <1>9, <1>11, <1>12 DEF Progress, UploadStep
<1>13. QED BY <1>1, <1>6, <1>7, <1>10, <1>12 DEF Next

\* A worker that computes a recommendation has its user data, or has cached as many others
\* since (worker.py:116-127, deck.py).
THEOREM DeckCached == Spec => []CachedOrEvicted
<1>1. IInv /\ CacheInv => CachedOrEvicted
  <2> SUFFICES ASSUME CacheInv, NEW w \in Workers, busy[w].at = "compute",
                      busy[w].call[2] = "recommend"
               PROVE  Contains(cache[w], hash[busy[w].call[1]]) \/ Len(cache[w]) = CacheNum
    BY DEF CachedOrEvicted, Computes
  <2>1. Has(w, hash[busy[w].call[1]]) BY DEF CacheInv, HandInv, Working
  <2>2. QED BY <2>1 DEF Has, Contains, Els
<1>2. Spec => []CacheInv BY InitHolds, NextKeeps, CacheStarts, CacheKept, PTL DEF Spec
<1>3. QED BY <1>1, <1>2, Invariant, PTL

-----------------------------------------------------------------------------
(* Nothing is stuck. *)

\* The getters in the queues that worker w writes to.
Live(w)   == {k \in Els(getters) : call[k].live /\ At(k) = w}
Called(k) == call[k].st # "new"

\* The request of c has worker w.
Uses(c, w) == pc[c] = "recommend" /\ Called(<< c, "recommend", w >>)

\* No more getters wait at the queue of a worker than results are still to come.
OwedInv == \A w \in Workers : IsFiniteSet(Live(w)) /\ Cardinality(Live(w)) <= Load(w)

\* A wait that is not over has its getter.
HeldInv == Waiting \subseteq Els(getters)

\* A request has made its calls, and a worker that is not available is used by one.
AskedInv ==
    /\ \A c \in Clients : pc[c] = "cache" => \A k \in Of(c, "cache") : Called(k)
    /\ \A c \in Clients : pc[c] = "recommend" => \E w \in Workers : Uses(c, w)
    /\ \A c \in Clients : \A v, w \in Workers : Uses(c, v) /\ Uses(c, w) => v = w
    /\ \A w \in Workers \ avail : \E c \in Clients : Uses(c, w)

GoInv == OwedInv /\ HeldInv /\ AskedInv

LEMMA LoadsAre == ASSUME TypeOK, NEW w \in Workers PROVE Load(w) \in Nat
<1>1. PICK m, n, t : /\ m = Len(resQ[w]) /\ n = Len(taskQ[w])
                     /\ t = (IF busy[w].at # "idle" THEN 1 ELSE 0)
  OBVIOUS
<1>2. m \in Nat /\ n \in Nat /\ Load(w) = m + n + t BY <1>1, LoadIs
<1>3. t \in Nat BY <1>1
<1>4. QED BY <1>2, <1>3

\* Getters go or stay, and so does the work of each worker.
LEMMA OwedStays ==
    ASSUME TypeOK, OwedInv, Els(getters') \subseteq Els(getters),
           \A k \in Els(getters) : call'[k].live <=> call[k].live,
           \A w \in Workers : Load(w)' = Load(w)
    PROVE  OwedInv'
<1>1. ASSUME NEW w \in Workers
      PROVE  IsFiniteSet(Live(w)') /\ Cardinality(Live(w)') <= Load(w)'
  <2>1. Live(w)' \subseteq Live(w) BY DEF Live
  <2>2. IsFiniteSet(Live(w)) /\ Cardinality(Live(w)) <= Load(w) BY DEF OwedInv
  <2>3. IsFiniteSet(Live(w)') /\ Cardinality(Live(w)') <= Cardinality(Live(w))
    BY <2>1, <2>2, FS_Subset
  <2>4. Cardinality(Live(w)') \in Nat /\ Cardinality(Live(w)) \in Nat /\ Load(w) \in Nat
    BY <2>2, <2>3, FS_CardinalityType, LoadsAre
  <2>5. PICK a, b, d : a = Cardinality(Live(w)') /\ b = Cardinality(Live(w)) /\ d = Load(w) OBVIOUS
  <2>6. a <= d BY <2>2, <2>3, <2>4, <2>5
  <2>7. QED BY <2>3, <2>5, <2>6
<1>2. QED BY <1>1 DEF OwedInv

\* Calls of recommendations and the workers they use stay.
LEMMA AskedStays ==
    ASSUME AskedInv, avail' = avail,
           \A c \in Clients : pc'[c] = "recommend" <=> pc[c] = "recommend",
           \A c \in Clients : pc'[c] = "cache" => \A k \in Of(c, "cache") : call'[k].st # "new",
           \A k \in Calls : k[2] = "recommend" => (call'[k].st = "new" <=> call[k].st = "new")
    PROVE  AskedInv'
<1>1. ASSUME NEW c \in Clients, NEW w \in Workers PROVE Uses(c, w)' <=> Uses(c, w)
  <2>1. << c, "recommend", w >> \in Calls /\ << c, "recommend", w >>[2] = "recommend" BY DEF Calls
  <2>2. QED BY <2>1 DEF Uses, Called
<1>2. \A c \in Clients : pc'[c] = "cache" => \A k \in Of(c, "cache") : Called(k)' BY DEF Called
<1>3. \A c \in Clients : pc'[c] = "recommend" => \E w \in Workers : Uses(c, w)'
  BY <1>1 DEF AskedInv
<1>4. \A c \in Clients : \A v, w \in Workers : Uses(c, v)' /\ Uses(c, w)' => v = w
  BY <1>1 DEF AskedInv
<1>5. \A w \in Workers \ avail' : \E c \in Clients : Uses(c, w)' BY <1>1 DEF AskedInv
<1>6. QED BY <1>2, <1>3, <1>4, <1>5 DEF AskedInv

\* The calls S are made.
LEMMA GoMakes ==
    ASSUME IInv, OwedInv, HeldInv, NEW S, Batch(S), Submit(S), \A k \in S : Unmade(k),
           UNCHANGED << resQ, busy >>
    PROVE  /\ OwedInv' /\ HeldInv'
           /\ \A k \in S : call'[k].st = "waiting"
           /\ \A k \in Calls \ S : call'[k].st = call[k].st
<1>1. TypeOK /\ MadeInv /\ Once(getters) BY DEF IInv, MadeInv
<1>2. S \subseteq Calls /\ S \cap Els(getters) = {} BY <1>1 DEF Batch, MadeInv
<1>3. /\ \A k \in S : call'[k].st = "waiting" /\ (call'[k].live <=> At(k) \notin lost)
      /\ \A k \in Calls \ S : call'[k].st = call[k].st /\ call'[k].live = call[k].live
  BY <1>1, SubmitCalls
<1>4. /\ Els(getters') = Els(getters) \cup S
      /\ \A w \in Workers : IsFiniteSet(Into(S, w)) /\ Len(taskQ'[w]) = Len(taskQ[w]) + Cardinality(Into(S, w))
  BY <1>1, <1>2, SubmitQueues
<1>5. HeldInv' BY <1>3, <1>4 DEF HeldInv, Waiting
<1>6. ASSUME NEW w \in Workers
      PROVE  IsFiniteSet(Live(w)') /\ Cardinality(Live(w)') <= Load(w)'
  <2>1. Els(getters) \subseteq Calls BY <1>1, ElsIn DEF TypeOK
  <2>2. Live(w)' \subseteq Live(w) \cup Into(S, w)
    BY <1>2, <1>3, <1>4, <2>1 DEF Live, Into
  <2>3. /\ IsFiniteSet(Live(w)) /\ Cardinality(Live(w)) <= Load(w) /\ IsFiniteSet(Into(S, w))
    BY <1>4 DEF OwedInv
  <2>4. Live(w) \cap Into(S, w) = {} BY <1>2 DEF Live, Into
  <2>5. PICK L, I : L = Live(w) /\ I = Into(S, w) OBVIOUS
  <2>6. IsFiniteSet(L \cup I) /\ Cardinality(L \cup I) = Cardinality(L) + Cardinality(I)
    <3>1. /\ IsFiniteSet(L \cup I)
          /\ Cardinality(L \cup I) = Cardinality(L) + Cardinality(I) - Cardinality(L \cap I)
      BY <2>3, <2>5, FS_Union
    <3>2. Cardinality(L \cap I) = 0 BY <2>4, <2>5, FS_EmptySet
    <3>3. Cardinality(L) \in Nat /\ Cardinality(I) \in Nat BY <2>3, <2>5, FS_CardinalityType
    <3>4. QED BY <3>1, <3>2, <3>3
  <2>7. IsFiniteSet(Live(w)') /\ Cardinality(Live(w)') <= Cardinality(L \cup I)
    BY <2>2, <2>5, <2>6, FS_Subset
  <2>8. PICK a, b, d, m, n, t : /\ a = Cardinality(Live(w)') /\ b = Cardinality(L) /\ d = Cardinality(I)
                                /\ m = Len(resQ[w]) /\ n = Len(taskQ[w])
                                /\ t = (IF busy[w].at # "idle" THEN 1 ELSE 0)
    OBVIOUS
  <2>9. a \in Nat /\ b \in Nat /\ d \in Nat /\ m \in Nat /\ n \in Nat /\ t \in Nat
    BY <1>1, <2>3, <2>5, <2>7, <2>8, FS_CardinalityType, LoadIs
  <2>10. Load(w) = m + n + t BY <1>1, <2>8, LoadIs
  <2>11. Load(w)' = m + (n + d) + t BY <1>4, <2>5, <2>8 DEF Load, Working
  <2>12. a <= b + d /\ b <= m + n + t BY <2>3, <2>5, <2>6, <2>7, <2>8, <2>10
  <2>13. a <= m + (n + d) + t BY <2>9, <2>12
  <2>14. QED BY <2>7, <2>8, <2>11, <2>13
<1>7. OwedInv' BY <1>6 DEF OwedInv
<1>8. QED BY <1>3, <1>5, <1>7


\* Calls are over, and those that wait go on.
LEMMA GoForgets ==
    ASSUME IInv, OwedInv, HeldInv, NEW S, Forget(S), UNCHANGED << resQ, taskQ, busy >>
    PROVE  /\ OwedInv' /\ HeldInv'
           /\ \A k \in Calls \ S : call'[k] = call[k]
           /\ \A k \in S \cap Calls : call[k].st # "waiting" => call'[k].st = "new"
<1>1. TypeOK BY DEF IInv
<1>2. ASSUME NEW k \in Calls
      PROVE  /\ call'[k].live = call[k].live
             /\ call'[k].st = "waiting" => call[k].st = "waiting"
             /\ k \notin S => call'[k] = call[k]
             /\ k \in S /\ call[k].st # "waiting" => call'[k].st = "new"
  <2>1. PICK c, d : c = call[k] /\ d = [NoCall EXCEPT !.live = c.live] OBVIOUS
  <2>2. d.st = "new" /\ d.live = c.live BY <2>1 DEF NoCall
  <2>3. call'[k] = IF k \in S /\ c.st # "waiting" THEN d ELSE c BY <2>1 DEF Forget
  <2>4. QED BY <2>1, <2>2, <2>3
<1>3. getters' = getters /\ Els(getters) \subseteq Calls BY <1>1, ElsIn DEF Forget, TypeOK
<1>4. HeldInv' BY <1>2, <1>3 DEF HeldInv, Waiting
<1>5. \A w \in Workers : Load(w)' = Load(w) BY DEF Load, Working
<1>6. \A k \in Els(getters) : call'[k].live <=> call[k].live BY <1>2, <1>3
<1>7. Els(getters') \subseteq Els(getters) BY <1>3
<1>8. OwedInv' BY <1>1, <1>5, <1>6, <1>7, OwedStays
<1>9. QED BY <1>2, <1>4, <1>8

LEMMA GoSends ==
    ASSUME IInv, GoInv, NEW c \in Clients, CacheUserdata(c) PROVE GoInv'
<1> DEFINE S == Of(c, "cache")
<1>1. TypeOK BY DEF IInv
<1>2. Batch(S) /\ \A k \in S : k \in Calls /\ k[1] = c /\ k[2] = "cache"
  BY OfIs DEF Batch
<1>3. /\ pc[c] = "idle" /\ pc' = [pc EXCEPT ![c] = "cache"] /\ Submit(S)
      /\ UNCHANGED << busy, resQ, avail >>
  BY DEF CacheUserdata, workerVars
<1>4. \A k \in S : Unmade(k) /\ k[2] # "recommend" BY <1>2, <1>3 DEF Unmade
<1>5. /\ OwedInv' /\ HeldInv'
      /\ \A k \in S : call'[k].st = "waiting"
      /\ \A k \in Calls \ S : call'[k].st = call[k].st
  BY <1>2, <1>3, <1>4, GoMakes DEF GoInv
<1>6. \A x \in Clients : pc'[x] = "recommend" <=> pc[x] = "recommend" BY <1>1, <1>3 DEF TypeOK
<1>7. ASSUME NEW x \in Clients, pc'[x] = "cache", NEW k \in Of(x, "cache")
      PROVE  call'[k].st # "new"
  <2>1. CASE x = c BY <1>5, <1>7, <2>1
  <2>2. CASE x # c
    <3>1. pc[x] = "cache" BY <1>1, <1>3, <1>7, <2>2 DEF TypeOK
    <3>2. call[k].st # "new" BY <1>7, <3>1 DEF GoInv, AskedInv, Called
    <3>3. k \in Calls BY <1>7, OfIs
    <3>4. QED BY <1>5, <3>2, <3>3
  <2>3. QED BY <2>1, <2>2
<1>8. \A k \in Calls : k[2] = "recommend" => (call'[k].st = "new" <=> call[k].st = "new")
  BY <1>4, <1>5
<1>9. AskedInv' BY <1>3, <1>6, <1>7, <1>8, AskedStays DEF GoInv
<1>10. QED BY <1>5, <1>9 DEF GoInv

LEMMA GoEndWrites == ASSUME IInv, GoInv, EndWrite PROVE GoInv'
<1> DEFINE S == Of(upd.round, "refresh")
<1>1. TypeOK /\ MadeInv BY DEF IInv
<1>2. upd.pc = "write" /\ upd.round \in Rounds BY <1>1 DEF EndWrite, MadeInv
<1>3. Batch(S) /\ \A k \in S : k \in Calls /\ k[1] = upd.round /\ k[2] = "refresh"
  BY <1>2, OfIs DEF Batch
<1>4. Submit(S) /\ UNCHANGED << pc, busy, resQ, avail >>
  BY DEF EndWrite, clientVars, workerVars
<1>5. \A k \in S : Unmade(k) BY <1>2, <1>3 DEF Unmade
<1> HIDE DEF S
<1>6. /\ OwedInv' /\ HeldInv'
      /\ \A k \in S : call'[k].st = "waiting"
      /\ \A k \in Calls \ S : call'[k].st = call[k].st
  BY <1>3, <1>4, <1>5, GoMakes DEF GoInv
<1>7. \A k \in Calls : k[2] # "refresh" => call'[k].st = call[k].st BY <1>3, <1>6
<1>8. \A x \in Clients : pc'[x] = "cache" => \A k \in Of(x, "cache") : call'[k].st # "new"
  <2>1. \A x \in Clients : \A k \in Of(x, "cache") : k \in Calls /\ k[2] # "refresh" BY OfIs
  <2>2. QED BY <1>4, <1>7, <2>1 DEF GoInv, AskedInv, Called
<1>9. AskedInv'
  <2>1. \A k \in Calls : k[2] = "recommend" => (call'[k].st = "new" <=> call[k].st = "new")
    BY <1>7
  <2>2. QED BY <1>4, <1>8, <2>1, AskedStays DEF GoInv
<1>10. QED BY <1>6, <1>9 DEF GoInv

LEMMA GoAnswered ==
    ASSUME IInv, GoInv, NEW c \in Clients, CacheEnds(c) PROVE GoInv'
<1> DEFINE S == Of(c, "cache")
<1>1. TypeOK BY DEF IInv
<1>2. /\ pc[c] = "cache" /\ Forget(S) /\ UNCHANGED << taskQ, busy, resQ, avail >>
  BY DEF CacheEnds, workerVars
<1>3. pc' = [pc EXCEPT ![c] = "failed"] \/ pc' = [pc EXCEPT ![c] = "acquire"]
  BY DEF CacheEnds
<1>4. \A k \in S : k \in Calls /\ k[1] = c /\ k[2] = "cache" BY OfIs
<1>5. OwedInv' /\ HeldInv' /\ \A k \in Calls \ S : call'[k] = call[k]
  BY <1>2, GoForgets DEF GoInv
<1>6. \A x \in Clients : pc'[x] = "recommend" <=> pc[x] = "recommend" BY <1>1, <1>2, <1>3 DEF TypeOK
<1>7. ASSUME NEW x \in Clients, pc'[x] = "cache", NEW k \in Of(x, "cache")
      PROVE  call'[k].st # "new"
  <2>1. x # c /\ pc[x] = "cache" BY <1>1, <1>3, <1>7 DEF TypeOK
  <2>2. k \in Calls /\ k[1] = x BY <1>7, OfIs
  <2>3. k \notin S BY <1>4, <2>1, <2>2
  <2>4. QED BY <1>5, <1>7, <2>1, <2>2, <2>3 DEF GoInv, AskedInv, Called
<1>8. \A k \in Calls : k[2] = "recommend" => (call'[k].st = "new" <=> call[k].st = "new")
  BY <1>4, <1>5
<1>9. AskedInv' BY <1>2, <1>6, <1>7, <1>8, AskedStays DEF GoInv
<1>10. QED BY <1>5, <1>9 DEF GoInv

LEMMA GoRefreshed == ASSUME IInv, GoInv, RefreshEnds PROVE GoInv'
<1> DEFINE S == Of(upd.round, "refresh")
<1>1. TypeOK /\ MadeInv BY DEF IInv
<1>2. Forget(S) /\ UNCHANGED << taskQ, busy, resQ, avail, pc >> /\ upd.pc = "refresh"
  BY DEF RefreshEnds, workerVars, clientVars
<1>3. \A k \in S : k[2] = "refresh" BY <1>1, <1>2, OfIs DEF MadeInv
<1> HIDE DEF S
<1>4. OwedInv' /\ HeldInv' /\ \A k \in Calls \ S : call'[k] = call[k]
  BY <1>2, GoForgets DEF GoInv
<1>5. \A k \in Calls : k[2] # "refresh" => call'[k].st = call[k].st BY <1>3, <1>4
<1>6. \A x \in Clients : pc'[x] = "cache" => \A k \in Of(x, "cache") : call'[k].st # "new"
  <2>1. \A x \in Clients : \A k \in Of(x, "cache") : k \in Calls /\ k[2] # "refresh" BY OfIs
  <2>2. QED BY <1>2, <1>5, <2>1 DEF GoInv, AskedInv, Called
<1>7. AskedInv'
  <2>1. \A k \in Calls : k[2] = "recommend" => (call'[k].st = "new" <=> call[k].st = "new")
    BY <1>5
  <2>2. QED BY <1>2, <1>6, <2>1, AskedStays DEF GoInv
<1>8. QED BY <1>4, <1>7 DEF GoInv

LEMMA GoRecommends ==
    ASSUME IInv, GoInv, NEW c \in Clients, NEW w \in Workers, Recommend(c, w) PROVE GoInv'
<1> DEFINE h == << c, "recommend", w >>
<1>1. TypeOK /\ MadeInv BY DEF IInv
<1>2. h \in Calls /\ h[1] = c /\ h[2] = "recommend" BY DEF Calls
<1>3. /\ pc[c] = "acquire" /\ pc' = [pc EXCEPT ![c] = "recommend"] /\ Submit({h})
      /\ avail' = avail \ {w} /\ UNCHANGED << busy, resQ >>
  BY DEF Recommend, workerVars
<1>4. Batch({h})
  <2>1. IsFiniteSet({h}) BY FS_Singleton
  <2>2. QED BY <1>2, <2>1 DEF Batch
<1>5. \A v \in Workers : call[<< c, "recommend", v >>].st = "new"
  <2>1. ASSUME NEW v \in Workers PROVE call[<< c, "recommend", v >>].st = "new"
    <3>1. << c, "recommend", v >> \in Calls /\ Unmade(<< c, "recommend", v >>)
      BY <1>3 DEF Calls, Unmade
    <3>2. QED BY <1>1, <3>1 DEF MadeInv
  <2>2. QED BY <2>1
<1>6. \A k \in {h} : Unmade(k) BY <1>2, <1>3 DEF Unmade
<1>7. /\ OwedInv' /\ HeldInv'
      /\ call'[h].st = "waiting"
      /\ \A k \in Calls \ {h} : call'[k].st = call[k].st
  BY <1>3, <1>4, <1>6, GoMakes DEF GoInv
<1>8. ASSUME NEW x \in Clients, x # c, NEW v \in Workers
      PROVE  Uses(x, v)' <=> Uses(x, v)
  <2>1. << x, "recommend", v >> \in Calls \ {h} BY <1>8 DEF Calls
  <2>2. QED BY <1>1, <1>3, <1>7, <1>8, <2>1 DEF Uses, Called, TypeOK
<1>9. ASSUME NEW v \in Workers PROVE Uses(c, v)' <=> v = w
  <2>1. pc'[c] = "recommend" BY <1>1, <1>3 DEF TypeOK
  <2>2. CASE v = w BY <1>7, <2>1, <2>2 DEF Uses, Called
  <2>3. CASE v # w
    <3>1. << c, "recommend", v >> \in Calls \ {h} BY <2>3 DEF Calls
    <3>2. QED BY <1>5, <1>7, <2>3, <3>1 DEF Uses, Called
  <2>4. QED BY <2>2, <2>3
<1>10. AskedInv'
  <2>1. ASSUME NEW x \in Clients, pc'[x] = "cache", NEW k \in Of(x, "cache")
        PROVE  Called(k)'
    <3>1. pc[x] = "cache" BY <1>1, <1>3, <2>1 DEF TypeOK
    <3>2. k \in Calls /\ k[2] = "cache" BY <2>1, OfIs
    <3>3. QED BY <1>2, <1>7, <2>1, <3>1, <3>2 DEF GoInv, AskedInv, Called
  <2>2. ASSUME NEW x \in Clients, pc'[x] = "recommend" PROVE \E v \in Workers : Uses(x, v)'
    <3>1. CASE x = c BY <1>9, <3>1
    <3>2. CASE x # c
      <4>1. pc[x] = "recommend" BY <1>1, <1>3, <2>2, <3>2 DEF TypeOK
      <4>2. QED BY <1>8, <3>2, <4>1 DEF GoInv, AskedInv
    <3>3. QED BY <3>1, <3>2
  <2>3. ASSUME NEW x \in Clients, NEW u \in Workers, NEW v \in Workers, Uses(x, u)', Uses(x, v)'
        PROVE  u = v
    <3>1. CASE x = c BY <1>9, <2>3, <3>1
    <3>2. CASE x # c BY <1>8, <2>3, <3>2 DEF GoInv, AskedInv
    <3>3. QED BY <3>1, <3>2
  <2>4. ASSUME NEW v \in Workers, v \notin avail' PROVE \E x \in Clients : Uses(x, v)'
    <3>1. CASE v = w BY <1>9, <3>1
    <3>2. CASE v # w
      <4>1. v \notin avail BY <1>3, <2>4, <3>2
      <4>2. PICK x \in Clients : Uses(x, v) BY <4>1 DEF GoInv, AskedInv
      <4>3. x # c BY <1>3, <4>2 DEF Uses
      <4>4. QED BY <1>8, <4>2, <4>3
    <3>3. QED BY <3>1, <3>2
  <2>5. QED BY <2>1, <2>2, <2>3, <2>4 DEF AskedInv
<1>11. QED BY <1>7, <1>10 DEF GoInv


LEMMA GoReleases ==
    ASSUME IInv, GoInv, NEW c \in Clients, NEW w \in Workers, RecommendEnds(c, w) PROVE GoInv'
<1> DEFINE h == << c, "recommend", w >>
<1>1. TypeOK BY DEF IInv
<1>2. h \in Calls /\ h[1] = c /\ h[2] = "recommend" BY DEF Calls
<1>3. /\ pc[c] = "recommend" /\ call[h].st \in {"answered", "timeout"} /\ Forget({h})
      /\ avail' = avail \cup {w} /\ UNCHANGED << taskQ, busy, resQ >>
  BY DEF RecommendEnds, workerVars
<1>4. pc' = [pc EXCEPT ![c] = "done"] \/ pc' = [pc EXCEPT ![c] = "failed"]
  BY DEF RecommendEnds, Outcome
<1>5. OwedInv' /\ HeldInv' /\ \A k \in Calls \ {h} : call'[k] = call[k]
  BY <1>3, GoForgets DEF GoInv
<1>6. Uses(c, w) BY <1>3 DEF Uses, Called
<1>7. ASSUME NEW x \in Clients, x # c
      PROVE  /\ pc'[x] = pc[x]
             /\ \A v \in Workers : Uses(x, v)' <=> Uses(x, v)
  <2>1. pc'[x] = pc[x] BY <1>1, <1>4, <1>7 DEF TypeOK
  <2>2. \A v \in Workers : << x, "recommend", v >> \in Calls \ {h} BY <1>7 DEF Calls
  <2>3. QED BY <1>5, <2>1, <2>2 DEF Uses, Called
<1>8. pc'[c] \notin {"cache", "recommend"} BY <1>1, <1>4 DEF TypeOK
<1>9. AskedInv'
  <2>1. ASSUME NEW x \in Clients, pc'[x] = "cache", NEW k \in Of(x, "cache")
        PROVE  Called(k)'
    <3>1. x # c /\ pc[x] = "cache" BY <1>7, <1>8, <2>1
    <3>2. k \in Calls /\ k[2] = "cache" BY <2>1, OfIs
    <3>3. QED BY <1>2, <1>5, <2>1, <3>1, <3>2 DEF GoInv, AskedInv, Called
  <2>2. ASSUME NEW x \in Clients, pc'[x] = "recommend" PROVE \E v \in Workers : Uses(x, v)'
    BY <1>7, <1>8, <2>2 DEF GoInv, AskedInv
  <2>3. ASSUME NEW x \in Clients, NEW u \in Workers, NEW v \in Workers, Uses(x, u)', Uses(x, v)'
        PROVE  u = v
    <3>1. x # c BY <1>8, <2>3 DEF Uses
    <3>2. QED BY <1>7, <2>3, <3>1 DEF GoInv, AskedInv
  <2>4. ASSUME NEW v \in Workers, v \notin avail' PROVE \E x \in Clients : Uses(x, v)'
    <3>1. v \notin avail /\ v # w BY <1>3, <2>4
    <3>2. PICK x \in Clients : Uses(x, v) BY <3>1 DEF GoInv, AskedInv
    <3>3. x # c BY <1>6, <3>1, <3>2 DEF GoInv, AskedInv
    <3>4. QED BY <1>7, <3>2, <3>3
  <2>5. QED BY <2>1, <2>2, <2>3, <2>4 DEF AskedInv
<1>10. QED BY <1>5, <1>9 DEF GoInv

\* A step that makes and ends no call of a recommendation and leaves the requests.
LEMMA GoOn ==
    ASSUME AskedInv, UNCHANGED << pc, avail >>,
           \A k \in Calls : call'[k].st = "new" <=> call[k].st = "new"
    PROVE  AskedInv'
<1>1. \A c \in Clients : \A k \in Of(c, "cache") : k \in Calls BY OfIs
<1>2. \A c \in Clients : pc'[c] = "cache" => \A k \in Of(c, "cache") : call'[k].st # "new"
  BY <1>1 DEF AskedInv, Called
<1>3. QED BY <1>2, AskedStays

LEMMA GoGets ==
    ASSUME IInv, GoInv, NEW k \in Calls, Get(k) PROVE GoInv'
<1>1. TypeOK /\ Once(getters) BY DEF IInv, MadeInv
<1>2. PICK w, s, a, c : w = At(k) /\ s = resQ[w] /\ a = Head(s) /\ c = call[k] OBVIOUS
<1>3. /\ w \in Workers /\ s \in Seq(Results) /\ s # << >> /\ c \in CallRec
      /\ resQ \in [Workers -> Seq(Results)] /\ call \in [Calls -> CallRec]
      /\ getters \in Seq(Calls) /\ Els(getters) \subseteq Calls
  BY <1>1, <1>2, CallParts, ElsIn DEF Get, TypeOK, CallRec
<1>4. Len(s) \in Nat \ {0} /\ Len(Tail(s)) = Len(s) - 1 BY <1>3, TailIs
<1>5. /\ resQ' = [resQ EXCEPT ![w] = Tail(s)] /\ c.live
      /\ UNCHANGED << pc, avail, taskQ, busy >>
  BY <1>2 DEF Get, clientVars, workerVars
<1>6. Els(getters') = Els(getters) \ {k} BY <1>1, <1>3, RemoveFirstIs DEF Get, Without
<1>7. k \in Els(getters) BY <1>1, RunningIs DEF Get
<1>8. /\ \A j \in Calls \ {k} : call'[j] = call[j]
      /\ call'[k].live = c.live /\ call'[k].st # "waiting"
      /\ call'[k].st = "new" <=> c.st = "new"
  <2>1. CASE c.st = "waiting"
    <3>1. PICK d : d = [c EXCEPT !.st = "answered", !.got = a] OBVIOUS
    <3>2. call' = [call EXCEPT ![k] = d] BY <1>2, <2>1, <3>1 DEF Get
    <3>3. d.st = "answered" /\ d.live = c.live BY <1>3, <3>1 DEF CallRec
    <3>4. QED BY <1>3, <2>1, <3>2, <3>3
  <2>2. CASE c.st # "waiting" BY <1>2, <2>2 DEF Get
  <2>3. QED BY <2>1, <2>2
<1>9. HeldInv' BY <1>6, <1>8 DEF GoInv, HeldInv, Waiting
<1>10. ASSUME NEW x \in Workers
       PROVE  IsFiniteSet(Live(x)') /\ Cardinality(Live(x)') <= Load(x)'
  <2>1. Live(x)' = Live(x) \ {k} BY <1>2, <1>3, <1>6, <1>8 DEF Live
  <2>2. IsFiniteSet(Live(x)) /\ Cardinality(Live(x)) <= Load(x) BY DEF GoInv, OwedInv
  <2>3. CASE x = w
    <3>1. k \in Live(w) BY <1>2, <1>5, <1>7 DEF Live
    <3>2. IsFiniteSet(Live(w)') /\ Cardinality(Live(w)') = Cardinality(Live(w)) - 1
      BY <2>1, <2>2, <2>3, <3>1, FS_RemoveElement
    <3>3. PICK b, m, n, t : /\ b = Cardinality(Live(w)) /\ m = Len(s) /\ n = Len(taskQ[w])
                            /\ t = (IF busy[w].at # "idle" THEN 1 ELSE 0)
      OBVIOUS
    <3>4. b \in Nat /\ m \in Nat /\ n \in Nat /\ t \in Nat
      BY <1>1, <1>3, <1>4, <2>2, <2>3, <3>3, FS_CardinalityType, LoadIs
    <3>5. Load(w) = m + n + t BY <1>1, <1>2, <1>3, <3>3, LoadIs
    <3>6. Load(w)' = (m - 1) + n + t
      <4>1. resQ'[w] = Tail(s) BY <1>3, <1>5
      <4>2. QED BY <1>4, <1>5, <3>3, <4>1 DEF Load, Working
    <3>7. b <= m + n + t BY <2>2, <2>3, <3>3, <3>5
    <3>8. b - 1 <= (m - 1) + n + t BY <3>4, <3>7
    <3>9. QED BY <2>3, <3>2, <3>3, <3>6, <3>8
  <2>4. CASE x # w
    <3>1. k \notin Live(x) BY <1>2, <2>4 DEF Live
    <3>2. Live(x)' = Live(x) BY <2>1, <3>1
    <3>3. resQ'[x] = resQ[x] BY <1>3, <1>5, <2>4
    <3>4. Load(x)' = Load(x) BY <1>5, <3>3 DEF Load, Working
    <3>5. QED BY <2>2, <3>2, <3>4
  <2>5. QED BY <2>3, <2>4
<1>11. OwedInv' BY <1>10 DEF OwedInv
<1>12. AskedInv'
  <2>1. \A j \in Calls : call'[j].st = "new" <=> call[j].st = "new" BY <1>2, <1>8
  <2>2. QED BY <1>5, <2>1, GoOn DEF GoInv
<1>13. QED BY <1>9, <1>11, <1>12 DEF GoInv

LEMMA GoGivesUp ==
    ASSUME IInv, GoInv, NEW k \in Calls, Timeout(k) PROVE GoInv'
<1>1. TypeOK /\ Once(getters) BY DEF IInv, MadeInv
<1>2. PICK c, d : c = call[k] /\ d = [c EXCEPT !.st = "timeout"] OBVIOUS
<1>3. /\ c \in CallRec /\ call \in [Calls -> CallRec]
      /\ getters \in Seq(Calls) /\ Els(getters) \subseteq Calls
  BY <1>1, <1>2, ElsIn DEF TypeOK, CallRec
<1>4. /\ c.st = "waiting" /\ call' = [call EXCEPT ![k] = d]
      /\ UNCHANGED << pc, avail, taskQ, busy, resQ >>
  BY <1>2 DEF Timeout, GivesUp, clientVars, workerVars
<1>5. d.st = "timeout" /\ d.live = c.live BY <1>2, <1>3 DEF CallRec
<1>6. /\ \A j \in Calls \ {k} : call'[j] = call[j]
      /\ call'[k].live = c.live /\ call'[k].st = "timeout"
  BY <1>3, <1>4, <1>5
<1>7. Els(getters') = Els(getters) \/ Els(getters') = Els(getters) \ {k}
  BY <1>1, <1>3, RemoveFirstIs DEF Timeout, GivesUp, Without
<1>8. HeldInv' BY <1>6, <1>7 DEF GoInv, HeldInv, Waiting
<1>9. OwedInv'
  <2>1. \A w \in Workers : Load(w)' = Load(w) BY <1>4 DEF Load, Working
  <2>2. \A j \in Els(getters) : call'[j].live <=> call[j].live BY <1>2, <1>3, <1>6
  <2>3. Els(getters') \subseteq Els(getters) BY <1>7
  <2>4. QED BY <1>1, <2>1, <2>2, <2>3, OwedStays DEF GoInv
<1>10. AskedInv'
  <2>1. \A j \in Calls : call'[j].st = "new" <=> call[j].st = "new" BY <1>2, <1>4, <1>6
  <2>2. QED BY <1>4, <2>1, GoOn DEF GoInv
<1>11. QED BY <1>8, <1>9, <1>10 DEF GoInv

\* A step that leaves the calls and requests, and the work of each worker.
LEMMA GoStays ==
    ASSUME IInv, GoInv, UNCHANGED << pc, avail, call, getters >>,
           \A w \in Workers : Load(w)' = Load(w)
    PROVE  GoInv'
<1>1. TypeOK BY DEF IInv
<1>2. OwedInv' BY <1>1, OwedStays DEF GoInv
<1>3. AskedInv' BY GoOn DEF GoInv
<1>4. QED BY <1>2, <1>3 DEF GoInv, HeldInv, Waiting

LEMMA GoWorks ==
    ASSUME IInv, GoInv, NEW w \in Workers, WorkerStep(w) PROVE GoInv'
<1>1. WorkerMoves(w)
  BY CacheTaskKeeps, BeginLoadKeeps, SkipLoadKeeps, EndLoadKeeps, LoadFailsKeeps, FinishKeeps
  DEF WorkerStep
<1>2. \A x \in Workers : Load(x)' = Load(x) BY <1>1 DEF WorkerMoves, Load, Working
<1>3. QED BY <1>1, <1>2, GoStays DEF WorkerMoves

LEMMA GoStarts == Init => GoInv
<1> SUFFICES ASSUME Init PROVE GoInv OBVIOUS
<1>1. Els(getters) = {} BY NoEls DEF Init
<1>2. \A k \in Calls : call[k].st = "new" BY DEF Init, NoCall
<1>3. OwedInv
  <2>1. ASSUME NEW w \in Workers PROVE IsFiniteSet(Live(w)) /\ Cardinality(Live(w)) <= Load(w)
    <3>1. Live(w) = {} BY <1>1 DEF Live
    <3>2. IsFiniteSet(Live(w)) /\ Cardinality(Live(w)) = 0 BY <3>1, FS_EmptySet
    <3>3. Load(w) \in Nat BY InitHolds, LoadsAre DEF IInv
    <3>4. QED BY <3>2, <3>3
  <2>2. QED BY <2>1 DEF OwedInv
<1>4. HeldInv BY <1>2 DEF HeldInv, Waiting
<1>5. AskedInv
  <2>1. avail = Workers /\ \A c \in Clients : pc[c] = "idle" BY DEF Init
  <2>2. QED BY <2>1 DEF AskedInv, Uses
<1>6. QED BY <1>3, <1>4, <1>5 DEF GoInv

LEMMA GoKept == IInv /\ GoInv /\ [Next]_vars => GoInv'
<1> SUFFICES ASSUME IInv, GoInv, [Next]_vars PROVE GoInv' OBVIOUS
<1>1. ASSUME NEW c \in Clients, CacheUserdata(c) PROVE GoInv' BY <1>1, GoSends
<1>2. ASSUME NEW c \in Clients, CacheEnds(c) PROVE GoInv' BY <1>2, GoAnswered
<1>3. ASSUME NEW c \in Clients, NEW w \in Workers, Recommend(c, w) PROVE GoInv'
  BY <1>3, GoRecommends
<1>4. ASSUME NEW c \in Clients, NEW w \in Workers, RecommendEnds(c, w) PROVE GoInv'
  BY <1>4, GoReleases
<1>5. ASSUME NEW k \in Calls, Get(k) PROVE GoInv' BY <1>5, GoGets
<1>6. ASSUME NEW k \in Calls, Timeout(k) PROVE GoInv' BY <1>6, GoGivesUp
<1>7. CASE Probe \/ BeginWrite \/ WriteFails \/ UNCHANGED vars
  <2>1. UNCHANGED << pc, avail, call, getters, taskQ, resQ, busy >>
    BY <1>7 DEF Probe, BeginWrite, WriteFails, vars, clientVars, callVars, workerVars
  <2>2. \A w \in Workers : Load(w)' = Load(w) BY <2>1 DEF Load, Working
  <2>3. QED BY <2>1, <2>2, GoStays
<1>8. CASE EndWrite BY <1>8, GoEndWrites
<1>9. CASE RefreshEnds BY <1>9, GoRefreshed
<1>10. ASSUME NEW w \in Workers, WorkerStep(w) PROVE GoInv' BY <1>10, GoWorks
<1>11. ASSUME NEW c \in Clients, ClientStep(c) PROVE GoInv'
  BY <1>2, <1>3, <1>4, <1>11 DEF ClientStep
<1>12. CASE Progress
  BY <1>5, <1>6, <1>7, <1>8, <1>9, <1>10, <1>11, <1>12 DEF Progress, UploadStep
<1>13. QED BY <1>1, <1>6, <1>7, <1>12 DEF Next

\* A wait that is not given up has a result before it, or work of its worker.
LEMMA NoneWaits ==
    ASSUME IInv, GoInv, ~ CanGoOn
    PROVE  Waiting = {}
<1>1. TypeOK BY DEF IInv
<1>2. \A w \in Workers : ~ Working(w) /\ taskQ[w] = << >> BY DEF CanGoOn, Working
<1>3. LoopFree BY DEF CanGoOn, LoopFree
<1>4. \A j \in Running : ~ call[j].live
  <2>1. SUFFICES ASSUME NEW j \in Running, call[j].live PROVE FALSE OBVIOUS
  <2>2. j \in Els(getters) /\ j \in Calls BY <1>1, RunningIs, ElsIn DEF TypeOK
  <2>3. PICK w \in Workers : w = At(j) BY <2>2, CallParts
  <2>4. j \in Live(w) BY <2>1, <2>2, <2>3 DEF Live
  <2>5. IsFiniteSet(Live(w)) /\ Cardinality(Live(w)) <= Load(w) BY DEF GoInv, OwedInv
  <2>6. Cardinality(Live(w)) \in Nat \ {0} BY <2>4, <2>5, FS_EmptySet, FS_CardinalityType
  <2>7. resQ[w] = << >> BY <2>1, <2>3 DEF CanGoOn
  <2>8. Len(<< >>) = 0 BY NoEls
  <2>9. Load(w) = 0
    <3>1. Load(w) = Len(resQ[w]) + Len(taskQ[w]) + 0 BY <1>2 DEF Load
    <3>2. Len(resQ[w]) = 0 /\ Len(taskQ[w]) = 0 BY <1>2, <2>7, <2>8
    <3>3. QED BY <3>1, <3>2
  <2>10. QED BY <2>5, <2>6, <2>9
<1>5. SUFFICES ASSUME NEW k \in Waiting PROVE FALSE OBVIOUS
<1>6. Stuck(k) BY <1>4 DEF Stuck
<1>7. QED BY <1>3, <1>5, <1>6 DEF CanGoOn

\* When nothing goes on by itself no request is under way, whatever workers and threads
\* are lost (worker.py:271-298, deck.py): getters and results of each queue are balanced
\* (OwedInv), and a request waits for calls it has made or for a worker in use (AskedInv).
THEOREM DeckGoesOn == Spec => []GoesOnOrEnded
<1>1. IInv /\ GoInv => GoesOnOrEnded
  <2> SUFFICES ASSUME IInv, GoInv, ~ CanGoOn, NEW c \in Clients
               PROVE  pc[c] \in {"idle", "done", "failed"}
    BY DEF GoesOnOrEnded
  <2>1. TypeOK /\ LoopFree /\ Waiting = {} BY NoneWaits DEF IInv, CanGoOn, LoopFree
  <2>2. \A x \in Clients : ~ ClientCanGoOn(x) BY <2>1 DEF CanGoOn
  <2>3. \A k \in Calls : Called(k) => call[k].st \in {"answered", "timeout"}
    BY <2>1 DEF TypeOK, Waiting, Called
  <2>4. \A x \in Clients : pc[x] # "recommend"
    <3>1. SUFFICES ASSUME NEW x \in Clients, pc[x] = "recommend" PROVE FALSE OBVIOUS
    <3>2. PICK w \in Workers : Uses(x, w) BY <3>1 DEF GoInv, AskedInv
    <3>3. << x, "recommend", w >> \in Calls BY DEF Calls
    <3>4. ClientCanGoOn(x) BY <2>3, <3>2, <3>3 DEF Uses, ClientCanGoOn
    <3>5. QED BY <2>2, <3>4
  <2>5. pc[c] # "acquire"
    <3>1. avail = Workers BY <2>1, <2>4 DEF TypeOK, GoInv, AskedInv, Uses
    <3>2. avail # {} BY <3>1, DeckAssumption
    <3>3. QED BY <2>2, <3>2 DEF ClientCanGoOn
  <2>6. pc[c] # "cache"
    <3>1. SUFFICES ASSUME pc[c] = "cache" PROVE FALSE OBVIOUS
    <3>2. \A k \in Of(c, "cache") : Called(k) /\ k \in Calls BY <3>1, OfIs DEF GoInv, AskedInv
    <3>3. \A k \in Of(c, "cache") : call[k].st \in {"answered", "timeout"} BY <2>3, <3>2
    <3>4. Over(Of(c, "cache")) BY <3>3 DEF Over, Failed, Answered
    <3>5. QED BY <2>2, <3>1, <3>4 DEF ClientCanGoOn
  <2>7. QED BY <2>1, <2>4, <2>5, <2>6 DEF TypeOK
<1>2. Spec => []GoInv BY InitHolds, NextKeeps, GoStarts, GoKept, PTL DEF Spec
<1>3. QED BY <1>1, <1>2, Invariant, PTL
================================================================================
