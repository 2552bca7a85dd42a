------------------------- MODULE UpstreamSessionProofs -------------------------
(***************************************************************************)
(* Theorems about UpstreamSession for any handlers, writers and frames:    *)
(* what holds however sessions overlap, and what holds when they do not.   *)
(***************************************************************************)
EXTENDS UpstreamSession, SequenceTheorems, TLAPS

-----------------------------------------------------------------------------
(* The inductive invariant, whatever is allowed. *)

\* The same frame of the same connection.
Same(f, g) == f[1] = g[1] /\ f[2] = g[2]

\* A frame was processed.
Logged(f) == \E i \in 1..Len(log[f[1]]) : log[f[1]][i] = f[2]

\* A frame in a hand, in a channel or processed was read before.
FrameInv ==
    /\ \A h \in Handlers :
          /\ pc[h] = "push" => hand[h] \in Frames /\ hand[h][2] <= taken[hand[h][1]]
          /\ \A i \in 1..Len(readChan[h]) : readChan[h][i][2] <= taken[readChan[h][i][1]]
    /\ \A c \in Handlers : \A i \in 1..Len(log[c]) : log[c][i] <= taken[c]

\* It is in one place only.
ApartInv ==
    /\ \A h, g \in Handlers :
          pc[h] = "push" /\ pc[g] = "push" /\ Same(hand[h], hand[g]) => h = g
    /\ \A h, g \in Handlers : pc[h] = "push" =>
          /\ ~ Logged(hand[h])
          /\ \A i \in 1..Len(readChan[g]) : ~ Same(hand[h], readChan[g][i])
    /\ \A h, g \in Handlers : \A i \in 1..Len(readChan[h]), j \in 1..Len(readChan[g]) :
          Same(readChan[h][i], readChan[g][j]) => h = g /\ i = j
    /\ \A h \in Handlers : \A i \in 1..Len(readChan[h]) : ~ Logged(readChan[h][i])
    /\ \A c \in Handlers : \A i, j \in 1..Len(log[c]) : log[c][i] = log[c][j] => i = j

\* A command waits in one queue or was executed, once it was processed.
TaskInv ==
    /\ \A q \in Queues : \A i \in 1..Len(tasks[q]) :
          Logged(tasks[q][i]) /\ executed[tasks[q][i]] = 0
    /\ \A q, r \in Queues : \A i \in 1..Len(tasks[q]), j \in 1..Len(tasks[r]) :
          tasks[q][i] = tasks[r][j] => q = r /\ i = j
    /\ \A f \in Frames : executed[f] = 0 \/ (executed[f] = 1 /\ Logged(f))

IInv == TypeOK /\ FrameInv /\ ApartInv /\ TaskInv

-----------------------------------------------------------------------------
(* Sequences. *)

LEMMA AppendIs ==
    ASSUME NEW S, NEW s \in Seq(S), NEW e \in S
    PROVE  /\ Append(s, e) \in Seq(S) /\ Len(s) \in Nat /\ Len(Append(s, e)) = Len(s) + 1
           /\ \A i \in 1..Len(s) : Append(s, e)[i] = s[i]
           /\ Append(s, e)[Len(s) + 1] = e
BY AppendProperties, LenProperties

LEMMA TailIs ==
    ASSUME NEW S, NEW s \in Seq(S), s # << >>
    PROVE  /\ Tail(s) \in Seq(S) /\ Len(s) \in Nat \ {0} /\ Len(Tail(s)) = Len(s) - 1
           /\ \A i \in 1..(Len(s) - 1) : Tail(s)[i] = s[i + 1]
           /\ Head(s) = s[1] /\ s[1] \in S
<1>1. Len(s) \in Nat \ {0} BY EmptySeq, LenProperties
<1>2. QED BY <1>1, HeadTailProperties, ElementOfSeq

\* A frame of connection c, and its parts.
LEMMA FrameParts ==
    ASSUME NEW f \in Frames
    PROVE  f[1] \in Handlers /\ f[2] \in 1..MaxFrames /\ f[2] \in Nat /\ f[3] \in Kinds
BY SessionAssumption DEF Frames

\* What the elements of the channels, logs and queues are.
LEMMA Elements ==
    ASSUME TypeOK
    PROVE  /\ \A h \in Handlers : /\ Len(readChan[h]) \in Nat
                                  /\ \A i \in 1..Len(readChan[h]) : readChan[h][i] \in Frames
           /\ \A c \in Handlers : /\ Len(log[c]) \in Nat
                                  /\ \A i \in 1..Len(log[c]) : log[c][i] \in 1..MaxFrames
           /\ \A q \in Queues : /\ Len(tasks[q]) \in Nat
                                /\ \A i \in 1..Len(tasks[q]) : tasks[q][i] \in Frames
<1>1. /\ readChan \in [Handlers -> Seq(Frames)] /\ log \in [Handlers -> Seq(1..MaxFrames)]
      /\ tasks \in [Queues -> Seq(Frames)]
  BY DEF TypeOK
<1>2. \A h \in Handlers : /\ Len(readChan[h]) \in Nat
                          /\ \A i \in 1..Len(readChan[h]) : readChan[h][i] \in Frames
  BY <1>1, ElementOfSeq, LenProperties
<1>3. \A c \in Handlers : /\ Len(log[c]) \in Nat
                          /\ \A i \in 1..Len(log[c]) : log[c][i] \in 1..MaxFrames
  BY <1>1, ElementOfSeq, LenProperties
<1>4. \A q \in Queues : /\ Len(tasks[q]) \in Nat
                        /\ \A i \in 1..Len(tasks[q]) : tasks[q][i] \in Frames
  BY <1>1, ElementOfSeq, LenProperties
<1>5. QED BY <1>2, <1>3, <1>4

-----------------------------------------------------------------------------
(* Steps that leave the frames alone. *)

\* No handler reads a frame or hands one on.
Quiet ==
    /\ UNCHANGED << hand, taken, readChan, log, tasks, executed >>
    /\ \A h \in Handlers : pc'[h] = "push" <=> pc[h] = "push"

LEMMA QuietKeeps == ASSUME FrameInv, ApartInv, TaskInv, Quiet PROVE FrameInv' /\ ApartInv' /\ TaskInv'
<1>1. \A f : Logged(f)' <=> Logged(f) BY DEF Quiet, Logged
<1>2. FrameInv' BY DEF FrameInv, Quiet
<1>3. ApartInv' BY <1>1 DEF ApartInv, Quiet, Same
<1>4. TaskInv' BY <1>1 DEF TaskInv, Quiet
<1>5. QED BY <1>2, <1>3, <1>4

\* The steps of the connection that are quiet.
LEMMA ConnectionTypes ==
    ASSUME TypeOK, NEW h \in Handlers,
           \/ Connect(h) \/ Evict(h) \/ OldIsGone(h) \/ ForceReset(h) \/ Upgrade(h) \/ Assign(h)
           \/ Setup(h) \/ MakeQueue(h) \/ Fetch(h) \/ ReadError(h)
           \/ CloseCancel(h) \/ CloseDrop(h) \/ DropQueue(h) \/ HangUp(h) \/ CloseChans(h)
           \/ ClientCloses(h)
    PROVE  TypeOK' /\ Quiet
<1> USE DEF connVars, workVars, writeVars
<1>1. CASE Connect(h)
  <2>1. TypeOK' BY <1>1 DEF TypeOK, Connect, Goto, Accepting
  <2>2. Quiet BY <1>1 DEF TypeOK, Connect, Goto, Quiet
  <2>3. QED BY <2>1, <2>2
<1>2. CASE Evict(h)
  <2>1. TypeOK' BY <1>2 DEF TypeOK, Evict, Goto, Accepting
  <2>2. Quiet BY <1>2 DEF TypeOK, Evict, Goto, Quiet
  <2>3. QED BY <2>1, <2>2
<1>3. CASE OldIsGone(h)
  <2>1. TypeOK' BY <1>3 DEF TypeOK, OldIsGone, Goto, Accepting
  <2>2. Quiet BY <1>3 DEF TypeOK, OldIsGone, Goto, Quiet
  <2>3. QED BY <2>1, <2>2
<1>4. CASE ForceReset(h)
  <2>1. TypeOK' BY <1>4 DEF TypeOK, ForceReset, Goto, Accepting
  <2>2. Quiet BY <1>4 DEF TypeOK, ForceReset, Goto, Quiet
  <2>3. QED BY <2>1, <2>2
<1>5. CASE Upgrade(h)
  <2>1. TypeOK' BY <1>5 DEF TypeOK, Upgrade, Goto, Accepting
  <2>2. Quiet BY <1>5 DEF TypeOK, Upgrade, Goto, Quiet
  <2>3. QED BY <2>1, <2>2
<1>6. CASE Assign(h)
  <2>1. TypeOK' BY <1>6 DEF TypeOK, Assign, Goto, Accepting
  <2>2. Quiet BY <1>6 DEF TypeOK, Assign, Goto, Quiet
  <2>3. QED BY <2>1, <2>2
<1>7. CASE Setup(h)
  <2>1. TypeOK' BY <1>7 DEF TypeOK, Setup, Begin, Goto, Reading, Accepting
  <2>2. Quiet BY <1>7 DEF TypeOK, Setup, Begin, Goto, Quiet
  <2>3. QED BY <2>1, <2>2
<1>8. CASE Fetch(h)
  <2>1. TypeOK' BY <1>8 DEF TypeOK, Fetch, Goto, Reading, Closing
  <2>2. Quiet BY <1>8 DEF TypeOK, Fetch, Goto, Quiet
  <2>3. QED BY <2>1, <2>2
<1>9. CASE ReadError(h)
  <2>1. TypeOK' BY <1>9 DEF TypeOK, ReadError, Goto, Closing
  <2>2. Quiet BY <1>9 DEF TypeOK, ReadError, Goto, Quiet
  <2>3. QED BY <2>1, <2>2
<1>10. CASE CloseCancel(h)
  <2>1. TypeOK' BY <1>10 DEF TypeOK, CloseCancel, Goto, Closing
  <2>2. Quiet BY <1>10 DEF TypeOK, CloseCancel, Goto, Quiet
  <2>3. QED BY <2>1, <2>2
<1>11. CASE CloseDrop(h)
  <2>1. TypeOK' BY <1>11 DEF TypeOK, CloseDrop, Goto, Closing
  <2>2. Quiet BY <1>11 DEF TypeOK, CloseDrop, Goto, Quiet
  <2>3. QED BY <2>1, <2>2
<1>12. CASE CloseChans(h)
  <2>1. TypeOK' BY <1>12 DEF TypeOK, CloseChans, Goto
  <2>2. Quiet BY <1>12 DEF TypeOK, CloseChans, Goto, Quiet
  <2>3. QED BY <2>1, <2>2
<1>13. CASE ClientCloses(h)
  <2>1. TypeOK' BY <1>13 DEF TypeOK, ClientCloses
  <2>2. Quiet BY <1>13 DEF TypeOK, ClientCloses, Quiet
  <2>3. QED BY <2>1, <2>2
<1>14. CASE MakeQueue(h)
  <2>1. << h, "handler" >> \in Queues BY DEF Queues
  <2>2. TypeOK' BY <1>14, <2>1 DEF TypeOK, MakeQueue, Begin, Goto, Reading
  <2>3. Quiet BY <1>14 DEF TypeOK, MakeQueue, Begin, Goto, Quiet
  <2>4. QED BY <2>2, <2>3
<1>15. CASE DropQueue(h)
  <2>1. TypeOK' BY <1>15 DEF TypeOK, DropQueue, Goto, Closing
  <2>2. Quiet BY <1>15 DEF TypeOK, DropQueue, Goto, Quiet
  <2>3. QED BY <2>1, <2>2
<1>16. CASE HangUp(h)
  <2>1. TypeOK' BY <1>16 DEF TypeOK, HangUp, Goto, Closing
  <2>2. Quiet BY <1>16 DEF TypeOK, HangUp, Goto, Quiet
  <2>3. QED BY <2>1, <2>2
<1>17. QED BY <1>1, <1>2, <1>3, <1>4, <1>5, <1>6, <1>7, <1>8, <1>9, <1>10, <1>11, <1>12, <1>13,
              <1>14, <1>15, <1>16

\* The steps of a readLoop that process no frame.
LoopStep(h) == StartReadLoop(h) \/ ReaderMakesQueue(h) \/ FindQueue(h)

\* So are those of writers and these.
LEMMA WriterTypes ==
    ASSUME TypeOK, \/ \E w \in Writers : WriterStep(w)
                   \/ \E h \in Handlers : writeLoop(h) \/ LoopStep(h)
                   \/ UNCHANGED vars
    PROVE  TypeOK' /\ Quiet
<1> USE DEF connVars, workVars, writeVars
<1>1. Depth \in Nat /\ MaxWrites \in Nat BY SessionAssumption
<1>2. ASSUME NEW w \in Writers, CheckConn(w) PROVE TypeOK' /\ Quiet
  <2>1. writes' \in 0..MaxWrites BY <1>1, <1>2 DEF TypeOK, CheckConn
  <2>2. TypeOK' BY <1>2, <2>1 DEF TypeOK, CheckConn
  <2>3. Quiet BY <1>2 DEF CheckConn, Quiet
  <2>4. QED BY <2>2, <2>3
<1>3. ASSUME NEW w \in Writers, PickChan(w) PROVE TypeOK' /\ Quiet
  <2>1. TypeOK' BY <1>3 DEF TypeOK, PickChan
  <2>2. Quiet BY <1>3 DEF PickChan, Quiet
  <2>3. QED BY <2>1, <2>2
<1>4. ASSUME NEW w \in Writers, Send(w) PROVE TypeOK' /\ Quiet
  <2>1. out' \in [Handlers -> 0..Depth]
    <3>1. out \in [Handlers -> 0..Depth] BY DEF TypeOK
    <3>2. CASE out' = out BY <3>1, <3>2
    <3>3. CASE out[at[w]] < Depth /\ out' = [out EXCEPT ![at[w]] = @ + 1]
      <4>1. at[w] \in Handlers BY <1>4 DEF Send
      <4>2. out[at[w]] + 1 \in 0..Depth BY <1>1, <3>1, <3>3, <4>1
      <4>3. QED BY <3>1, <3>3, <4>2
    <3>4. QED BY <1>4, <3>2, <3>3 DEF Send
  <2>2. at' \in [Writers -> {"idle", "checked", "blocked"} \cup Handlers] /\ crashed' \in BOOLEAN
    BY <1>4 DEF TypeOK, Send
  <2>3. TypeOK' BY <1>4, <2>1, <2>2 DEF TypeOK, Send
  <2>4. Quiet BY <1>4 DEF Send, Quiet
  <2>5. QED BY <2>3, <2>4
<1>5. ASSUME NEW h \in Handlers, writeLoop(h) PROVE TypeOK' /\ Quiet
  <2>1. out' \in [Handlers -> 0..Depth] BY <1>1, <1>5 DEF TypeOK, writeLoop
  <2>2. crashed' \in BOOLEAN BY <1>5 DEF writeLoop
  <2>3. TypeOK' BY <1>5, <2>1, <2>2 DEF TypeOK, writeLoop
  <2>4. Quiet BY <1>5 DEF writeLoop, Quiet
  <2>5. QED BY <2>3, <2>4
<1>6. ASSUME NEW h \in Handlers, StartReadLoop(h) PROVE TypeOK' /\ Quiet
  <2>1. TypeOK' BY <1>6 DEF TypeOK, StartReadLoop
  <2>2. Quiet BY <1>6 DEF StartReadLoop, Quiet
  <2>3. QED BY <2>1, <2>2
<1>7. CASE UNCHANGED vars
  <2>1. TypeOK' BY <1>7 DEF TypeOK, vars
  <2>2. Quiet BY <1>7 DEF Quiet, vars
  <2>3. QED BY <2>1, <2>2
<1>8. ASSUME NEW h \in Handlers, ReaderMakesQueue(h) PROVE TypeOK' /\ Quiet
  <2>1. << h, "readLoop" >> \in Queues BY DEF Queues
  <2>2. TypeOK' BY <1>8, <2>1 DEF TypeOK, ReaderMakesQueue
  <2>3. Quiet BY <1>8 DEF ReaderMakesQueue, Quiet
  <2>4. QED BY <2>2, <2>3
<1>9. ASSUME NEW h \in Handlers, FindQueue(h) PROVE TypeOK' /\ Quiet
  <2>1. TypeOK' BY <1>9 DEF TypeOK, FindQueue
  <2>2. Quiet BY <1>9 DEF FindQueue, Quiet
  <2>3. QED BY <2>1, <2>2
<1>10. QED BY <1>2, <1>3, <1>4, <1>5, <1>6, <1>7, <1>8, <1>9 DEF WriterStep, LoopStep

-----------------------------------------------------------------------------
(* Steps of a frame. *)

\* A new frame is read: all others of the connection were read before it.
LEMMA ReadMessageKeeps ==
    ASSUME IInv, NEW h \in Handlers, ReadMessage(h)
    PROVE  IInv'
<1> USE DEF connVars, workVars, writeVars
<1>1. TypeOK /\ FrameInv /\ ApartInv /\ TaskInv BY DEF IInv
<1>2. PICK kind \in Kinds :
          hand' = [hand EXCEPT ![h] = << target[h], taken[target[h]] + 1, kind >>]
  BY DEF ReadMessage
<1>3. PICK c, n, f : c = target[h] /\ n = taken[target[h]] + 1 /\ f = << c, n, kind >> OBVIOUS
<1>4. /\ pc[h] = "blocked" /\ c \in Handlers /\ taken[c] < MaxFrames
      /\ pc' = [pc EXCEPT ![h] = "push"] /\ taken' = [taken EXCEPT ![c] = @ + 1]
      /\ hand' = [hand EXCEPT ![h] = f]
      /\ UNCHANGED << Conn, writeChan, open, target, overtaken, readChan, reader, tasks, commandQueue,
                      log, executed, out, at, writes, crashed >>
  BY <1>1, <1>2, <1>3 DEF TypeOK, ReadMessage, Goto
<1>5. /\ taken \in [Handlers -> 0..MaxFrames] /\ MaxFrames \in Nat /\ DOMAIN pc = Handlers
      /\ DOMAIN hand = Handlers
  BY <1>1, SessionAssumption DEF TypeOK
<1>6. n \in 1..MaxFrames /\ n \in Nat /\ taken[c] \in Nat /\ n = taken[c] + 1 BY <1>3, <1>4, <1>5
<1>7. f \in Frames /\ f[1] = c /\ f[2] = n BY <1>3, <1>4, <1>6 DEF Frames
<1>8. /\ taken' \in [Handlers -> 0..MaxFrames] /\ taken'[c] = n
      /\ \A d \in Handlers : taken[d] \in Nat /\ taken'[d] \in Nat /\ taken[d] <= taken'[d]
  BY <1>4, <1>5, <1>6
<1>9. TypeOK'
  <2>1. hand' \in [Handlers -> Frames \cup {None}] BY <1>1, <1>4, <1>7 DEF TypeOK
  <2>2. pc' \in [Handlers -> {"new", "refused", "done"} \cup Accepting \cup Reading \cup Closing]
    BY <1>1, <1>4 DEF TypeOK, Reading
  <2>3. QED BY <1>1, <1>4, <1>8, <2>1, <2>2 DEF TypeOK
<1>10. /\ hand'[h] = f /\ pc'[h] = "push"
       /\ \A g \in Handlers \ {h} : hand'[g] = hand[g] /\ pc'[g] = pc[g]
  BY <1>4, <1>5
<1>11. FrameInv'
  <2>1. ASSUME NEW g \in Handlers, pc'[g] = "push"
        PROVE  hand'[g] \in Frames /\ hand'[g][2] <= taken'[hand'[g][1]]
    <3>1. CASE g = h BY <1>6, <1>7, <1>8, <1>10, <3>1
    <3>2. CASE g # h
      <4>1. PICK e : e = hand[g] OBVIOUS
      <4>2. hand'[g] = e /\ e \in Frames /\ e[2] <= taken[e[1]]
        BY <1>1, <1>10, <2>1, <3>2, <4>1 DEF FrameInv
      <4>3. e[1] \in Handlers /\ e[2] \in Nat BY <4>2, FrameParts
      <4>4. QED BY <1>8, <4>2, <4>3
    <3>3. QED BY <3>1, <3>2
  <2>2. ASSUME NEW g \in Handlers, NEW i \in 1..Len(readChan[g])
        PROVE  readChan[g][i][2] <= taken'[readChan[g][i][1]]
    <3>1. PICK e : e = readChan[g][i] OBVIOUS
    <3>2. e \in Frames /\ e[2] <= taken[e[1]] BY <1>1, <3>1, Elements DEF FrameInv
    <3>3. e[1] \in Handlers /\ e[2] \in Nat BY <3>2, FrameParts
    <3>4. QED BY <1>8, <3>1, <3>2, <3>3
  <2>3. ASSUME NEW d \in Handlers, NEW i \in 1..Len(log[d]) PROVE log[d][i] <= taken'[d]
    <3>1. log[d][i] <= taken[d] BY <1>1 DEF FrameInv
    <3>2. log[d][i] \in 1..MaxFrames BY <1>1, Elements
    <3>3. QED BY <1>5, <1>8, <3>1, <3>2
  <2>4. QED BY <1>4, <2>1, <2>2, <2>3 DEF FrameInv
<1>12. \A e \in Frames : e[2] <= taken[e[1]] => ~ Same(f, e) /\ ~ Same(e, f)
  <2>1. SUFFICES ASSUME NEW e \in Frames, e[2] <= taken[e[1]], e[1] = c, e[2] = n PROVE FALSE
    BY <1>7 DEF Same
  <2>2. QED BY <1>6, <2>1
<1>13. \A e : Logged(e)' <=> Logged(e) BY <1>4 DEF Logged
<1>14. ~ Logged(f)
  <2>1. SUFFICES ASSUME NEW i \in 1..Len(log[c]), log[c][i] = n PROVE FALSE BY <1>7 DEF Logged
  <2>2. log[c][i] <= taken[c] BY <1>1, <1>4 DEF FrameInv
  <2>3. QED BY <1>6, <2>1, <2>2
<1>15. ApartInv'
  <2>1. ASSUME NEW g \in Handlers, g # h, pc'[g] = "push"
        PROVE  /\ ~ Same(hand'[h], hand'[g]) /\ ~ Same(hand'[g], hand'[h])
               /\ hand'[g] = hand[g] /\ pc[g] = "push"
    <3>1. pc[g] = "push" /\ hand'[g] = hand[g] BY <1>10, <2>1
    <3>2. hand[g] \in Frames /\ hand[g][2] <= taken[hand[g][1]] BY <1>1, <3>1 DEF FrameInv
    <3>3. QED BY <1>10, <1>12, <3>1, <3>2
  <2>2. \A g, k \in Handlers : pc'[g] = "push" /\ pc'[k] = "push" /\ Same(hand'[g], hand'[k]) => g = k
    BY <1>1, <2>1 DEF ApartInv
  <2>3. \A g \in Handlers : \A i \in 1..Len(readChan[g]) : ~ Same(f, readChan[g][i])
    BY <1>1, <1>12, Elements DEF FrameInv
  <2>4. ASSUME NEW g \in Handlers, NEW k \in Handlers, pc'[g] = "push"
        PROVE  /\ \A e : e = hand'[g] => ~ Logged(e)
               /\ \A i \in 1..Len(readChan[k]) : ~ Same(hand'[g], readChan[k][i])
    BY <1>1, <1>10, <1>14, <2>1, <2>3, <2>4 DEF ApartInv
  <2>5. \A g, k \in Handlers : pc'[g] = "push" =>
            /\ \A e : e = hand'[g] => ~ Logged(e)'
            /\ \A i \in 1..Len(readChan[k]) : ~ Same(hand'[g], readChan[k][i])
    BY <1>13, <2>4
  <2>6. /\ \A g, k \in Handlers : \A i \in 1..Len(readChan[g]), j \in 1..Len(readChan[k]) :
              Same(readChan[g][i], readChan[k][j]) => g = k /\ i = j
        /\ \A g \in Handlers : \A i \in 1..Len(readChan[g]) : \A e : e = readChan[g][i] => ~ Logged(e)'
        /\ \A d \in Handlers : \A i, j \in 1..Len(log[d]) : log[d][i] = log[d][j] => i = j
    BY <1>1, <1>13 DEF ApartInv
  <2>7. QED BY <1>4, <2>2, <2>5, <2>6 DEF ApartInv, Same
<1>16. TaskInv' BY <1>1, <1>4, <1>13 DEF TaskInv
<1>17. QED BY <1>9, <1>11, <1>15, <1>16 DEF IInv

\* The frame goes from the hand into the channel.
LEMMA PushKeeps ==
    ASSUME IInv, NEW h \in Handlers, Push(h)
    PROVE  IInv'
<1> USE DEF connVars, workVars, writeVars
<1>1. TypeOK /\ FrameInv /\ ApartInv /\ TaskInv BY DEF IInv
<1>2. PICK f, s, m : f = hand[h] /\ s = readChan[h] /\ m = Len(readChan[h]) OBVIOUS
<1>3. /\ pc[h] = "push" /\ m < Depth /\ pc' = [pc EXCEPT ![h] = "fetch"]
      /\ readChan' = [readChan EXCEPT ![h] = Append(s, f)]
      /\ hand' = [hand EXCEPT ![h] = None] /\ target' = [target EXCEPT ![h] = None]
      /\ UNCHANGED << Conn, writeChan, open, taken, overtaken, reader, tasks, commandQueue, log,
                      executed, out, at, writes, crashed >>
  BY <1>2 DEF Push, Goto
<1>4. /\ f \in Frames /\ f[2] <= taken[f[1]] /\ ~ Logged(f)
      /\ \A g \in Handlers : \A i \in 1..Len(readChan[g]) :
             ~ Same(f, readChan[g][i]) /\ ~ Same(readChan[g][i], f)
  BY <1>1, <1>2, <1>3 DEF FrameInv, ApartInv, Same
<1>5. /\ readChan \in [Handlers -> Seq(Frames)] /\ DOMAIN pc = Handlers /\ DOMAIN hand = Handlers
      /\ s \in Seq(Frames)
  BY <1>1, <1>2 DEF TypeOK
<1>6. PICK t : t = Append(s, f) OBVIOUS
<1>7. /\ t \in Seq(Frames) /\ m \in Nat /\ Len(t) = m + 1 /\ \A i \in 1..m : t[i] = s[i]
      /\ t[m + 1] = f
  BY <1>2, <1>4, <1>5, <1>6, AppendIs
<1>8. /\ readChan' = [readChan EXCEPT ![h] = t]
      /\ readChan'[h] = t /\ \A g \in Handlers \ {h} : readChan'[g] = readChan[g]
  BY <1>3, <1>5, <1>6
<1>9. TypeOK'
  <2>1. readChan' \in [Handlers -> Seq(Frames)] BY <1>5, <1>7, <1>8
  <2>2. \A g \in Handlers : Len(readChan'[g]) <= Depth
    <3>1. Len(t) <= Depth BY <1>3, <1>7, SessionAssumption
    <3>2. QED BY <1>1, <1>8, <3>1 DEF TypeOK
  <2>3. pc' \in [Handlers -> {"new", "refused", "done"} \cup Accepting \cup Reading \cup Closing]
    BY <1>1, <1>3 DEF TypeOK, Reading
  <2>4. /\ hand' \in [Handlers -> Frames \cup {None}] /\ target' \in [Handlers -> Handlers \cup {None}]
    BY <1>1, <1>3 DEF TypeOK
  <2>5. QED BY <1>1, <1>3, <2>1, <2>2, <2>3, <2>4 DEF TypeOK
<1>10. /\ pc'[h] = "fetch"
       /\ \A g \in Handlers \ {h} : hand'[g] = hand[g] /\ pc'[g] = pc[g]
  BY <1>3, <1>5
\* What is in a channel now was there, or is the frame.
<1>11. ASSUME NEW g \in Handlers, NEW i \in 1..Len(readChan'[g])
       PROVE  \/ i \in 1..Len(readChan[g]) /\ readChan'[g][i] = readChan[g][i]
              \/ g = h /\ i = m + 1 /\ readChan'[g][i] = f
  <2>1. CASE g = h BY <1>2, <1>7, <1>8, <2>1
  <2>2. CASE g # h BY <1>8, <2>2
  <2>3. QED BY <2>1, <2>2
<1>12. FrameInv'
  <2>1. \A g \in Handlers : pc'[g] = "push" => hand'[g] \in Frames /\ hand'[g][2] <= taken[hand'[g][1]]
    BY <1>1, <1>10 DEF FrameInv
  <2>2. \A g \in Handlers : \A i \in 1..Len(readChan'[g]) :
            readChan'[g][i][2] <= taken[readChan'[g][i][1]]
    BY <1>1, <1>4, <1>11 DEF FrameInv
  <2>3. QED BY <1>1, <1>3, <2>1, <2>2 DEF FrameInv
<1>13. \A e : Logged(e)' <=> Logged(e) BY <1>3 DEF Logged
<1>14. ApartInv'
  <2>1. \A g \in Handlers : pc'[g] = "push" => g # h /\ pc[g] = "push" /\ hand'[g] = hand[g] BY <1>10
  <2>2. \A g \in Handlers : pc'[g] = "push" => ~ Same(hand'[g], f)
    BY <1>1, <1>2, <1>3, <2>1 DEF ApartInv
  <2>3. \A g, k \in Handlers : pc'[g] = "push" /\ pc'[k] = "push" /\ Same(hand'[g], hand'[k]) => g = k
    BY <1>1, <2>1 DEF ApartInv
  <2>4. \A g, k \in Handlers : pc'[g] = "push" =>
            /\ \A e : e = hand'[g] => ~ Logged(e)'
            /\ \A i \in 1..Len(readChan'[k]) : ~ Same(hand'[g], readChan'[k][i])
    BY <1>1, <1>11, <1>13, <2>1, <2>2 DEF ApartInv
  <2>5. ASSUME NEW g \in Handlers, NEW k \in Handlers, NEW i \in 1..Len(readChan'[g]),
               NEW j \in 1..Len(readChan'[k]), Same(readChan'[g][i], readChan'[k][j])
        PROVE  g = k /\ i = j
    <3>1. \/ i \in 1..Len(readChan[g]) /\ readChan'[g][i] = readChan[g][i]
          \/ g = h /\ i = m + 1 /\ readChan'[g][i] = f
      BY <1>11
    <3>2. \/ j \in 1..Len(readChan[k]) /\ readChan'[k][j] = readChan[k][j]
          \/ k = h /\ j = m + 1 /\ readChan'[k][j] = f
      BY <1>11
    <3>3. QED BY <1>1, <1>4, <2>5, <3>1, <3>2 DEF ApartInv
  <2>6. \A g \in Handlers : \A i \in 1..Len(readChan'[g]) : \A e : e = readChan'[g][i] => ~ Logged(e)'
    BY <1>1, <1>4, <1>11, <1>13 DEF ApartInv
  <2>7. \A c \in Handlers : \A i, j \in 1..Len(log'[c]) : log'[c][i] = log'[c][j] => i = j
    BY <1>1, <1>3 DEF ApartInv
  <2>8. \A g, k \in Handlers : \A i \in 1..Len(readChan'[g]), j \in 1..Len(readChan'[k]) :
            Same(readChan'[g][i], readChan'[k][j]) => g = k /\ i = j
    BY <2>5
  <2>9. QED BY <2>3, <2>4, <2>6, <2>7, <2>8 DEF ApartInv, Same
<1>15. TaskInv' BY <1>1, <1>3, <1>13 DEF TaskInv
<1>16. QED BY <1>9, <1>12, <1>14, <1>15 DEF IInv

\* What becomes of a command: it is executed at once, waits in the queue, or is dropped.
Handled(f) ==
    \/ commandQueue = None /\ Execute(f) /\ UNCHANGED tasks
    \/ /\ commandQueue # None /\ Len(tasks[commandQueue]) < Depth
       /\ tasks' = [tasks EXCEPT ![commandQueue] = Append(@, f)] /\ UNCHANGED executed
    \/ UNCHANGED << executed, tasks >>

\* The readLoop of h processes a frame, in ProcessFrame or EnqueueCommand.
Processing(h) ==
    /\ reader[h] \in {"run", "send"} /\ reader' = [reader EXCEPT ![h] = "run"]
    /\ Processed(h)
    /\ Handled(Head(readChan[h]))
    /\ UNCHANGED << Conn, writeChan, open, pc, target, hand, taken, overtaken, commandQueue,
                    out, at, writes, crashed >>

LEMMA ProcessingIs ==
    ASSUME TypeOK, NEW h \in Handlers, ProcessFrame(h) \/ EnqueueCommand(h)
    PROVE  Processing(h)
<1> USE DEF connVars, writeVars
<1>1. CASE ProcessFrame(h)
  <2>1. reader[h] = "run" /\ reader' = reader /\ reader = [reader EXCEPT ![h] = "run"]
    BY <1>1 DEF ProcessFrame, TypeOK
  <2>2. Handled(Head(readChan[h])) BY <1>1 DEF ProcessFrame, Handled
  <2>3. QED BY <1>1, <2>1, <2>2 DEF ProcessFrame, Processing
<1>2. CASE EnqueueCommand(h)
  <2>1. Handled(Head(readChan[h])) BY <1>2 DEF EnqueueCommand, enqueueMatchedCommand, Handled
  <2>2. QED BY <1>2, <2>1 DEF EnqueueCommand, Processing
<1>3. QED BY <1>1, <1>2

\* Commands that wait or were executed were processed, before or just now; and the one
\* that was processed just now, f, did not wait nor was it executed.
LEMMA EnqueueKeeps ==
    ASSUME TypeOK, TaskInv, NEW f \in Frames, ~ Logged(f), Handled(f),
           \A e \in Frames : Logged(e) => Logged(e)', Logged(f)'
    PROVE  /\ tasks' \in [Queues -> Seq(Frames)] /\ \A q \in Queues : Len(tasks'[q]) <= Depth
           /\ executed' \in [Frames -> Nat]
           /\ TaskInv'
<1>1. /\ tasks \in [Queues -> Seq(Frames)] /\ \A q \in Queues : Len(tasks[q]) <= Depth
      /\ executed \in [Frames -> Nat] /\ commandQueue \in Queues \cup {None} /\ Depth \in Nat
  BY SessionAssumption DEF TypeOK
<1>2. /\ executed[f] = 0
      /\ \A q \in Queues : \A i \in 1..Len(tasks[q]) : tasks[q][i] # f
  BY DEF TaskInv
<1>3. \A q \in Queues : \A i \in 1..Len(tasks[q]) : tasks[q][i] \in Frames BY Elements
<1>4. CASE Execute(f) /\ UNCHANGED tasks
  <2>1. /\ executed' = [executed EXCEPT ![f] = 1] /\ tasks' = tasks
        /\ executed'[f] = 1 /\ \A e \in Frames \ {f} : executed'[e] = executed[e]
    BY <1>1, <1>2, <1>4 DEF Execute
  <2>2. executed' \in [Frames -> Nat] BY <1>1, <2>1
  <2>3. \A q \in Queues : \A i \in 1..Len(tasks[q]) :
            \A e : e = tasks[q][i] => Logged(e)' /\ executed'[e] = 0
    BY <1>2, <1>3, <2>1 DEF TaskInv
  <2>4. \A e \in Frames : executed'[e] = 0 \/ (executed'[e] = 1 /\ Logged(e)') BY <2>1 DEF TaskInv
  <2>5. \A q, r \in Queues : \A i \in 1..Len(tasks[q]), j \in 1..Len(tasks[r]) :
            tasks[q][i] = tasks[r][j] => q = r /\ i = j
    BY DEF TaskInv
  <2>6. TaskInv' BY <2>1, <2>3, <2>4, <2>5 DEF TaskInv
  <2>7. QED BY <1>1, <2>1, <2>2, <2>6
<1>5. CASE /\ commandQueue # None /\ Len(tasks[commandQueue]) < Depth
           /\ tasks' = [tasks EXCEPT ![commandQueue] = Append(@, f)] /\ UNCHANGED executed
  <2>1. PICK q, s, m, t : /\ q = commandQueue /\ s = tasks[q] /\ m = Len(s) /\ t = Append(s, f) OBVIOUS
  <2>2. q \in Queues /\ s \in Seq(Frames) /\ m < Depth BY <1>1, <1>5, <2>1
  <2>3. t \in Seq(Frames) /\ m \in Nat /\ Len(t) = m + 1 /\
        (\A i \in 1..m : t[i] = s[i]) /\ t[m + 1] = f
    BY <2>1, <2>2, AppendIs
  <2>4. /\ tasks' = [tasks EXCEPT ![q] = t] /\ tasks'[q] = t /\ executed' = executed
        /\ \A r \in Queues \ {q} : tasks'[r] = tasks[r]
    BY <1>1, <1>5, <2>1, <2>2
  <2>5. tasks' \in [Queues -> Seq(Frames)] BY <1>1, <2>3, <2>4
  <2>6. \A r \in Queues : Len(tasks'[r]) <= Depth
    <3>1. Len(t) <= Depth BY <1>1, <2>2, <2>3
    <3>2. QED BY <1>1, <2>4, <3>1
  <2>7. ASSUME NEW r \in Queues, NEW i \in 1..Len(tasks'[r])
        PROVE  \/ i \in 1..Len(tasks[r]) /\ tasks'[r][i] = tasks[r][i]
               \/ r = q /\ i = m + 1 /\ tasks'[r][i] = f
    <3>1. CASE r = q BY <2>1, <2>3, <2>4, <3>1
    <3>2. CASE r # q BY <2>4, <3>2
    <3>3. QED BY <3>1, <3>2
  <2>8. \A r \in Queues : \A i \in 1..Len(tasks'[r]) :
            \A e : e = tasks'[r][i] => Logged(e)' /\ executed[e] = 0
    BY <1>2, <1>3, <2>7 DEF TaskInv
  <2>9. ASSUME NEW r \in Queues, NEW u \in Queues, NEW i \in 1..Len(tasks'[r]),
               NEW j \in 1..Len(tasks'[u]), tasks'[r][i] = tasks'[u][j]
        PROVE  r = u /\ i = j
    <3>1. \/ i \in 1..Len(tasks[r]) /\ tasks'[r][i] = tasks[r][i]
          \/ r = q /\ i = m + 1 /\ tasks'[r][i] = f
      BY <2>7
    <3>2. \/ j \in 1..Len(tasks[u]) /\ tasks'[u][j] = tasks[u][j]
          \/ u = q /\ j = m + 1 /\ tasks'[u][j] = f
      BY <2>7
    <3>3. QED BY <1>2, <2>9, <3>1, <3>2 DEF TaskInv
  <2>10. \A e \in Frames : executed[e] = 0 \/ (executed[e] = 1 /\ Logged(e)') BY DEF TaskInv
  <2>11. \A r, u \in Queues : \A i \in 1..Len(tasks'[r]), j \in 1..Len(tasks'[u]) :
            tasks'[r][i] = tasks'[u][j] => r = u /\ i = j
    BY <2>9
  <2>12. TaskInv' BY <2>4, <2>8, <2>10, <2>11 DEF TaskInv
  <2>13. QED BY <1>1, <2>4, <2>5, <2>6, <2>12
<1>6. CASE UNCHANGED << executed, tasks >>
  <2>1. \A q \in Queues : \A i \in 1..Len(tasks[q]) :
            \A e : e = tasks[q][i] => Logged(e)' /\ executed[e] = 0
    BY <1>3 DEF TaskInv
  <2>2. \A e \in Frames : executed[e] = 0 \/ (executed[e] = 1 /\ Logged(e)') BY DEF TaskInv
  <2>3. \A q, r \in Queues : \A i \in 1..Len(tasks[q]), j \in 1..Len(tasks[r]) :
            tasks[q][i] = tasks[r][j] => q = r /\ i = j
    BY DEF TaskInv
  <2>4. TaskInv' BY <1>6, <2>1, <2>2, <2>3 DEF TaskInv
  <2>5. QED BY <1>1, <1>6, <2>4
<1>7. QED BY <1>4, <1>5, <1>6 DEF Handled

\* The frame goes from the channel into the log; a command is queued, executed or refused.
LEMMA ProcessKeeps ==
    ASSUME IInv, NEW h \in Handlers, Processing(h)
    PROVE  IInv'
<1>1. TypeOK /\ FrameInv /\ ApartInv /\ TaskInv BY DEF IInv
<1>2. PICK s, f, c, t, l : /\ s = readChan[h] /\ f = s[1] /\ c = f[1] /\ t = Tail(s)
                           /\ l = Append(log[c], f[2])
  OBVIOUS
<1>3. /\ s \in Seq(Frames) /\ s # << >> /\ readChan \in [Handlers -> Seq(Frames)]
      /\ log \in [Handlers -> Seq(1..MaxFrames)]
  BY <1>1, <1>2 DEF TypeOK, Processing, Processed
<1>4. /\ t \in Seq(Frames) /\ Len(s) \in Nat \ {0} /\ Len(t) = Len(s) - 1
      /\ \A i \in 1..(Len(s) - 1) : t[i] = s[i + 1]
      /\ Head(s) = f /\ f \in Frames
  <2>1. /\ Tail(s) \in Seq(Frames) /\ Len(s) \in Nat \ {0} /\ Len(Tail(s)) = Len(s) - 1
        /\ \A i \in 1..(Len(s) - 1) : Tail(s)[i] = s[i + 1]
        /\ Head(s) = s[1] /\ s[1] \in Frames
    BY <1>3, TailIs
  <2>2. QED BY <1>2, <2>1
<1>5. c \in Handlers /\ f[2] \in 1..MaxFrames /\ f[2] \in Nat BY <1>2, <1>4, FrameParts
<1>6. /\ l \in Seq(1..MaxFrames) /\ Len(log[c]) \in Nat /\ Len(l) = Len(log[c]) + 1
      /\ \A i \in 1..Len(log[c]) : l[i] = log[c][i]
      /\ l[Len(log[c]) + 1] = f[2]
  BY <1>2, <1>3, <1>5, AppendIs
<1>7. /\ log' = [log EXCEPT ![c] = l] /\ readChan' = [readChan EXCEPT ![h] = t]
      /\ Handled(f) /\ reader' = [reader EXCEPT ![h] = "run"]
      /\ UNCHANGED << Conn, writeChan, open, pc, target, hand, taken, overtaken, commandQueue,
                      out, at, writes, crashed >>
  BY <1>2, <1>4 DEF Processing, Processed
<1>8. /\ log'[c] = l /\ \A d \in Handlers \ {c} : log'[d] = log[d]
      /\ readChan'[h] = t /\ \A g \in Handlers \ {h} : readChan'[g] = readChan[g]
  BY <1>3, <1>5, <1>7
\* What is in a channel now was there, one place further up if it is this channel.
<1>9. ASSUME NEW g \in Handlers, NEW i \in 1..Len(readChan'[g])
      PROVE  \E j \in 1..Len(readChan[g]) :
                 /\ readChan'[g][i] = readChan[g][j]
                 /\ j = IF g = h THEN i + 1 ELSE i
  <2>1. CASE g = h
    <3>1. i \in 1..(Len(s) - 1) /\ i + 1 \in 1..Len(s) BY <1>4, <1>8, <2>1
    <3>2. QED BY <1>2, <1>4, <1>8, <2>1, <3>1
  <2>2. CASE g # h BY <1>8, <2>2
  <2>3. QED BY <2>1, <2>2
<1>10. \A e : e[1] \in Handlers => (Logged(e)' <=> Logged(e) \/ Same(e, f))
  <2>1. SUFFICES ASSUME NEW e, e[1] \in Handlers PROVE Logged(e)' <=> Logged(e) \/ Same(e, f)
    OBVIOUS
  <2>2. CASE e[1] = c
    <3>1. Logged(e)' <=> \E i \in 1..Len(l) : l[i] = e[2] BY <1>8, <2>2 DEF Logged
    <3>2. Logged(e) <=> \E i \in 1..Len(log[c]) : log[c][i] = e[2] BY <2>2 DEF Logged
    <3>3. Same(e, f) <=> e[2] = f[2] BY <1>2, <2>2 DEF Same
    <3>4. \A i \in 1..Len(l) : i \in 1..Len(log[c]) \/ i = Len(log[c]) + 1 BY <1>6
    <3>5. \A i \in 1..Len(log[c]) : i \in 1..Len(l) BY <1>6
    <3>6. Len(log[c]) + 1 \in 1..Len(l) BY <1>6
    <3>7. QED BY <1>6, <3>1, <3>2, <3>3, <3>4, <3>5, <3>6
  <2>3. CASE e[1] # c BY <1>2, <1>8, <2>1, <2>3 DEF Logged, Same
  <2>4. QED BY <2>2, <2>3
<1>11. /\ 1 \in 1..Len(readChan[h]) /\ readChan[h][1] = f /\ ~ Logged(f) /\ f[2] <= taken[c]
  <2>1. 1 \in 1..Len(readChan[h]) /\ readChan[h][1] = f BY <1>2, <1>4
  <2>2. QED BY <1>1, <1>2, <2>1 DEF ApartInv, FrameInv
<1>12. \A e \in Frames : Logged(e) => Logged(e)' BY <1>10, FrameParts
<1>13. Logged(f)' BY <1>2, <1>5, <1>10 DEF Same
<1>14. /\ tasks' \in [Queues -> Seq(Frames)] /\ \A q \in Queues : Len(tasks'[q]) <= Depth
       /\ executed' \in [Frames -> Nat]
       /\ TaskInv'
  BY <1>1, <1>4, <1>7, <1>11, <1>12, <1>13, EnqueueKeeps
<1>15. TypeOK'
  <2>1. readChan' \in [Handlers -> Seq(Frames)] BY <1>3, <1>4, <1>7
  <2>2. \A g \in Handlers : Len(readChan'[g]) <= Depth
    <3>1. \A g \in Handlers : Len(readChan[g]) <= Depth BY <1>1 DEF TypeOK
    <3>2. Depth \in Nat BY SessionAssumption
    <3>3. Len(s) <= Depth BY <1>2, <3>1
    <3>4. Len(t) <= Depth BY <1>4, <3>2, <3>3
    <3>5. readChan'[h] = t /\ \A g \in Handlers \ {h} : readChan'[g] = readChan[g] BY <1>8
    <3>6. QED BY <3>1, <3>4, <3>5
  <2>3. log' \in [Handlers -> Seq(1..MaxFrames)] BY <1>3, <1>6, <1>7
  <2>4. reader' \in [Handlers -> {"none", "start", "make", "run", "send"}] BY <1>1, <1>7 DEF TypeOK
  <2>5. QED BY <1>1, <1>7, <1>14, <2>1, <2>2, <2>3, <2>4 DEF TypeOK
<1>16. FrameInv'
  <2>1. ASSUME NEW g \in Handlers, NEW i \in 1..Len(readChan'[g])
        PROVE  readChan'[g][i][2] <= taken[readChan'[g][i][1]]
    <3>1. PICK j \in 1..Len(readChan[g]) : readChan'[g][i] = readChan[g][j] BY <1>9
    <3>2. readChan[g][j][2] <= taken[readChan[g][j][1]] BY <1>1 DEF FrameInv
    <3>3. QED BY <3>1, <3>2
  <2>2. ASSUME NEW d \in Handlers, NEW i \in 1..Len(log'[d]) PROVE log'[d][i] <= taken[d]
    <3>1. CASE d = c
      <4>1. i \in 1..Len(log[c]) \/ i = Len(log[c]) + 1 BY <1>6, <1>8, <3>1
      <4>2. \A j \in 1..Len(log[c]) : log[c][j] <= taken[c] BY <1>1, <1>5 DEF FrameInv
      <4>3. QED BY <1>6, <1>8, <1>11, <3>1, <4>1, <4>2
    <3>2. CASE d # c BY <1>1, <1>8, <3>2 DEF FrameInv
    <3>3. QED BY <3>1, <3>2
  <2>3. \A g \in Handlers : pc[g] = "push" => hand[g] \in Frames /\ hand[g][2] <= taken[hand[g][1]]
    BY <1>1 DEF FrameInv
  <2>4. QED BY <1>7, <2>1, <2>2, <2>3 DEF FrameInv
<1>17. ApartInv'
  <2>1. \A g, k \in Handlers : pc[g] = "push" /\ pc[k] = "push" /\ Same(hand[g], hand[k]) => g = k
    BY <1>1 DEF ApartInv
  <2>2. ASSUME NEW g \in Handlers, pc[g] = "push"
        PROVE  \A e : e = hand[g] => ~ Logged(e)'
    <3>1. hand[g] \in Frames /\ ~ Logged(hand[g]) /\ ~ Same(hand[g], f)
      BY <1>1, <1>11, <2>2 DEF ApartInv, FrameInv
    <3>2. QED BY <1>10, <3>1, FrameParts
  <2>3. \A g, k \in Handlers : pc[g] = "push" =>
            \A i \in 1..Len(readChan'[k]) : ~ Same(hand[g], readChan'[k][i])
    BY <1>1, <1>9 DEF ApartInv
  <2>4. ASSUME NEW g \in Handlers, NEW k \in Handlers, NEW i \in 1..Len(readChan'[g]),
               NEW j \in 1..Len(readChan'[k]), Same(readChan'[g][i], readChan'[k][j])
        PROVE  g = k /\ i = j
    <3>1. PICK x \in 1..Len(readChan[g]) :
              readChan'[g][i] = readChan[g][x] /\ x = IF g = h THEN i + 1 ELSE i
      BY <1>9
    <3>2. PICK y \in 1..Len(readChan[k]) :
              readChan'[k][j] = readChan[k][y] /\ y = IF k = h THEN j + 1 ELSE j
      BY <1>9
    <3>3. g = k /\ x = y BY <1>1, <2>4, <3>1, <3>2 DEF ApartInv
    <3>4. i \in Int /\ j \in Int OBVIOUS
    <3>5. QED BY <3>1, <3>2, <3>3, <3>4
  <2>5. ASSUME NEW g \in Handlers, NEW i \in 1..Len(readChan'[g])
        PROVE  \A e : e = readChan'[g][i] => ~ Logged(e)'
    <3>1. PICK x \in 1..Len(readChan[g]) :
              readChan'[g][i] = readChan[g][x] /\ x = IF g = h THEN i + 1 ELSE i
      BY <1>9
    <3>2. PICK e : e = readChan[g][x] OBVIOUS
    <3>3. e \in Frames /\ ~ Logged(e) BY <1>1, <3>2, Elements DEF ApartInv
    <3>4. ~ Same(e, f)
      <4>1. SUFFICES ASSUME Same(e, f) PROVE FALSE OBVIOUS
      <4>2. g = h /\ x = 1 BY <1>1, <1>11, <3>2, <4>1 DEF ApartInv
      <4>3. i >= 1 /\ i \in Int OBVIOUS
      <4>4. QED BY <3>1, <4>2, <4>3
    <3>5. e[1] \in Handlers BY <3>3, FrameParts
    <3>6. QED BY <1>10, <3>1, <3>2, <3>3, <3>4, <3>5
  <2>6. ASSUME NEW d \in Handlers, NEW i \in 1..Len(log'[d]), NEW j \in 1..Len(log'[d]),
               log'[d][i] = log'[d][j]
        PROVE  i = j
    <3>1. CASE d = c
      <4>1. /\ i \in 1..Len(log[c]) \/ i = Len(log[c]) + 1
            /\ j \in 1..Len(log[c]) \/ j = Len(log[c]) + 1
        BY <1>6, <1>8, <3>1
      <4>2. l[i] = l[j] BY <1>8, <2>6, <3>1
      <4>3. \A k \in 1..Len(log[c]) : log[c][k] # f[2] BY <1>2, <1>11 DEF Logged
      <4>4. \A x, y \in 1..Len(log[c]) : log[c][x] = log[c][y] => x = y BY <1>1, <1>5 DEF ApartInv
      <4>5. QED BY <1>6, <4>1, <4>2, <4>3, <4>4
    <3>2. CASE d # c
      <4>1. log'[d] = log[d] BY <1>8, <3>2
      <4>2. QED BY <1>1, <2>6, <4>1 DEF ApartInv
    <3>3. QED BY <3>1, <3>2
  <2>7. \A g, k \in Handlers : \A i \in 1..Len(readChan'[g]), j \in 1..Len(readChan'[k]) :
            Same(readChan'[g][i], readChan'[k][j]) => g = k /\ i = j
    BY <2>4
  <2>8. \A d \in Handlers : \A i, j \in 1..Len(log'[d]) : log'[d][i] = log'[d][j] => i = j BY <2>6
  <2>9. QED BY <1>7, <2>1, <2>2, <2>3, <2>5, <2>7, <2>8 DEF ApartInv, Same
<1>18. QED BY <1>14, <1>15, <1>16, <1>17 DEF IInv

\* A command goes from a queue into execution.
LEMMA WorkerKeeps ==
    ASSUME IInv, NEW q \in Queues, commandWorker(q)
    PROVE  IInv'
<1> USE DEF connVars, writeVars
<1>1. TypeOK /\ FrameInv /\ ApartInv /\ TaskInv BY DEF IInv
<1>2. PICK s, f, t : s = tasks[q] /\ f = s[1] /\ t = Tail(s) OBVIOUS
<1>3. /\ s \in Seq(Frames) /\ s # << >> /\ tasks \in [Queues -> Seq(Frames)]
      /\ executed \in [Frames -> Nat]
  BY <1>1, <1>2 DEF TypeOK, commandWorker
<1>4. /\ t \in Seq(Frames) /\ Len(s) \in Nat \ {0} /\ Len(t) = Len(s) - 1
      /\ \A i \in 1..(Len(s) - 1) : t[i] = s[i + 1]
      /\ Head(s) = f /\ f \in Frames
  <2>1. /\ Tail(s) \in Seq(Frames) /\ Len(s) \in Nat \ {0} /\ Len(Tail(s)) = Len(s) - 1
        /\ \A i \in 1..(Len(s) - 1) : Tail(s)[i] = s[i + 1]
        /\ Head(s) = s[1] /\ s[1] \in Frames
    BY <1>3, TailIs
  <2>2. QED BY <1>2, <2>1
<1>5. 1 \in 1..Len(tasks[q]) /\ tasks[q][1] = f BY <1>2, <1>4
<1>6. executed[f] = 0 /\ Logged(f) BY <1>1, <1>5 DEF TaskInv
<1>7. /\ executed' = [executed EXCEPT ![f] = 1] /\ tasks' = [tasks EXCEPT ![q] = t]
      /\ UNCHANGED << Conn, writeChan, open, pc, target, hand, taken, overtaken, readChan, reader,
                      commandQueue, log, out, at, writes, crashed >>
  <2>1. executed' = [executed EXCEPT ![f] = executed[f] + 1] /\ tasks' = [tasks EXCEPT ![q] = t]
    BY <1>2, <1>4 DEF commandWorker, Execute
  <2>2. executed[f] + 1 = 1 BY <1>6
  <2>3. UNCHANGED << Conn, writeChan, open, pc, target, hand, taken, overtaken, readChan, reader,
                     commandQueue, log, out, at, writes, crashed >>
    BY DEF commandWorker
  <2>4. QED BY <2>1, <2>2, <2>3
<1>8. /\ executed'[f] = 1 /\ \A e \in Frames \ {f} : executed'[e] = executed[e]
      /\ tasks'[q] = t /\ \A r \in Queues \ {q} : tasks'[r] = tasks[r]
  BY <1>3, <1>4, <1>7
<1>9. ASSUME NEW r \in Queues, NEW i \in 1..Len(tasks'[r])
      PROVE  \E j \in 1..Len(tasks[r]) :
                 /\ tasks'[r][i] = tasks[r][j]
                 /\ j = IF r = q THEN i + 1 ELSE i
  <2>1. CASE r = q
    <3>1. i \in 1..(Len(s) - 1) /\ i + 1 \in 1..Len(s) BY <1>4, <1>8, <2>1
    <3>2. QED BY <1>2, <1>4, <1>8, <2>1, <3>1
  <2>2. CASE r # q BY <1>8, <2>2
  <2>3. QED BY <2>1, <2>2
<1>10. \A e : Logged(e)' <=> Logged(e) BY <1>7 DEF Logged
<1>11. TypeOK'
  <2>1. tasks' \in [Queues -> Seq(Frames)] /\ executed' \in [Frames -> Nat] BY <1>3, <1>4, <1>7
  <2>2. \A r \in Queues : Len(tasks'[r]) <= Depth
    <3>1. \A r \in Queues : Len(tasks[r]) <= Depth BY <1>1 DEF TypeOK
    <3>2. Depth \in Nat BY SessionAssumption
    <3>3. Len(s) <= Depth BY <1>2, <3>1
    <3>4. Len(t) <= Depth BY <1>4, <3>2, <3>3
    <3>5. tasks'[q] = t /\ \A r \in Queues \ {q} : tasks'[r] = tasks[r] BY <1>8
    <3>6. QED BY <3>1, <3>4, <3>5
  <2>3. QED BY <1>1, <1>7, <2>1, <2>2 DEF TypeOK
<1>12. FrameInv' BY <1>1, <1>7 DEF FrameInv
<1>13. ApartInv' BY <1>1, <1>7, <1>10 DEF ApartInv, Same
<1>14. \A r, u \in Queues : \A i \in 1..Len(tasks[r]), j \in 1..Len(tasks[u]) :
           tasks[r][i] = tasks[u][j] => r = u /\ i = j
  BY <1>1 DEF TaskInv
<1>15. TaskInv'
  <2>1. ASSUME NEW r \in Queues, NEW i \in 1..Len(tasks'[r])
        PROVE  \A e : e = tasks'[r][i] => Logged(e)' /\ executed'[e] = 0
    <3>1. PICK j \in 1..Len(tasks[r]) :
              tasks'[r][i] = tasks[r][j] /\ j = IF r = q THEN i + 1 ELSE i
      BY <1>9
    <3>2. PICK e : e = tasks[r][j] OBVIOUS
    <3>3. e \in Frames /\ Logged(e) /\ executed[e] = 0 BY <1>1, <3>2, Elements DEF TaskInv
    <3>4. e # f
      <4>1. SUFFICES ASSUME e = f PROVE FALSE OBVIOUS
      <4>2. PICK y \in 1..Len(tasks[q]) : y = 1 /\ tasks[r][j] = tasks[q][y] BY <1>5, <3>2, <4>1
      <4>3. r = q /\ j = y BY <1>14, <4>2, ZenonT(30)
      <4>4. i >= 1 /\ i \in Int OBVIOUS
      <4>5. i + 1 = 1 BY <3>1, <4>2, <4>3
      <4>6. QED BY <4>4, <4>5
    <3>5. QED BY <1>8, <1>10, <3>1, <3>2, <3>3, <3>4
  <2>2. ASSUME NEW r \in Queues, NEW u \in Queues, NEW i \in 1..Len(tasks'[r]),
               NEW j \in 1..Len(tasks'[u]), tasks'[r][i] = tasks'[u][j]
        PROVE  r = u /\ i = j
    <3>1. PICK x \in 1..Len(tasks[r]) :
              tasks'[r][i] = tasks[r][x] /\ x = IF r = q THEN i + 1 ELSE i
      BY <1>9
    <3>2. PICK y \in 1..Len(tasks[u]) :
              tasks'[u][j] = tasks[u][y] /\ y = IF u = q THEN j + 1 ELSE j
      BY <1>9
    <3>3. tasks[r][x] = tasks[u][y] BY <2>2, <3>1, <3>2
    <3>4. r = u /\ x = y BY <1>14, <3>3, Zenon
    <3>5. i \in Int /\ j \in Int OBVIOUS
    <3>6. QED BY <3>1, <3>2, <3>4, <3>5
  <2>3. \A e \in Frames : executed'[e] = 0 \/ (executed'[e] = 1 /\ Logged(e)')
    BY <1>1, <1>6, <1>8, <1>10 DEF TaskInv
  <2>4. \A r, u \in Queues : \A i \in 1..Len(tasks'[r]), j \in 1..Len(tasks'[u]) :
            tasks'[r][i] = tasks'[u][j] => r = u /\ i = j
    BY <2>2
  <2>5. QED BY <2>1, <2>3, <2>4 DEF TaskInv
<1>16. QED BY <1>11, <1>12, <1>13, <1>15 DEF IInv

-----------------------------------------------------------------------------
(* The theorems, whatever is allowed. *)

LEMMA InitHolds == Init => IInv
<1> SUFFICES ASSUME Init PROVE IInv OBVIOUS
<1>1. TypeOK
  <2>1. Depth \in Nat /\ MaxFrames \in Nat /\ MaxWrites \in Nat BY SessionAssumption
  <2>2. /\ taken \in [Handlers -> 0..MaxFrames] /\ out \in [Handlers -> 0..Depth]
        /\ writes \in 0..MaxWrites /\ executed \in [Frames -> Nat]
    BY <2>1 DEF Init
  <2>3. /\ readChan \in [Handlers -> Seq(Frames)] /\ \A h \in Handlers : Len(readChan[h]) <= Depth
        /\ tasks \in [Queues -> Seq(Frames)] /\ \A q \in Queues : Len(tasks[q]) <= Depth
        /\ log \in [Handlers -> Seq(1..MaxFrames)]
    BY <2>1 DEF Init
  <2>4. QED BY <2>2, <2>3 DEF Init, TypeOK
<1>2. /\ \A h \in Handlers : pc[h] = "new" /\ Len(readChan[h]) = 0 /\ Len(log[h]) = 0
      /\ \A q \in Queues : Len(tasks[q]) = 0
      /\ \A f \in Frames : executed[f] = 0
  BY DEF Init
<1>3. FrameInv BY <1>2 DEF FrameInv
<1>4. ApartInv BY <1>2 DEF ApartInv
<1>5. TaskInv BY <1>2 DEF TaskInv
<1>6. QED BY <1>1, <1>3, <1>4, <1>5 DEF IInv

LEMMA NextKeeps == IInv /\ [Next]_vars => IInv'
<1> SUFFICES ASSUME IInv, [Next]_vars PROVE IInv' OBVIOUS
<1>1. TypeOK /\ FrameInv /\ ApartInv /\ TaskInv BY DEF IInv
<1>2. ASSUME TypeOK', Quiet PROVE IInv' BY <1>1, <1>2, QuietKeeps DEF IInv
<1>3. CASE UNCHANGED vars BY <1>1, <1>2, <1>3, WriterTypes
<1>4. ASSUME NEW h \in Handlers, ClientStep(h) PROVE IInv'
  BY <1>1, <1>2, <1>4, ConnectionTypes, ReadMessageKeeps DEF ClientStep
<1>5. ASSUME NEW h \in Handlers, HandlerStep(h) PROVE IInv'
  BY <1>1, <1>2, <1>5, ConnectionTypes, PushKeeps DEF HandlerStep
<1>6. ASSUME NEW h \in Handlers, ReaderStep(h) PROVE IInv'
  BY <1>1, <1>2, <1>6, WriterTypes, ProcessingIs, ProcessKeeps DEF ReaderStep, LoopStep
<1>7. ASSUME NEW h \in Handlers, writeLoop(h) PROVE IInv' BY <1>1, <1>2, <1>7, WriterTypes
<1>8. ASSUME NEW q \in Queues, commandWorker(q) PROVE IInv' BY <1>8, WorkerKeeps
<1>9. ASSUME NEW w \in Writers, WriterStep(w) PROVE IInv' BY <1>1, <1>2, <1>9, WriterTypes
<1>10. QED BY <1>3, <1>4, <1>5, <1>6, <1>7, <1>8, <1>9 DEF Next

\* However sessions overlap, the inductive invariant holds.
THEOREM Invariant == Spec => []IInv
<1>1. QED BY InitHolds, NextKeeps, PTL DEF Spec

\* Types and bounds: no channel, queue or buffer is fuller than its capacity.
THEOREM SessionTypes == Spec => []TypeOK
<1>1. IInv => TypeOK BY DEF IInv
<1>2. QED BY <1>1, Invariant, PTL

\* However sessions overlap, are reset by force or start late, no frame is processed
\* twice, no command is executed twice, and what is executed was processed.
THEOREM FramesOnce == Spec => []ProcessedOnce
<1>1. IInv => ProcessedOnce
  <2> SUFFICES ASSUME IInv PROVE ProcessedOnce OBVIOUS
  <2>1. TypeOK /\ ApartInv /\ TaskInv BY DEF IInv
  <2>2. \A c \in Handlers : DOMAIN log[c] = 1..Len(log[c]) BY <2>1 DEF TypeOK
  <2>3. \A c \in Handlers : \A i, j \in DOMAIN log[c] : log[c][i] = log[c][j] => i = j
    BY <2>1, <2>2 DEF ApartInv
  <2>4. ASSUME NEW f \in Frames, executed[f] > 0
        PROVE  executed[f] = 1 /\ \E i \in DOMAIN log[f[1]] : log[f[1]][i] = f[2]
    <3>1. executed[f] = 1 /\ Logged(f) BY <2>1, <2>4 DEF TaskInv
    <3>2. f[1] \in Handlers BY FrameParts
    <3>3. QED BY <2>2, <3>1, <3>2 DEF Logged
  <2>5. QED BY <2>3, <2>4 DEF ProcessedOnce
<1>2. QED BY <1>1, Invariant, PTL

-----------------------------------------------------------------------------
(* The inductive invariant while sessions follow each other. *)

\* Requests do not overlap, an old handler is gone within the five seconds, and a
\* readLoop starts while its session lives.
Serial == Allow \cap {"overlap", "slow", "late"} = {}

\* The handler of h has the session.
Started     == Reading \cup {"close", "drop"}
InSession(h) == pc[h] \in {"setup", "make"} \/ pc[h] \in Started

\* Whose queue is whose: a session that began while none was dropping its queue has its
\* own, and none drops a queue while it lasts; another has its own or none, once nobody
\* drops a queue; and without a session there is no queue.
OwnQueueInv ==
    /\ \A h \in Handlers : pc[h] \in Started /\ h \notin overtaken => commandQueue = << h, "handler" >>
    /\ \A h \in Handlers : pc[h] \in Started \cup {"make"} /\ h \notin overtaken => ~ Dropping
    /\ \A h \in Handlers : pc[h] \in Started =>
          Dropping \/ commandQueue \in {None, << h, "handler" >>, << h, "readLoop" >>}
    /\ (\A h \in Handlers : pc[h] \notin Started) => Dropping \/ commandQueue = None
    /\ \A h \in Handlers : reader[h] = "make" => h \in overtaken

\* One handler accepts at most, and wss.Conn is the connection of the one that has the
\* session; what others would reach through it is their own.
SerialInv ==
    /\ \A g, h \in Handlers : pc[g] \in Accepting /\ pc[h] \in Accepting => g = h
    /\ \A h \in Handlers : InSession(h) <=> Conn = h
    /\ \A h \in Handlers : pc[h] \in {"upgrade", "assign"} => Conn = None
    /\ \A h \in Handlers : pc[h] \in {"blocked", "push", "drop", "queue", "hangup"} => target[h] = h
    /\ \A h \in Handlers : reader[h] \in {"start", "make"} => pc[h] \in Reading \cup {"close"}
    /\ OwnQueueInv

\* Frames stand in line: those processed, those in the channel, that in the hand.
Held(c) == IF pc[c] = "push" THEN 1 ELSE 0

OrderInv ==
    /\ \A c \in Handlers : pc[c] = "push" => hand[c][1] = c /\ hand[c][2] = taken[c]
    /\ \A c \in Handlers : \A i \in 1..Len(readChan[c]) :
          readChan[c][i][1] = c /\ readChan[c][i][2] = Len(log[c]) + i
    /\ \A c \in Handlers : taken[c] = Len(log[c]) + Len(readChan[c]) + Held(c)

SInv == IInv /\ SerialInv /\ OrderInv

\* A state of the code is one name, and none stands for two.
LEMMA SessionNames ==
    /\ None \notin Handlers
    /\ \A h \in Handlers : << h, "handler" >> # None
    /\ Serial => "overlap" \notin Allow /\ "slow" \notin Allow /\ "late" \notin Allow
BY SessionAssumption DEF Serial

\* The queue stays whose it is where nothing about it changes.
LEMMA OwnQueueStays ==
    ASSUME OwnQueueInv, commandQueue' = commandQueue, overtaken' = overtaken,
           \A h \in Handlers : (reader'[h] = "make" => reader[h] = "make"),
           \A h \in Handlers : /\ (pc'[h] \in Started <=> pc[h] \in Started)
                              /\ (pc'[h] = "make" => pc[h] = "make")
                              /\ (pc'[h] = "queue" <=> pc[h] = "queue")
    PROVE  OwnQueueInv'
<1>1. Dropping' <=> Dropping BY DEF Dropping
<1>2. QED BY <1>1 DEF OwnQueueInv

\* A session finds a queue, or makes its own.
LEMMA SetupSerial ==
    ASSUME TypeOK, SerialInv, NEW h \in Handlers, Setup(h) \/ MakeQueue(h)
    PROVE  OwnQueueInv'
<1>1. DOMAIN pc = Handlers /\ DOMAIN reader = Handlers BY DEF TypeOK
<1>2. /\ OwnQueueInv
      /\ \A g \in Handlers : pc[g] \notin Started
      /\ \A g \in Handlers \ {h} : pc[g] # "make"
      /\ \A g \in Handlers : reader[g] # "make"
  <2>1. OwnQueueInv BY DEF SerialInv
  <2>2. Conn = h BY DEF SerialInv, InSession, Setup, MakeQueue
  <2>3. \A g \in Handlers \ {h} : ~ InSession(g) BY <2>2 DEF SerialInv
  <2>4. pc[h] \notin Started BY DEF Setup, MakeQueue, Started, Reading
  <2>5. \A g \in Handlers : pc[g] \notin Started BY <2>3, <2>4 DEF InSession
  <2>6. \A g \in Handlers : reader[g] # "make" BY <2>5 DEF SerialInv, Started
  <2>7. QED BY <2>1, <2>3, <2>5, <2>6 DEF InSession
<1>3. Dropping \/ commandQueue = None BY <1>2 DEF OwnQueueInv
<1>4. pc[h] # "queue" /\ pc'[h] \in {"make", "fetch"} /\ \A g \in Handlers \ {h} : pc'[g] = pc[g]
  BY <1>1 DEF Setup, MakeQueue, Begin, Goto
<1>5. Dropping' <=> Dropping BY <1>4 DEF Dropping
<1>6. \A g \in Handlers : reader'[g] # "make" BY <1>1, <1>2 DEF Setup, MakeQueue, Begin
<1>7. \A g \in Handlers \ {h} : pc'[g] \notin Started \cup {"make"} BY <1>2, <1>4
<1>8. CASE Setup(h)
  <2>1. /\ commandQueue' = commandQueue
        /\ overtaken' = IF Dropping THEN overtaken \cup {h} ELSE overtaken
        /\ commandQueue = None => pc'[h] = "make"
    BY <1>1, <1>8 DEF Setup, Goto
  <2>2. CASE Dropping
    <3>1. h \in overtaken' BY <2>1, <2>2
    <3>2. QED BY <1>5, <1>6, <1>7, <2>2, <3>1 DEF OwnQueueInv
  <2>3. CASE ~ Dropping
    <3>1. commandQueue' = None /\ pc'[h] = "make" BY <1>3, <2>1, <2>3
    <3>2. pc'[h] \notin Started BY <3>1 DEF Started, Reading
    <3>3. QED BY <1>5, <1>6, <1>7, <2>3, <3>1, <3>2 DEF OwnQueueInv
  <2>4. QED BY <2>2, <2>3
<1>9. CASE MakeQueue(h)
  <2>1. commandQueue' = << h, "handler" >> /\ overtaken' = overtaken /\ pc[h] = "make" /\ pc'[h] = "fetch"
    BY <1>1, <1>9 DEF MakeQueue, Begin, Goto
  <2>2. pc'[h] \in Started BY <2>1 DEF Started, Reading
  <2>3. h \notin overtaken => ~ Dropping BY <1>2, <2>1 DEF OwnQueueInv
  <2>4. QED BY <1>5, <1>6, <1>7, <2>1, <2>2, <2>3 DEF OwnQueueInv
<1>10. QED BY <1>8, <1>9

\* close clears Conn, and then the queue of whoever has one.
LEMMA DropSerial ==
    ASSUME TypeOK, SerialInv, NEW h \in Handlers, CloseDrop(h) \/ DropQueue(h)
    PROVE  OwnQueueInv'
<1>1. DOMAIN pc = Handlers /\ OwnQueueInv /\ reader' = reader /\ overtaken' = overtaken
  BY DEF TypeOK, SerialInv, CloseDrop, DropQueue, workVars
<1>2. CASE CloseDrop(h)
  <2>1. pc[h] = "drop" /\ pc'[h] = "queue" /\ \A g \in Handlers \ {h} : pc'[g] = pc[g]
    BY <1>1, <1>2 DEF CloseDrop, Goto
  <2>2. Conn = h BY <2>1 DEF SerialInv, InSession, Started
  <2>3. \A g \in Handlers \ {h} : ~ InSession(g) BY <2>2 DEF SerialInv
  <2>4. \A g \in Handlers : pc'[g] \notin Started \cup {"make"}
    BY <2>1, <2>3 DEF InSession, Started, Reading
  <2>5. Dropping' BY <2>1 DEF Dropping
  <2>6. QED BY <1>1, <2>4, <2>5 DEF OwnQueueInv
<1>3. CASE DropQueue(h)
  <2>1. /\ pc[h] = "queue" /\ pc'[h] = "hangup" /\ \A g \in Handlers \ {h} : pc'[g] = pc[g]
        /\ commandQueue' = None
    BY <1>1, <1>3 DEF DropQueue, Goto
  <2>2. Dropping BY <2>1 DEF Dropping
  <2>3. \A g \in Handlers : pc'[g] \in Started \cup {"make"} => pc[g] \in Started \cup {"make"}
    BY <2>1 DEF Started, Reading
  <2>4. \A g \in Handlers : pc'[g] \in Started \cup {"make"} => g \in overtaken
    BY <1>1, <2>2, <2>3 DEF OwnQueueInv
  <2>5. QED BY <1>1, <2>1, <2>4 DEF OwnQueueInv
<1>4. QED BY <1>2, <1>3

\* The steps of the connection.
LEMMA ConnectionSerial ==
    ASSUME Serial, TypeOK, SerialInv, NEW h \in Handlers,
           \/ Connect(h) \/ Evict(h) \/ OldIsGone(h) \/ ForceReset(h) \/ Upgrade(h) \/ Assign(h)
           \/ Setup(h) \/ MakeQueue(h) \/ Fetch(h) \/ ReadError(h)
           \/ CloseCancel(h) \/ CloseDrop(h) \/ DropQueue(h) \/ HangUp(h) \/ CloseChans(h)
           \/ ClientCloses(h) \/ ReadMessage(h) \/ Push(h)
    PROVE  SerialInv'
<1> USE SessionNames DEF connVars, workVars, writeVars
<1>1. /\ DOMAIN pc = Handlers /\ DOMAIN target = Handlers /\ DOMAIN reader = Handlers
      /\ Conn \in Handlers \cup {None}
  BY DEF TypeOK
<1>2. OwnQueueInv'
  <2>1. CASE Setup(h) \/ MakeQueue(h) BY <2>1, SetupSerial
  <2>2. CASE CloseDrop(h) \/ DropQueue(h) BY <2>2, DropSerial
  <2>3. CASE ~ (Setup(h) \/ MakeQueue(h)) /\ ~ (CloseDrop(h) \/ DropQueue(h))
    <3>1. /\ commandQueue' = commandQueue /\ overtaken' = overtaken /\ reader' = reader
          /\ \/ pc' = pc
             \/ \E p : Goto(h, p) /\ {pc[h], p} \cap {"make", "queue"} = {}
                       /\ (p \in Started <=> pc[h] \in Started)
      BY <2>3
      DEF Connect, Evict, OldIsGone, ForceReset, Upgrade, Assign, Fetch, ReadError, CloseCancel,
          HangUp, CloseChans, ClientCloses, ReadMessage, Push, Goto, Started, Reading
    <3>2. OwnQueueInv BY DEF SerialInv
    <3>3. \A g \in Handlers : /\ (pc'[g] \in Started <=> pc[g] \in Started)
                              /\ (pc'[g] = "make" => pc[g] = "make")
                              /\ (pc'[g] = "queue" <=> pc[g] = "queue")
      <4>1. CASE pc' = pc BY <4>1
      <4>2. ASSUME NEW p, Goto(h, p), {pc[h], p} \cap {"make", "queue"} = {},
                   p \in Started <=> pc[h] \in Started
            PROVE  \A g \in Handlers : /\ (pc'[g] \in Started <=> pc[g] \in Started)
                                       /\ (pc'[g] = "make" => pc[g] = "make")
                                       /\ (pc'[g] = "queue" <=> pc[g] = "queue")
        <5>1. pc'[h] = p /\ \A g \in Handlers \ {h} : pc'[g] = pc[g] BY <1>1, <4>2 DEF Goto
        <5>2. pc[h] \notin {"make", "queue"} /\ p \notin {"make", "queue"} BY <4>2
        <5>3. QED BY <4>2, <5>1, <5>2
      <4>3. QED BY <3>1, <4>1, <4>2
    <3>4. QED BY <3>1, <3>2, <3>3, OwnQueueStays
  <2>4. QED BY <2>1, <2>2, <2>3
<1>3. /\ (\A g, k \in Handlers : pc[g] \in Accepting /\ pc[k] \in Accepting => g = k)'
      /\ (\A g \in Handlers : InSession(g) <=> Conn = g)'
      /\ (\A g \in Handlers : pc[g] \in {"upgrade", "assign"} => Conn = None)'
      /\ (\A g \in Handlers : pc[g] \in {"blocked", "push", "drop", "queue", "hangup"} => target[g] = g)'
      /\ (\A g \in Handlers : reader[g] \in {"start", "make"} => pc[g] \in Reading \cup {"close"})'
  <2> DEFINE Inv == /\ \A g, k \in Handlers : pc[g] \in Accepting /\ pc[k] \in Accepting => g = k
                    /\ \A g \in Handlers : InSession(g) <=> Conn = g
                    /\ \A g \in Handlers : pc[g] \in {"upgrade", "assign"} => Conn = None
                    /\ \A g \in Handlers :
                          pc[g] \in {"blocked", "push", "drop", "queue", "hangup"} => target[g] = g
                    /\ \A g \in Handlers : reader[g] \in {"start", "make"} => pc[g] \in Reading \cup {"close"}
  <2> SUFFICES Inv' OBVIOUS
  <2>1. Inv BY DEF SerialInv
  <2>2. CASE Connect(h) BY <1>1, <2>1, <2>2 DEF Connect, Goto, InSession, Started, Accepting, Reading
  <2>3. CASE Evict(h) BY <1>1, <2>1, <2>3 DEF Evict, Goto, InSession, Started, Accepting, Reading
  <2>4. CASE OldIsGone(h) BY <1>1, <2>1, <2>4 DEF OldIsGone, Goto, InSession, Started, Accepting, Reading
  <2>5. CASE Upgrade(h) BY <1>1, <2>1, <2>5 DEF Upgrade, Goto, InSession, Started, Accepting, Reading
  <2>6. CASE Assign(h) BY <1>1, <2>1, <2>6 DEF Assign, Goto, InSession, Started, Accepting, Reading
  <2>7. CASE Setup(h) BY <1>1, <2>1, <2>7 DEF Setup, Goto, Begin, InSession, Started, Accepting, Reading
  <2>8. CASE MakeQueue(h) BY <1>1, <2>1, <2>8 DEF MakeQueue, Goto, Begin, InSession, Started, Accepting, Reading
  <2>9. CASE Fetch(h) BY <1>1, <2>1, <2>9 DEF Fetch, Goto, InSession, Started, Accepting, Reading
  <2>10. CASE ReadError(h) BY <1>1, <2>1, <2>10 DEF ReadError, Goto, InSession, Started, Accepting, Reading
  <2>11. CASE CloseCancel(h) BY <1>1, <2>1, <2>11 DEF CloseCancel, Goto, InSession, Started, Accepting, Reading
  <2>12. CASE CloseDrop(h) BY <1>1, <2>1, <2>12 DEF CloseDrop, Goto, InSession, Started, Accepting, Reading
  <2>13. CASE DropQueue(h) BY <1>1, <2>1, <2>13 DEF DropQueue, Goto, InSession, Started, Accepting, Reading
  <2>14. CASE HangUp(h) BY <1>1, <2>1, <2>14 DEF HangUp, Goto, InSession, Started, Accepting, Reading
  <2>15. CASE CloseChans(h) BY <1>1, <2>1, <2>15 DEF CloseChans, Goto, InSession, Started, Accepting, Reading
  <2>16. CASE ClientCloses(h) BY <1>1, <2>1, <2>16 DEF ClientCloses, InSession, Started, Accepting, Reading
  <2>17. CASE ReadMessage(h) BY <1>1, <2>1, <2>17 DEF ReadMessage, Goto, InSession, Started, Accepting, Reading
  <2>18. CASE Push(h) BY <1>1, <2>1, <2>18 DEF Push, Goto, InSession, Started, Accepting, Reading
  <2>19. CASE ForceReset(h) BY <2>19 DEF ForceReset
  <2>20. QED BY <2>2, <2>3, <2>4, <2>5, <2>6, <2>7, <2>8, <2>9, <2>10, <2>11, <2>12, <2>13, <2>14, <2>15, <2>16, <2>17, <2>18, <2>19
<1>4. QED BY <1>2, <1>3 DEF SerialInv

\* Steps of readers, workers and writers: a readLoop that starts finds the queue there, or
\* makes one, of its own.
LEMMA ReaderSerial ==
    ASSUME TypeOK, SerialInv,
           \/ \E h \in Handlers : ReaderStep(h) \/ writeLoop(h)
           \/ \E q \in Queues : commandWorker(q)
           \/ \E w \in Writers : WriterStep(w)
           \/ UNCHANGED vars
    PROVE  SerialInv'
<1> USE DEF connVars, workVars, writeVars
<1>1. ASSUME UNCHANGED << Conn, pc, target, overtaken, reader, commandQueue >> PROVE SerialInv'
  BY <1>1 DEF SerialInv, InSession, OwnQueueInv, Dropping
<1>2. DOMAIN reader = Handlers /\ OwnQueueInv BY DEF TypeOK, SerialInv
<1>3. ASSUME NEW h \in Handlers, NEW r, reader' = [reader EXCEPT ![h] = r],
             r \in {"start", "make"} => reader[h] \in {"start", "make"},
             UNCHANGED << Conn, pc, target, overtaken >>, OwnQueueInv'
      PROVE  SerialInv'
  BY <1>2, <1>3 DEF SerialInv, InSession
<1>4. ASSUME NEW h \in Handlers, StartReadLoop(h) PROVE SerialInv'
  <2>1. /\ reader[h] = "start"
        /\ reader' = [reader EXCEPT ![h] = IF commandQueue = None THEN "make" ELSE "run"]
        /\ UNCHANGED << Conn, pc, target, overtaken, commandQueue >>
    BY <1>4 DEF StartReadLoop
  <2>2. pc[h] \in Started BY <2>1 DEF SerialInv, Started
  <2>3. commandQueue = None => h \in overtaken BY <1>2, <2>2, SessionNames DEF OwnQueueInv
  <2>4. \A g \in Handlers : reader'[g] = "make" => g \in overtaken'
    BY <1>2, <2>1, <2>3 DEF OwnQueueInv
  <2>5. OwnQueueInv' BY <1>2, <2>1, <2>4 DEF OwnQueueInv, Dropping
  <2>6. QED BY <1>3, <2>1, <2>5
<1>5. ASSUME NEW h \in Handlers, ReaderMakesQueue(h) PROVE SerialInv'
  <2>1. /\ reader[h] = "make" /\ reader' = [reader EXCEPT ![h] = "run"]
        /\ commandQueue' = << h, "readLoop" >>
        /\ UNCHANGED << Conn, pc, target, overtaken >>
    BY <1>5 DEF ReaderMakesQueue
  <2>2. pc[h] \in Started /\ h \in overtaken BY <1>2, <2>1 DEF SerialInv, OwnQueueInv, Started
  <2>3. \A g \in Handlers \ {h} : pc[g] \notin Started BY <2>2 DEF SerialInv, InSession
  <2>4. \A g \in Handlers : reader'[g] = "make" => reader[g] = "make" BY <1>2, <2>1
  <2>5. Dropping' <=> Dropping BY <2>1 DEF Dropping
  <2>6. OwnQueueInv' BY <1>2, <2>1, <2>2, <2>3, <2>4, <2>5 DEF OwnQueueInv
  <2>7. QED BY <1>3, <2>1, <2>6
<1>6. ASSUME NEW h \in Handlers, FindQueue(h) PROVE SerialInv'
  <2>1. /\ reader' = [reader EXCEPT ![h] = "send"]
        /\ UNCHANGED << Conn, pc, target, overtaken, commandQueue >>
    BY <1>6 DEF FindQueue
  <2>2. \A g \in Handlers : reader'[g] = "make" => reader[g] = "make" BY <1>2, <2>1
  <2>3. OwnQueueInv' BY <1>2, <2>1, <2>2, OwnQueueStays
  <2>4. QED BY <1>3, <2>1, <2>3
<1>7. ASSUME NEW h \in Handlers, ProcessFrame(h) \/ EnqueueCommand(h) PROVE SerialInv'
  <2>1. /\ reader' = [reader EXCEPT ![h] = "run"]
        /\ UNCHANGED << Conn, pc, target, overtaken, commandQueue >>
    BY <1>7, ProcessingIs DEF Processing
  <2>2. \A g \in Handlers : reader'[g] = "make" => reader[g] = "make" BY <1>2, <2>1
  <2>3. OwnQueueInv' BY <1>2, <2>1, <2>2, OwnQueueStays
  <2>4. QED BY <1>3, <2>1, <2>3
<1>8. ASSUME NEW h \in Handlers, writeLoop(h) PROVE SerialInv' BY <1>1, <1>8 DEF writeLoop
<1>9. ASSUME NEW q \in Queues, commandWorker(q) PROVE SerialInv' BY <1>1, <1>9 DEF commandWorker
<1>10. ASSUME NEW w \in Writers, WriterStep(w) PROVE SerialInv'
  BY <1>1, <1>10 DEF WriterStep, CheckConn, PickChan, Send
<1>11. CASE UNCHANGED vars BY <1>1, <1>11 DEF vars
<1>12. QED BY <1>4, <1>5, <1>6, <1>7, <1>8, <1>9, <1>10, <1>11 DEF ReaderStep

-----------------------------------------------------------------------------
(* The line of frames. *)

\* How many frames are where is a number.
LEMMA Counts ==
    ASSUME TypeOK
    PROVE  \A c \in Handlers : /\ Len(log[c]) \in Nat /\ Len(readChan[c]) \in Nat
                               /\ taken[c] \in Nat /\ Held(c) \in {0, 1}
<1>1. MaxFrames \in Nat /\ taken \in [Handlers -> 0..MaxFrames] BY SessionAssumption DEF TypeOK
<1>2. \A c \in Handlers : taken[c] \in Nat BY <1>1
<1>3. \A c \in Handlers : Len(log[c]) \in Nat /\ Len(readChan[c]) \in Nat BY Elements
<1>4. \A c \in Handlers : Held(c) \in {0, 1} BY DEF Held
<1>5. QED BY <1>2, <1>3, <1>4

\* The line does not move where no frame is read, handed on or processed.
LEMMA OrderStays ==
    ASSUME OrderInv, UNCHANGED << hand, taken, readChan, log >>,
           \A h \in Handlers : pc'[h] = "push" <=> pc[h] = "push"
    PROVE  OrderInv'
BY DEF OrderInv, Held

\* The next frame is read by the handler of its own connection.
LEMMA ReadMessageOrder ==
    ASSUME TypeOK, SerialInv, OrderInv, NEW h \in Handlers, ReadMessage(h)
    PROVE  OrderInv'
<1>1. pc[h] = "blocked" /\ target[h] = h BY DEF ReadMessage, SerialInv
<1>2. PICK kind \in Kinds : hand' = [hand EXCEPT ![h] = << h, taken[h] + 1, kind >>]
  BY <1>1 DEF ReadMessage
<1>3. /\ taken' = [taken EXCEPT ![h] = taken[h] + 1] /\ pc' = [pc EXCEPT ![h] = "push"]
      /\ readChan' = readChan /\ log' = log
  BY <1>1 DEF ReadMessage, Goto, workVars
<1>4. DOMAIN pc = Handlers /\ DOMAIN taken = Handlers /\ DOMAIN hand = Handlers BY DEF TypeOK
<1>5. /\ pc'[h] = "push" /\ hand'[h][1] = h /\ hand'[h][2] = taken[h] + 1 /\ taken'[h] = taken[h] + 1
      /\ \A c \in Handlers \ {h} : pc'[c] = pc[c] /\ hand'[c] = hand[c] /\ taken'[c] = taken[c]
  BY <1>2, <1>3, <1>4
<1>6. \A c \in Handlers : pc'[c] = "push" => hand'[c][1] = c /\ hand'[c][2] = taken'[c]
  BY <1>5 DEF OrderInv
<1>7. ASSUME NEW c \in Handlers PROVE taken'[c] = Len(log'[c]) + Len(readChan'[c]) + Held(c)'
  <2>0. log'[c] = log[c] /\ readChan'[c] = readChan[c] BY <1>3
  <2>1. taken[c] = Len(log[c]) + Len(readChan[c]) + Held(c) BY DEF OrderInv
  <2>2. Len(log[c]) \in Nat /\ Len(readChan[c]) \in Nat BY Counts
  <2>3. CASE c = h
    <3>1. Held(c) = 0 /\ Held(c)' = 1 BY <1>1, <1>5, <2>3 DEF Held
    <3>2. taken'[c] = taken[c] + 1 BY <1>5, <2>3
    <3>3. PICK a, b, d : a = Len(log[c]) /\ b = Len(readChan[c]) /\ d = taken[c] OBVIOUS
    <3>4. a \in Nat /\ b \in Nat /\ d = a + b + 0 BY <2>1, <2>2, <2>3, <3>1, <3>3
    <3>5. d + 1 = a + b + 1 BY <3>4
    <3>6. QED BY <2>0, <2>3, <3>1, <3>2, <3>3, <3>5
  <2>4. CASE c # h
    <3>1. Held(c)' = Held(c) /\ taken'[c] = taken[c] BY <1>5, <2>4 DEF Held
    <3>2. QED BY <2>0, <2>1, <3>1
  <2>5. QED BY <2>3, <2>4
<1>8. \A c \in Handlers : \A i \in 1..Len(readChan'[c]) :
          readChan'[c][i][1] = c /\ readChan'[c][i][2] = Len(log'[c]) + i
  BY <1>3 DEF OrderInv
<1>9. QED BY <1>6, <1>7, <1>8 DEF OrderInv

\* It goes to the end of the channel.
LEMMA PushOrder ==
    ASSUME TypeOK, FrameInv, OrderInv, NEW h \in Handlers, Push(h)
    PROVE  OrderInv'
<1>1. PICK s, f, t, m, n :
          s = readChan[h] /\ f = hand[h] /\ t = Append(s, f) /\ m = Len(s) /\ n = Len(log[h])
  OBVIOUS
<1>2. f \in Frames /\ s \in Seq(Frames) BY <1>1 DEF Push, FrameInv, TypeOK
<1>3. m \in Nat /\ Len(t) = m + 1 /\ (\A i \in 1..m : t[i] = s[i]) /\ t[m + 1] = f
  BY <1>1, <1>2, AppendIs
<1>4. /\ readChan' = [readChan EXCEPT ![h] = t] /\ hand' = [hand EXCEPT ![h] = None]
      /\ pc[h] = "push" /\ pc' = [pc EXCEPT ![h] = "fetch"] /\ taken' = taken /\ log' = log
  BY <1>1 DEF Push, Goto
<1>5. DOMAIN pc = Handlers /\ DOMAIN readChan = Handlers /\ DOMAIN hand = Handlers BY DEF TypeOK
<1>6. /\ pc'[h] = "fetch" /\ readChan'[h] = t
      /\ \A c \in Handlers \ {h} : pc'[c] = pc[c] /\ hand'[c] = hand[c] /\ readChan'[c] = readChan[c]
  BY <1>4, <1>5
<1>7. n \in Nat /\ taken[h] \in Nat BY <1>1, Counts
<1>8. taken[h] = n + m + 1 BY <1>1, <1>4 DEF OrderInv, Held
<1>9. f[1] = h /\ f[2] = n + m + 1 BY <1>1, <1>4, <1>8 DEF OrderInv
<1>10. \A i \in 1..m : s[i][1] = h /\ s[i][2] = n + i BY <1>1 DEF OrderInv
<1>11. ASSUME NEW i \in 1..Len(t) PROVE t[i][1] = h /\ t[i][2] = n + i
  <2>1. CASE i \in 1..m BY <1>3, <1>10, <2>1
  <2>2. CASE i = m + 1
    <3>1. n + (m + 1) = n + m + 1 BY <1>3, <1>7
    <3>2. QED BY <1>3, <1>9, <2>2, <3>1
  <2>3. QED BY <1>3, <2>1, <2>2
<1>12. \A c \in Handlers : \A i \in 1..Len(readChan'[c]) :
          readChan'[c][i][1] = c /\ readChan'[c][i][2] = Len(log'[c]) + i
  <2> TAKE c \in Handlers
  <2>1. CASE c = h
    <3>1. readChan'[c] = t /\ Len(log'[c]) = n BY <1>1, <1>4, <1>6, <2>1
    <3>2. QED BY <1>11, <2>1, <3>1
  <2>2. CASE c # h
    <3>1. \A i \in 1..Len(readChan[c]) : readChan[c][i][1] = c /\ readChan[c][i][2] = Len(log[c]) + i
      BY DEF OrderInv
    <3>2. readChan'[c] = readChan[c] /\ log'[c] = log[c] BY <1>4, <1>6, <2>2
    <3>3. QED BY <3>1, <3>2
  <2>3. QED BY <2>1, <2>2
<1>13. \A c \in Handlers : pc'[c] = "push" => hand'[c][1] = c /\ hand'[c][2] = taken'[c]
  BY <1>4, <1>6 DEF OrderInv
<1>14. ASSUME NEW c \in Handlers PROVE taken'[c] = Len(log'[c]) + Len(readChan'[c]) + Held(c)'
  <2>0. taken'[c] = taken[c] /\ log'[c] = log[c] BY <1>4
  <2>1. CASE c = h
    <3>1. Held(c)' = 0 BY <1>6, <2>1 DEF Held
    <3>2. n + m + 1 = n + (m + 1) + 0 BY <1>3, <1>7
    <3>3. Len(readChan'[c]) = m + 1 /\ Len(log[c]) = n BY <1>1, <1>3, <1>6, <2>1
    <3>4. QED BY <1>8, <2>0, <2>1, <3>1, <3>2, <3>3
  <2>2. CASE c # h
    <3>1. taken[c] = Len(log[c]) + Len(readChan[c]) + Held(c) BY DEF OrderInv
    <3>2. Held(c)' = Held(c) /\ readChan'[c] = readChan[c] BY <1>6, <2>2 DEF Held
    <3>3. QED BY <2>0, <3>1, <3>2
  <2>3. QED BY <2>1, <2>2
<1>15. QED BY <1>12, <1>13, <1>14 DEF OrderInv

\* The frame that is processed is the next of its connection, the reader's own.
LEMMA ProcessOrder ==
    ASSUME TypeOK, OrderInv, NEW h \in Handlers, Processing(h)
    PROVE  OrderInv' /\ Pipe!Process(h)
<1>1. PICK s, f, t, m, l, n :
          /\ s = readChan[h] /\ f = Head(s) /\ t = Tail(s) /\ m = Len(s)
          /\ l = log[h] /\ n = Len(l)
  OBVIOUS
<1>2. s \in Seq(Frames) /\ s # << >> /\ l \in Seq(1..MaxFrames)
  BY <1>1 DEF Processing, Processed, TypeOK
<1>3. /\ m \in Nat \ {0} /\ Len(t) = m - 1 /\ (\A i \in 1..(m - 1) : t[i] = s[i + 1])
      /\ f = s[1] /\ f \in Frames
  BY <1>1, <1>2, TailIs
<1>4. n \in Nat BY <1>1, <1>2, LenProperties
<1>5. \A i \in 1..m : s[i][1] = h /\ s[i][2] = n + i BY <1>1 DEF OrderInv
<1>6. f[1] = h /\ f[2] = n + 1
  <2>1. 1 \in 1..m BY <1>3
  <2>2. QED BY <1>3, <1>5, <2>1
<1>7. /\ log' = [log EXCEPT ![f[1]] = Append(@, f[2])]
      /\ readChan' = [readChan EXCEPT ![h] = Tail(@)]
      /\ pc' = pc /\ hand' = hand /\ taken' = taken
  BY <1>1 DEF Processing, Processed
<1>8. log' = [log EXCEPT ![h] = Append(l, n + 1)] /\ readChan' = [readChan EXCEPT ![h] = t]
  BY <1>1, <1>6, <1>7
<1>9. Pipe!Process(h) BY <1>1, <1>8 DEF Pipe!Process
<1>10. f[2] \in 1..MaxFrames BY <1>3, FrameParts
<1>11. Len(Append(l, n + 1)) = n + 1 BY <1>1, <1>2, <1>6, <1>10, AppendIs
<1>12. DOMAIN readChan = Handlers /\ DOMAIN log = Handlers BY DEF TypeOK
<1>13. /\ readChan'[h] = t /\ Len(log'[h]) = n + 1
       /\ \A c \in Handlers \ {h} : readChan'[c] = readChan[c] /\ log'[c] = log[c]
  BY <1>8, <1>11, <1>12
<1>14. \A c \in Handlers : pc'[c] = "push" => hand'[c][1] = c /\ hand'[c][2] = taken'[c]
  BY <1>7 DEF OrderInv
<1>15. ASSUME NEW i \in 1..(m - 1) PROVE t[i][1] = h /\ t[i][2] = (n + 1) + i
  <2>1. i + 1 \in 1..m BY <1>3
  <2>2. s[i + 1][1] = h /\ s[i + 1][2] = n + (i + 1) BY <1>5, <2>1
  <2>3. n + (i + 1) = (n + 1) + i BY <1>4
  <2>4. QED BY <1>3, <2>2, <2>3
<1>16. \A c \in Handlers : \A i \in 1..Len(readChan'[c]) :
          readChan'[c][i][1] = c /\ readChan'[c][i][2] = Len(log'[c]) + i
  <2> TAKE c \in Handlers
  <2>1. CASE c = h BY <1>3, <1>13, <1>15, <2>1
  <2>2. CASE c # h
    <3>1. \A i \in 1..Len(readChan[c]) : readChan[c][i][1] = c /\ readChan[c][i][2] = Len(log[c]) + i
      BY DEF OrderInv
    <3>2. readChan'[c] = readChan[c] /\ log'[c] = log[c] BY <1>13, <2>2
    <3>3. QED BY <3>1, <3>2
  <2>3. QED BY <2>1, <2>2
<1>17. ASSUME NEW c \in Handlers PROVE taken'[c] = Len(log'[c]) + Len(readChan'[c]) + Held(c)'
  <2>1. Held(c)' = Held(c) /\ taken'[c] = taken[c] BY <1>7 DEF Held
  <2>2. taken[c] = Len(log[c]) + Len(readChan[c]) + Held(c) BY DEF OrderInv
  <2>3. CASE c = h
    <3>1. taken[h] = n + m + Held(h) BY <1>1, <2>2, <2>3
    <3>2. Held(h) \in {0, 1} BY DEF Held
    <3>3. n + m + Held(h) = (n + 1) + (m - 1) + Held(h) BY <1>3, <1>4, <3>2
    <3>4. QED BY <1>3, <1>13, <2>1, <2>3, <3>1, <3>3
  <2>4. CASE c # h BY <1>13, <2>1, <2>2, <2>4
  <2>5. QED BY <2>3, <2>4
<1>18. OrderInv' BY <1>14, <1>16, <1>17 DEF OrderInv
<1>19. QED BY <1>9, <1>18

-----------------------------------------------------------------------------
(* The theorems of the sessions that follow each other. *)

LEMMA SerialInit == Init => SInv
<1> SUFFICES ASSUME Init PROVE SInv OBVIOUS
<1>1. SerialInv
  <2>1. Conn = None /\ commandQueue = None BY DEF Init
  <2>2. \A h \in Handlers : pc[h] = "new" /\ reader[h] = "none" BY DEF Init
  <2>3. OwnQueueInv BY <2>1, <2>2 DEF OwnQueueInv, Started, Reading
  <2>4. QED BY <2>1, <2>2, <2>3, SessionNames DEF SerialInv, InSession, Started, Accepting, Reading
<1>2. OrderInv
  <2>1. \A h \in Handlers : pc[h] = "new" /\ Len(readChan[h]) = 0 /\ Len(log[h]) = 0 /\ taken[h] = 0
    BY DEF Init
  <2>2. \A h \in Handlers : Held(h) = 0 BY <2>1 DEF Held
  <2>3. ASSUME NEW c \in Handlers PROVE taken[c] = Len(log[c]) + Len(readChan[c]) + Held(c)
    <3>1. taken[c] = 0 /\ Len(log[c]) = 0 /\ Len(readChan[c]) = 0 /\ Held(c) = 0 BY <2>1, <2>2
    <3>2. 0 = 0 + 0 + 0 OBVIOUS
    <3>3. QED BY <3>1, <3>2, Zenon
  <2>4. \A c \in Handlers : \A i \in 1..Len(readChan[c]) :
            readChan[c][i][1] = c /\ readChan[c][i][2] = Len(log[c]) + i
    BY <2>1
  <2>5. \A c \in Handlers : pc[c] # "push" BY <2>1
  <2>6. QED BY <2>3, <2>4, <2>5, Zenon DEF OrderInv
<1>3. QED BY <1>1, <1>2, InitHolds DEF SInv

\* A frame is processed next in its order or not at all.
LEMMA SerialNext ==
    ASSUME Serial, SInv, [Next]_vars
    PROVE  SInv' /\ [Pipe!Next]_log
<1>1. TypeOK /\ FrameInv /\ SerialInv /\ OrderInv /\ IInv /\ IInv' BY NextKeeps DEF SInv, IInv
<1>2. ASSUME Quiet PROVE OrderInv' /\ log' = log BY <1>1, <1>2, OrderStays DEF Quiet
<1>3. ASSUME NEW h \in Handlers, ClientStep(h) PROVE SInv' /\ log' = log
  <2>1. SerialInv' BY <1>1, <1>3, ConnectionSerial DEF ClientStep
  <2>2. CASE ReadMessage(h)
    <3>1. OrderInv' /\ log' = log BY <1>1, <2>2, ReadMessageOrder DEF ReadMessage, workVars
    <3>2. QED BY <1>1, <2>1, <3>1 DEF SInv
  <2>3. CASE Connect(h) \/ ClientCloses(h)
    <3>1. Quiet BY <1>1, <2>3, ConnectionTypes
    <3>2. QED BY <1>1, <1>2, <2>1, <3>1 DEF SInv
  <2>4. QED BY <1>3, <2>2, <2>3 DEF ClientStep
<1>4. ASSUME NEW h \in Handlers, HandlerStep(h) PROVE SInv' /\ log' = log
  <2>1. SerialInv' BY <1>1, <1>4, ConnectionSerial DEF HandlerStep
  <2>2. CASE Push(h)
    <3>1. OrderInv' /\ log' = log BY <1>1, <2>2, PushOrder DEF Push
    <3>2. QED BY <1>1, <2>1, <3>1 DEF SInv
  <2>3. CASE ~ Push(h)
    <3>1. Quiet BY <1>1, <1>4, <2>3, ConnectionTypes DEF HandlerStep
    <3>2. QED BY <1>1, <1>2, <2>1, <3>1 DEF SInv
  <2>4. QED BY <2>2, <2>3
<1>5. ASSUME \/ \E h \in Handlers : ReaderStep(h) \/ writeLoop(h)
             \/ \E q \in Queues : commandWorker(q)
             \/ \E w \in Writers : WriterStep(w)
             \/ UNCHANGED vars
      PROVE  SInv' /\ [Pipe!Next]_log
  <2>1. SerialInv' BY <1>1, <1>5, ReaderSerial
  <2>2. CASE Quiet BY <1>1, <1>2, <2>1, <2>2 DEF SInv
  <2>3. ASSUME NEW h \in Handlers, ProcessFrame(h) \/ EnqueueCommand(h) PROVE SInv' /\ [Pipe!Next]_log
    <3>1. OrderInv' /\ Pipe!Process(h) BY <1>1, <2>3, ProcessingIs, ProcessOrder
    <3>2. QED BY <1>1, <2>1, <3>1 DEF SInv, Pipe!Next
  <2>4. ASSUME NEW q \in Queues, commandWorker(q) PROVE SInv' /\ [Pipe!Next]_log
    <3>1. OrderInv' /\ log' = log BY <1>1, <2>4, OrderStays DEF commandWorker, connVars
    <3>2. QED BY <1>1, <2>1, <3>1 DEF SInv
  <2>5. QED BY <1>1, <1>5, <2>2, <2>3, <2>4, WriterTypes DEF ReaderStep, LoopStep
<1>6. QED BY <1>3, <1>4, <1>5 DEF Next

\* While sessions follow each other, a handler reads and closes its own connection
\* only, and one that reads has a command queue whose worker is its own; or, if it
\* began while another was dropping its queue, its own or none as soon as that is over.
THEOREM SessionsOwn == ASSUME Serial PROVE Spec => []OwnSession
<1>1. SInv => OwnSession
  <2> SUFFICES ASSUME SInv PROVE OwnSession OBVIOUS
  <2>1. SerialInv BY DEF SInv
  <2>2. OwnConnection BY <2>1 DEF SerialInv, OwnConnection
  <2>3. OwnQueueInv BY <2>1 DEF SerialInv
  <2>4. ASSUME NEW h \in Handlers, pc[h] \in Reading
        PROVE  \/ commandQueue = << h, "handler" >>
               \/ h \in overtaken /\ (Dropping \/ commandQueue \in {None, << h, "readLoop" >>})
    <3>1. pc[h] \in Started BY <2>4 DEF Started
    <3>2. CASE h \in overtaken
      <4>1. Dropping \/ commandQueue \in {None, << h, "handler" >>, << h, "readLoop" >>}
        BY <2>3, <3>1 DEF OwnQueueInv
      <4>2. QED BY <3>2, <4>1
    <3>3. CASE h \notin overtaken BY <2>3, <3>1, <3>3 DEF OwnQueueInv
    <3>4. QED BY <3>2, <3>3
  <2>5. QED BY <2>2, <2>4 DEF OwnSession
<1>2. SInv /\ [Next]_vars => SInv' BY SerialNext
<1>3. QED BY <1>1, <1>2, SerialInit, PTL DEF Spec

\* The frames of a connection are processed in the order the client sent them, without
\* a gap: the session implements the pipe.
THEOREM FramesInOrder == ASSUME Serial PROVE Spec => InOrder
<1>1. Init => Pipe!Init BY DEF Init, Pipe!Init
<1>2. SInv /\ [Next]_vars => SInv' BY SerialNext
<1>3. SInv /\ [Next]_vars => [Pipe!Next]_log BY SerialNext
<1>4. QED BY <1>1, <1>2, <1>3, SerialInit, PTL DEF Spec, InOrder, Pipe!Spec

-----------------------------------------------------------------------------
(* Why a session whose connection is gone gives it up. *)

\* Whatever is allowed, wss.Conn is the connection of a handler that is in its
\* session, and the readLoop of that session was started.
OwnerInv ==
    /\ \A h \in Handlers : Conn = h => InSession(h)
    /\ \A h \in Handlers : pc[h] \in Started => reader[h] # "none"

\* The next step of handler h, or of its readLoop, which makes room in a full readChan
\* or starts so that close may go on, does not depend on the client: the guards of
\* HandlerStep and ReaderStep.
GoesOn(h) ==
    \/ pc[h] \in {"setup", "make", "fetch", "close", "drop"}
    \/ pc[h] = "blocked" /\ target[h] \notin open
    \/ pc[h] = "push" /\ \/ Len(readChan[h]) < Depth
                         \/ reader[h] \in {"start", "make"}
                         \/ reader[h] \in {"run", "send"} /\ readChan[h] # << >>

\* How far handler h is from the end of close.
Left(p) == IF p = "setup"   THEN 6 ELSE
           IF p \in {"make", "push"} THEN 5 ELSE
           IF p = "fetch"   THEN 4 ELSE
           IF p = "blocked" THEN 3 ELSE
           IF p = "close"   THEN 2 ELSE
           IF p = "drop"    THEN 1 ELSE 0

\* It does not go back.
Nearer(h) == pc'[h] = pc[h] \/ Left(pc'[h]) < Left(pc[h])

\* Without any connection, the session that wss.Conn belongs to goes on by itself.
GoneGoesOn == \A h \in Handlers : Conn = h /\ open = {} => InSession(h) /\ GoesOn(h)

\* What a new handler waits for is a session that has begun to read, whose connection it
\* has closed, and that goes on by itself.
WaitGoesOn ==
    \A g, h \in Handlers : pc[g] = "wait" /\ Conn = h =>
        h \notin open /\ pc[h] \in Started /\ GoesOn(h)

GoneNearer == \A h \in Handlers : InSession(h) /\ open = {} => Nearer(h)
WaitNearer == \A h \in Handlers : InSession(h) /\ h \notin open => h \notin open' /\ Nearer(h)

\* The connection a new handler waits for stays closed.
ClosedInv == \A g, h \in Handlers : pc[g] = "wait" /\ Conn = h => h \notin open

\* The steps of a handler that is in its session: what another does leaves it alone.
LEMMA SessionMoves ==
    ASSUME TypeOK, [Next]_vars, NEW h \in Handlers, InSession(h)
    PROVE  \/ pc'[h] = pc[h]
           \/ pc[h] = "setup" /\ pc'[h] \in {"make", "fetch"}
           \/ pc[h] = "make" /\ pc'[h] = "fetch"
           \/ pc[h] = "fetch" /\ pc'[h] \in {"blocked", "close"}
           \/ pc[h] = "blocked" /\ target[h] \in open /\ pc'[h] = "push"
           \/ pc[h] = "blocked" /\ pc'[h] = "close"
           \/ pc[h] = "push" /\ pc'[h] = "fetch"
           \/ pc[h] = "close" /\ pc'[h] = "drop"
           \/ CloseDrop(h) /\ pc[h] = "drop" /\ pc'[h] = "queue"
<1> USE DEF connVars, Goto
<1>1. DOMAIN pc = Handlers BY DEF TypeOK
<1>2. pc[h] \in {"setup", "make", "fetch", "blocked", "push", "close", "drop"}
  BY DEF InSession, Started, Reading
<1>3. CASE pc' = pc BY <1>3
<1>4. ASSUME NEW g \in Handlers, ClientStep(g) PROVE pc' = pc \/ (pc[g] = "new" /\ \E p : Goto(g, p))
                                                     \/ ReadMessage(g)
  BY <1>4 DEF ClientStep, Connect, ClientCloses
<1>5. ASSUME NEW g \in Handlers, Evict(g) \/ OldIsGone(g) \/ ForceReset(g) \/ Upgrade(g) \/ Assign(g)
                                 \/ DropQueue(g) \/ HangUp(g) \/ CloseChans(g)
      PROVE  /\ pc[g] \in {"evict", "wait", "upgrade", "assign", "queue", "hangup", "chans"}
             /\ \E p : Goto(g, p)
  BY <1>5 DEF Evict, OldIsGone, ForceReset, Upgrade, Assign, DropQueue, HangUp, CloseChans
<1>6. ASSUME NEW g \in Handlers, NEW p, pc[g] \notin {"setup", "make", "fetch", "blocked", "push", "close", "drop"},
             Goto(g, p)
      PROVE  pc'[h] = pc[h]
  BY <1>1, <1>2, <1>6
<1>7. ASSUME NEW g \in Handlers, HandlerStep(g) PROVE pc'[h] = pc[h] \/ g = h
  <2>1. \E p : Goto(g, p)
    BY <1>7 DEF HandlerStep, Evict, OldIsGone, ForceReset, Upgrade, Assign, Setup, MakeQueue, Begin,
                Fetch, ReadError, Push, CloseCancel, CloseDrop, DropQueue, HangUp, CloseChans
  <2>2. QED BY <1>1, <2>1
<1>8. ASSUME HandlerStep(h)
      PROVE  \/ pc[h] = "setup" /\ pc'[h] \in {"make", "fetch"}
             \/ pc[h] = "make" /\ pc'[h] = "fetch"
             \/ pc[h] = "fetch" /\ pc'[h] \in {"blocked", "close"}
             \/ pc[h] = "blocked" /\ pc'[h] = "close"
             \/ pc[h] = "push" /\ pc'[h] = "fetch"
             \/ pc[h] = "close" /\ pc'[h] = "drop"
             \/ CloseDrop(h) /\ pc[h] = "drop" /\ pc'[h] = "queue"
  <2>1. \/ Setup(h) \/ MakeQueue(h) \/ Fetch(h) \/ ReadError(h) \/ Push(h)
        \/ CloseCancel(h) \/ CloseDrop(h)
    BY <1>2, <1>5, <1>8 DEF HandlerStep
  <2>2. QED BY <1>1, <2>1 DEF Setup, MakeQueue, Begin, Fetch, ReadError, Push, CloseCancel, CloseDrop
<1>9. ASSUME NEW g \in Handlers, ReadMessage(g)
      PROVE  pc'[h] = pc[h] \/ (pc[h] = "blocked" /\ target[h] \in open /\ pc'[h] = "push")
  <2>1. pc[g] = "blocked" /\ target[g] \in open /\ pc' = [pc EXCEPT ![g] = "push"]
    BY <1>9 DEF ReadMessage
  <2>2. QED BY <1>1, <2>1
<1>10. ASSUME \/ \E g \in Handlers : ReaderStep(g) \/ writeLoop(g)
              \/ \E q \in Queues : commandWorker(q)
              \/ \E w \in Writers : WriterStep(w)
       PROVE  pc' = pc
  BY <1>10 DEF ReaderStep, StartReadLoop, ReaderMakesQueue, ProcessFrame, FindQueue, EnqueueCommand,
               writeLoop, commandWorker, WriterStep, CheckConn, PickChan, Send
<1>11. ASSUME NEW g \in Handlers, ClientStep(g)
       PROVE  pc'[h] = pc[h] \/ (pc[h] = "blocked" /\ target[h] \in open /\ pc'[h] = "push")
  BY <1>4, <1>6, <1>9, <1>11
<1>12. QED BY <1>3, <1>7, <1>8, <1>10, <1>11 DEF Next, vars

\* Which step writes what: Conn, the open connections, the readLoops, and where a session
\* and a takeover begin.
LEMMA WhoWrites ==
    ASSUME TypeOK, [Next]_vars
    PROVE  /\ \A h \in Handlers : Conn' = h => Conn = h \/ Assign(h)
           /\ open' \subseteq open \/ \E h \in Handlers : Upgrade(h)
           /\ \/ reader' = reader
              \/ \E h \in Handlers, r \in {"start", "make", "run", "send"} :
                    reader' = [reader EXCEPT ![h] = r]
           /\ \A h \in Handlers : pc'[h] \in Started =>
                 pc[h] \in Started \/ (Setup(h) /\ Begin(h)) \/ MakeQueue(h)
           /\ \A h \in Handlers : pc'[h] = "wait" => pc[h] = "wait" \/ Evict(h)
<1> USE SessionNames DEF connVars, workVars, writeVars, Goto, Started, Reading
<1> USE DEF ClientStep, HandlerStep, ReaderStep, WriterStep, Connect, Evict, OldIsGone,
            ForceReset, Upgrade, Assign, Setup, MakeQueue, Begin, Fetch, ReadMessage, ReadError, Push,
            CloseCancel, CloseDrop, DropQueue, HangUp, CloseChans, ClientCloses, StartReadLoop,
            ReaderMakesQueue, ProcessFrame, FindQueue, EnqueueCommand, commandWorker,
            CheckConn, PickChan, Send, writeLoop
<1>1. DOMAIN pc = Handlers BY DEF TypeOK
<1>2. ASSUME NEW h \in Handlers, Conn' = h, Conn # h PROVE Assign(h) BY <1>2 DEF Next, vars
<1>3. open' \subseteq open \/ \E h \in Handlers : Upgrade(h) BY DEF Next, vars
<1>4. \/ reader' = reader
      \/ \E h \in Handlers, r \in {"start", "make", "run", "send"} :
            reader' = [reader EXCEPT ![h] = r]
  BY DEF Next, vars
<1>5. ASSUME NEW g \in Handlers, ClientStep(g) \/ HandlerStep(g)
      PROVE  \A h \in Handlers \ {g} : pc'[h] = pc[h]
  BY <1>1, <1>5
<1>6. ASSUME NEW h \in Handlers, ClientStep(h) \/ HandlerStep(h)
      PROVE  /\ pc'[h] \in Started => pc[h] \in Started \/ (Setup(h) /\ Begin(h)) \/ MakeQueue(h)
             /\ pc'[h] = "wait" => pc[h] = "wait" \/ Evict(h)
  <2>1. CASE Setup(h) \/ MakeQueue(h) \/ Evict(h) BY <1>1, <2>1
  <2>2. CASE ~ Setup(h) /\ ~ MakeQueue(h) /\ ~ Evict(h) BY <1>1, <1>6, <2>2
  <2>3. QED BY <2>1, <2>2
<1>7. ASSUME \/ \E g \in Handlers : ReaderStep(g) \/ writeLoop(g)
             \/ \E q \in Queues : commandWorker(q)
             \/ \E w \in Writers : WriterStep(w)
             \/ UNCHANGED vars
      PROVE  pc' = pc
  BY <1>7 DEF vars
<1>8. ASSUME NEW h \in Handlers
      PROVE  /\ pc'[h] \in Started => pc[h] \in Started \/ (Setup(h) /\ Begin(h)) \/ MakeQueue(h)
             /\ pc'[h] = "wait" => pc[h] = "wait" \/ Evict(h)
  <2>1. CASE pc'[h] = pc[h] BY <2>1
  <2>2. CASE ClientStep(h) \/ HandlerStep(h) BY <1>6, <2>2
  <2>3. pc'[h] = pc[h] \/ ClientStep(h) \/ HandlerStep(h)
    <3> HIDE DEF ClientStep, HandlerStep, ReaderStep, WriterStep, writeLoop, commandWorker
    <3>1. QED BY <1>5, <1>7 DEF Next
  <2>4. QED BY <2>1, <2>2, <2>3
<1>9. QED BY <1>2, <1>3, <1>4, <1>8, Zenon

\* Who has wss.Conn.
LEMMA OwnerStep == ASSUME TypeOK, OwnerInv, [Next]_vars PROVE OwnerInv'
<1>1. DOMAIN pc = Handlers /\ DOMAIN reader = Handlers BY DEF TypeOK
<1>2. ASSUME NEW h \in Handlers, Conn' = h PROVE InSession(h)'
  <2>1. CASE Conn = h
    <3>1. InSession(h) BY <2>1 DEF OwnerInv
    <3>2. ~ CloseDrop(h) BY <1>2, SessionNames DEF CloseDrop
    <3>3. QED BY <3>1, <3>2, SessionMoves DEF InSession, Started, Reading
  <2>2. CASE Assign(h) BY <1>1, <2>2 DEF Assign, Goto, InSession
  <2>3. QED BY <1>2, <2>1, <2>2, WhoWrites
<1>3. ASSUME NEW h \in Handlers, pc'[h] \in Started PROVE reader'[h] # "none"
  <2>1. CASE Begin(h) BY <1>1, <2>1 DEF Begin
  <2>2. CASE pc[h] \in Started
    <3>1. reader[h] # "none" BY <2>2 DEF OwnerInv
    <3>2. QED BY <1>1, <3>1, WhoWrites
  <2>3. QED BY <1>3, <2>1, <2>2, WhoWrites DEF MakeQueue
<1>4. QED BY <1>2, <1>3 DEF OwnerInv

\* A session that does not wait for the client goes on.
LEMMA GoesOnIs ==
    ASSUME TypeOK, OwnerInv, NEW h \in Handlers, InSession(h), pc[h] = "blocked" => target[h] \notin open
    PROVE  GoesOn(h)
<1>1. CASE pc[h] \in {"setup", "make", "fetch", "close", "drop", "blocked"} BY <1>1 DEF GoesOn
<1>2. CASE pc[h] = "push"
  <2>1. reader[h] \in {"start", "make", "run", "send"} BY <1>2 DEF TypeOK, OwnerInv, Started, Reading
  <2>2. readChan[h] = << >> => Len(readChan[h]) < Depth BY SessionAssumption
  <2>3. QED BY <1>2, <2>1, <2>2 DEF GoesOn
<1>3. QED BY <1>1, <1>2 DEF InSession, Started, Reading

\* The connection that a new handler has closed is not opened again.
LEMMA ClosedStep ==
    ASSUME Serial, TypeOK, SerialInv, [Next]_vars
    PROVE  /\ ClosedInv => ClosedInv'
           /\ \A h \in Handlers : InSession(h) /\ h \notin open => h \notin open'
<1>1. DOMAIN pc = Handlers BY DEF TypeOK
<1>2. ASSUME NEW h \in Handlers, InSession(h), h \notin open PROVE h \notin open'
  <2>1. CASE open' \subseteq open BY <1>2, <2>1
  <2>2. ASSUME NEW g \in Handlers, Upgrade(g) PROVE h \notin open'
    BY <1>2, <2>2 DEF Upgrade, InSession, Started, Reading
  <2>3. QED BY <2>1, <2>2, WhoWrites
<1>3. ASSUME ClosedInv, NEW g \in Handlers, NEW h \in Handlers, pc'[g] = "wait", Conn' = h
      PROVE  h \notin open'
  <2>1. CASE Evict(g) BY <1>3, <2>1 DEF Evict
  <2>2. CASE pc[g] = "wait"
    <3>1. ~ Assign(h) BY <1>1, <1>3, <2>2 DEF SerialInv, Accepting, Assign
    <3>2. Conn = h BY <1>3, <3>1, WhoWrites
    <3>3. h \notin open /\ InSession(h) BY <1>3, <2>2, <3>2 DEF ClosedInv, SerialInv
    <3>4. QED BY <1>2, <3>3
  <2>3. QED BY <1>3, <2>1, <2>2, WhoWrites
<1>4. QED BY <1>2, <1>3 DEF ClosedInv

-----------------------------------------------------------------------------
(* The theorems: without liveness, what TakeoverEnds and DisconnectSeen rest on. *)

LEMMA OwnerInit == Init => OwnerInv /\ ClosedInv
<1> SUFFICES ASSUME Init PROVE OwnerInv /\ ClosedInv OBVIOUS
<1>1. Conn = None /\ \A h \in Handlers : pc[h] = "new" BY DEF Init
<1>2. QED BY <1>1, SessionNames DEF OwnerInv, ClosedInv, Started, Reading

\* However sessions overlap: while wss.Conn is set, and no connection is left, its
\* handler is in its session and has a step that the client cannot withhold.  A handler
\* that has ended, or was refused, leaves nothing in wss.Conn.
THEOREM DisconnectGoesOn == Spec => []GoneGoesOn
<1>1. Init => IInv /\ OwnerInv BY InitHolds, OwnerInit
<1>2. IInv /\ OwnerInv /\ [Next]_vars => (IInv /\ OwnerInv)' BY NextKeeps, OwnerStep DEF IInv
<1>3. IInv /\ OwnerInv => GoneGoesOn
  <2> SUFFICES ASSUME TypeOK, OwnerInv, NEW h \in Handlers, Conn = h, open = {}
               PROVE  InSession(h) /\ GoesOn(h)
    BY DEF IInv, GoneGoesOn
  <2>1. InSession(h) BY DEF OwnerInv
  <2>2. QED BY <2>1, GoesOnIs
<1>4. QED BY <1>1, <1>2, <1>3, PTL DEF Spec

\* And each of its steps is one nearer to the end of close.
THEOREM DisconnectNearer == Spec => [][GoneNearer]_vars
<1>1. TypeOK /\ [Next]_vars => [GoneNearer]_vars
  <2> SUFFICES ASSUME TypeOK, [Next]_vars, NEW h \in Handlers, InSession(h), open = {}
               PROVE  Nearer(h)
    BY DEF GoneNearer
  <2>1. QED BY SessionMoves DEF Nearer, Left
<1>2. QED BY <1>1, SessionTypes, PTL DEF Spec

\* While sessions follow each other: the session that a new handler waits for has lost its
\* connection and has a step that the client cannot withhold.
THEOREM TakeoverGoesOn == ASSUME Serial PROVE Spec => []WaitGoesOn
<1> DEFINE Inv == SInv /\ OwnerInv /\ ClosedInv
<1>1. Init => Inv BY SerialInit, OwnerInit
<1>2. Inv /\ [Next]_vars => Inv' BY SerialNext, OwnerStep, ClosedStep DEF SInv, IInv
<1>3. Inv => WaitGoesOn
  <2> SUFFICES ASSUME TypeOK, SerialInv, OwnerInv, ClosedInv,
                      NEW g \in Handlers, NEW h \in Handlers, pc[g] = "wait", Conn = h
               PROVE  h \notin open /\ pc[h] \in Started /\ GoesOn(h)
    BY DEF SInv, IInv, WaitGoesOn
  <2>1. h \notin open BY DEF ClosedInv
  <2>2. InSession(h) BY DEF SerialInv
  <2>3. pc[h] \notin {"setup", "make"} BY DEF SerialInv, Accepting
  <2>4. pc[h] = "blocked" => target[h] = h BY DEF SerialInv
  <2>5. QED BY <2>1, <2>2, <2>3, <2>4, GoesOnIs DEF InSession
<1>4. QED BY <1>1, <1>2, <1>3, PTL DEF Spec

\* And each of its steps is one nearer to the end of close, since it reads no other
\* connection than its own, which stays closed.
THEOREM TakeoverNearer == ASSUME Serial PROVE Spec => [][WaitNearer]_vars
<1>1. SInv /\ [Next]_vars => SInv' BY SerialNext
<1>2. SInv /\ [Next]_vars => [WaitNearer]_vars
  <2> SUFFICES ASSUME TypeOK, SerialInv, [Next]_vars, NEW h \in Handlers, InSession(h), h \notin open
               PROVE  h \notin open' /\ Nearer(h)
    BY DEF SInv, IInv, WaitNearer
  <2>1. h \notin open' BY ClosedStep
  <2>2. pc[h] = "blocked" => target[h] = h BY DEF SerialInv
  <2>3. QED BY <2>1, <2>2, SessionMoves DEF Nearer, Left
<1>3. QED BY <1>1, <1>2, SerialInit, PTL DEF Spec

-----------------------------------------------------------------------------
(* What holds of a session until close has dropped its connection. *)

\* close of h has cleared Conn.
Gone(h) == pc[h] \in {"queue", "hangup", "chans", "done"}

\* It stays so, and only CloseDrop makes it so.
LEMMA GoneStays ==
    ASSUME TypeOK, [Next]_vars, NEW h \in Handlers
    PROVE  /\ Gone(h) => Gone(h)'
           /\ Gone(h)' => Gone(h) \/ CloseDrop(h)
<1> USE DEF connVars, workVars, writeVars, Goto
<1> USE DEF ClientStep, HandlerStep, ReaderStep, WriterStep, Connect, Evict, OldIsGone,
            ForceReset, Upgrade, Assign, Setup, MakeQueue, Begin, Fetch, ReadMessage, ReadError, Push,
            CloseCancel, CloseDrop, DropQueue, HangUp, CloseChans, ClientCloses, StartReadLoop,
            ReaderMakesQueue, ProcessFrame, FindQueue, EnqueueCommand, commandWorker,
            CheckConn, PickChan, Send, writeLoop
<1>1. DOMAIN pc = Handlers BY DEF TypeOK
<1>2. ASSUME NEW g \in Handlers, ClientStep(g) \/ HandlerStep(g)
      PROVE  pc'[h] = pc[h] \/ g = h
  BY <1>1, <1>2
<1>3. ASSUME ClientStep(h) \/ HandlerStep(h)
      PROVE  /\ Gone(h) => Gone(h)'
             /\ Gone(h)' => Gone(h) \/ CloseDrop(h)
  BY <1>1, <1>3 DEF Gone
<1>4. ASSUME \/ \E g \in Handlers : ReaderStep(g) \/ writeLoop(g)
             \/ \E q \in Queues : commandWorker(q)
             \/ \E w \in Writers : WriterStep(w)
             \/ UNCHANGED vars
      PROVE  pc' = pc
  BY <1>4 DEF vars
<1>5. pc'[h] = pc[h] \/ ClientStep(h) \/ HandlerStep(h)
  <2> HIDE DEF ClientStep, HandlerStep, ReaderStep, WriterStep, writeLoop, commandWorker
  <2>1. QED BY <1>2, <1>4 DEF Next
<1>6. CASE pc'[h] = pc[h] BY <1>6 DEF Gone
<1>7. QED BY <1>3, <1>5, <1>6

-----------------------------------------------------------------------------
(* A panic of the gateway. *)

\* Unless handleLocal gives up on an old handler, whoever has a channel to write to has
\* a connection to write to, as long as no session was closed.
PanicInv ==
    (\A h \in Handlers : ~ Gone(h)) =>
        /\ ~ crashed
        /\ writeChan # None => Conn # None
        /\ \A h \in Handlers : out[h] > 0 \/ pc[h] \in {"setup", "make"} => Conn # None
        /\ \A w \in Writers : at[w] \in Handlers => Conn # None

\* A panic comes after close in some session.
CrashNeedsClose == crashed => \E h \in Handlers : Gone(h)

\* No step but one of close takes wss.Conn away.
LEMMA PanicStep ==
    ASSUME "slow" \notin Allow, TypeOK, PanicInv, [Next]_vars
    PROVE  PanicInv'
<1> SUFFICES ASSUME \A h \in Handlers : ~ Gone(h)'
             PROVE  /\ ~ crashed'
                    /\ writeChan' # None => Conn' # None
                    /\ \A h \in Handlers : out'[h] > 0 \/ pc'[h] \in {"setup", "make"} => Conn' # None
                    /\ \A w \in Writers : at'[w] \in Handlers => Conn' # None
  BY DEF PanicInv, Gone
<1> USE SessionNames DEF connVars, workVars, writeVars, Goto
<1>1. \A h \in Handlers : ~ Gone(h) BY GoneStays
<1>2. /\ ~ crashed
      /\ writeChan # None => Conn # None
      /\ \A h \in Handlers : out[h] > 0 \/ pc[h] \in {"setup", "make"} => Conn # None
      /\ \A w \in Writers : at[w] \in Handlers => Conn # None
  BY <1>1 DEF PanicInv
<1>3. /\ DOMAIN pc = Handlers /\ out \in [Handlers -> 0..Depth] /\ DOMAIN at = Writers
      /\ Depth \in Nat
  BY SessionAssumption DEF TypeOK
<1>5. ASSUME NEW h \in Handlers, ClientStep(h) PROVE ~ crashed' /\ writeChan' = writeChan /\ Conn' = Conn
                 /\ at' = at /\ out' = out /\ (\A g \in Handlers : pc'[g] \in {"setup", "make"} => pc[g] = pc'[g])
  BY <1>2, <1>3, <1>5 DEF ClientStep, Connect, ReadMessage, ClientCloses
<1>6. ASSUME NEW h \in Handlers, HandlerStep(h), ~ Setup(h), ~ Assign(h)
      PROVE  ~ crashed' /\ writeChan' = writeChan /\ Conn' = Conn
                 /\ at' = at /\ out' = out /\ (\A g \in Handlers : pc'[g] \in {"setup", "make"} => pc[g] = pc'[g])
  <2>1. ~ CloseDrop(h) BY <1>3 DEF CloseDrop, Gone
  <2>2. QED
    BY <1>2, <1>3, <1>6, <2>1
    DEF HandlerStep, Evict, OldIsGone, ForceReset, Upgrade, MakeQueue, Begin, Fetch, ReadError, Push,
        CloseCancel, DropQueue, HangUp, CloseChans
<1>7. ASSUME NEW h \in Handlers, Setup(h) \/ Assign(h) PROVE ~ crashed' /\ Conn' # None
  BY <1>2, <1>7 DEF Setup, Assign
<1>8. ASSUME NEW h \in Handlers, ReaderStep(h) PROVE ~ crashed' /\ writeChan' = writeChan /\ Conn' = Conn
                 /\ at' = at /\ out' = out /\ pc' = pc
  BY <1>2, <1>8 DEF ReaderStep, StartReadLoop, ReaderMakesQueue, ProcessFrame, FindQueue, EnqueueCommand
<1>9. ASSUME NEW h \in Handlers, writeLoop(h) PROVE ~ crashed' /\ Conn' # None
  BY <1>2, <1>9 DEF writeLoop
<1>10. ASSUME NEW q \in Queues, commandWorker(q) PROVE ~ crashed' /\ writeChan' = writeChan /\ Conn' = Conn
                 /\ at' = at /\ out' = out /\ pc' = pc
  BY <1>2, <1>10 DEF commandWorker
<1>11. ASSUME NEW w \in Writers, CheckConn(w) PROVE ~ crashed' /\ Conn' # None
  BY <1>2, <1>11 DEF CheckConn
<1>12. ASSUME NEW w \in Writers, PickChan(w)
       PROVE  /\ ~ crashed' /\ writeChan' = writeChan /\ Conn' = Conn /\ out' = out /\ pc' = pc
              /\ \A v \in Writers : at'[v] \in Handlers => Conn' # None
  <2>1. ~ crashed' /\ writeChan' = writeChan /\ Conn' = Conn /\ out' = out /\ pc' = pc
    BY <1>2, <1>12 DEF PickChan
  <2>2. ASSUME NEW v \in Writers, at'[v] \in Handlers PROVE Conn' # None
    <3>1. CASE v = w
      <4>1. CASE writeChan = None
        <5>1. at'[v] = "blocked" BY <1>3, <1>12, <3>1, <4>1 DEF PickChan
        <5>2. QED BY <2>2, <5>1, SessionAssumption
      <4>2. CASE writeChan # None BY <1>2, <2>1, <4>2
      <4>3. QED BY <4>1, <4>2
    <3>2. CASE v # w
      <4>1. at'[v] = at[v] BY <1>3, <1>12, <3>2 DEF PickChan
      <4>2. QED BY <1>2, <2>1, <2>2, <4>1
    <3>3. QED BY <3>1, <3>2
  <2>3. QED BY <2>1, <2>2
<1>13. ASSUME NEW w \in Writers, Send(w) PROVE ~ crashed' /\ Conn' # None
  <2>1. at[w] \in Handlers /\ Conn # None BY <1>2, <1>13 DEF Send
  <2>2. ~ ChanClosed(at[w]) BY <1>1, <2>1 DEF ChanClosed, Gone
  <2>3. QED BY <1>2, <1>13, <2>1, <2>2 DEF Send
<1>14. CASE UNCHANGED vars BY <1>2, <1>14 DEF vars
<1>15. QED
  BY <1>2, <1>5, <1>6, <1>7, <1>8, <1>9, <1>10, <1>11, <1>12, <1>13, <1>14 DEF Next, WriterStep

\* The gateway panics, on a closed channel or on a connection that is nil, only once close
\* has run in some session: a writer is never in danger while sessions come and overlap,
\* as long as none of them has ended and handleLocal has not given up on one.
THEOREM PanicsNeedClose ==
    ASSUME "slow" \notin Allow PROVE Spec => []CrashNeedsClose
<1>1. Init => IInv /\ PanicInv
  <2> SUFFICES ASSUME Init PROVE PanicInv BY InitHolds
  <2>1. /\ ~ crashed /\ writeChan = None /\ \A h \in Handlers : out[h] = 0 /\ pc[h] = "new"
        /\ \A w \in Writers : at[w] = "idle"
    BY DEF Init
  <2>2. \A w \in Writers : at[w] \notin Handlers BY <2>1, SessionAssumption
  <2>3. QED BY <2>1, <2>2 DEF PanicInv
<1>2. IInv /\ PanicInv /\ [Next]_vars => (IInv /\ PanicInv)' BY NextKeeps, PanicStep DEF IInv
<1>3. PanicInv => CrashNeedsClose BY DEF PanicInv, CrashNeedsClose
<1>4. QED BY <1>1, <1>2, <1>3, PTL DEF Spec

-----------------------------------------------------------------------------
(* The order of commands. *)

\* A command of connection f[1] is executed after every executed one that the client
\* sent before it, and none that it sent later was executed first, until close has cleared
\* Conn in its session; and unless that session began while another was dropping its queue:
\* then commands may wait in the old queue and later ones overtake them.
InTurn(h) == ~ Gone(h) /\ h \notin overtaken

CommandsInOrder ==
    \A f \in Frames : executed'[f] # executed[f] /\ InTurn(f[1]) =>
        \A e \in Frames : e[1] = f[1] /\ executed[e] # 0 => e[2] < f[2]

\* The frames processed are the first ones.
LineInv == \A c \in Handlers : \A i \in 1..Len(log[c]) : log[c][i] = i

\* A readLoop runs in a session that has begun.
RunInv == \A h \in Handlers : reader[h] \in {"run", "send"} => pc[h] \in Started \/ Gone(h)

\* Commands of such a session wait in its own queue, in their order, and those executed
\* came before.
QueueInv ==
    \A h \in Handlers : InTurn(h) =>
        /\ \A q \in Queues : \A i \in 1..Len(tasks[q]) : tasks[q][i][1] = h => q = << h, "handler" >>
        /\ \A q \in Queues : \A i, j \in 1..Len(tasks[q]) :
              i < j /\ tasks[q][i][1] = h /\ tasks[q][j][1] = h => tasks[q][i][2] < tasks[q][j][2]
        /\ \A e \in Frames : \A q \in Queues : \A i \in 1..Len(tasks[q]) :
              e[1] = h /\ executed[e] # 0 /\ tasks[q][i][1] = h => e[2] < tasks[q][i][2]

CInv == SInv /\ LineInv /\ RunInv /\ QueueInv

\* The log grows by the next number or not at all.
LEMMA LineStep ==
    ASSUME TypeOK, LineInv, [Pipe!Next]_log
    PROVE  LineInv'
<1>1. ASSUME NEW c \in Handlers, Pipe!Process(c) PROVE LineInv'
  <2>1. PICK l, n : l = log[c] /\ n = Len(l) OBVIOUS
  <2>2. l \in Seq(1..MaxFrames) /\ n \in Nat /\ DOMAIN log = Handlers
    BY <2>1, LenProperties DEF TypeOK
  <2>3. \A i \in 1..n : l[i] = i BY <2>1 DEF LineInv
  <2>4. l \in Seq(Nat) /\ n + 1 \in Nat
    <3>1. 1..MaxFrames \subseteq Nat BY SessionAssumption
    <3>2. l \in Seq(Nat) BY <2>2, <3>1, SeqMonotonic
    <3>3. QED BY <2>2, <3>2
  <2>5. PICK k : k = Append(l, n + 1) OBVIOUS
  <2>6. Len(k) = n + 1 /\ (\A i \in 1..n : k[i] = l[i]) /\ k[n + 1] = n + 1
    BY <2>1, <2>4, <2>5, AppendIs
  <2>7. log'[c] = k /\ \A d \in Handlers \ {c} : log'[d] = log[d]
    BY <1>1, <2>1, <2>2, <2>5 DEF Pipe!Process
  <2>8. \A i \in 1..(n + 1) : k[i] = i BY <2>2, <2>3, <2>6
  <2>9. \A d \in Handlers : \A i \in 1..Len(log'[d]) : log'[d][i] = i
    BY <2>6, <2>7, <2>8 DEF LineInv
  <2>10. QED BY <2>9 DEF LineInv
<1>2. CASE UNCHANGED log BY <1>2 DEF LineInv
<1>3. QED BY <1>1, <1>2 DEF Pipe!Next

\* A readLoop is started by the session, and runs until its session is gone, and longer.
LEMMA RunStep ==
    ASSUME TypeOK, SerialInv, RunInv, [Next]_vars
    PROVE  RunInv'
<1> SUFFICES ASSUME NEW h \in Handlers, reader'[h] \in {"run", "send"}
             PROVE  pc'[h] \in Started \/ Gone(h)'
  BY DEF RunInv
<1> USE DEF connVars, workVars, writeVars
<1>1. DOMAIN reader = Handlers BY DEF TypeOK
<1>2. reader[h] \in {"start", "make", "run", "send"}
  <2>1. CASE reader' = reader BY <2>1
  <2>2. ASSUME NEW g \in Handlers, Setup(g) \/ MakeQueue(g)
        PROVE  reader' = reader \/ reader' = [reader EXCEPT ![g] = "start"]
    BY <2>2 DEF Setup, MakeQueue, Begin
  <2>3. ASSUME NEW g \in Handlers, reader' = [reader EXCEPT ![g] = "start"]
        PROVE  reader[h] \in {"start", "make", "run", "send"}
    BY <1>1, <2>3
  <2>4. ASSUME NEW g \in Handlers, NEW r, reader' = [reader EXCEPT ![g] = r],
               reader[g] \in {"start", "make", "run", "send"}
        PROVE  reader[h] \in {"start", "make", "run", "send"}
    BY <1>1, <2>4
  <2>5. ASSUME NEW g \in Handlers, ReaderStep(g)
        PROVE  /\ reader[g] \in {"start", "make", "run", "send"}
               /\ reader' = reader \/ \E r : reader' = [reader EXCEPT ![g] = r]
    BY <2>5 DEF ReaderStep, StartReadLoop, ReaderMakesQueue, ProcessFrame, FindQueue, EnqueueCommand
  <2>6. ASSUME NEW g \in Handlers, ClientStep(g) PROVE reader' = reader
    BY <2>6 DEF ClientStep, Connect, ReadMessage, ClientCloses
  <2>7. ASSUME NEW g \in Handlers, HandlerStep(g) PROVE Setup(g) \/ MakeQueue(g) \/ reader' = reader
    BY <2>7 DEF HandlerStep, Evict, OldIsGone, ForceReset, Upgrade, Assign, Fetch, ReadError, Push,
                CloseCancel, CloseDrop, DropQueue, HangUp, CloseChans
  <2>8. ASSUME NEW g \in Handlers, writeLoop(g) PROVE reader' = reader BY <2>8 DEF writeLoop
  <2>9. ASSUME NEW q \in Queues, commandWorker(q) PROVE reader' = reader
    BY <2>9 DEF commandWorker
  <2>10. ASSUME NEW w \in Writers, WriterStep(w) PROVE reader' = reader
    BY <2>10 DEF WriterStep, CheckConn, PickChan, Send
  <2>11. CASE UNCHANGED vars BY <2>1, <2>11 DEF vars
  <2>12. ASSUME NEW g \in Handlers, HandlerStep(g) PROVE reader[h] \in {"start", "make", "run", "send"}
    BY <2>1, <2>2, <2>3, <2>7, <2>12
  <2>13. ASSUME NEW g \in Handlers, ReaderStep(g) PROVE reader[h] \in {"start", "make", "run", "send"}
    BY <2>1, <2>4, <2>5, <2>13
  <2>14. QED BY <2>1, <2>6, <2>8, <2>9, <2>10, <2>11, <2>12, <2>13 DEF Next
<1>3. pc[h] \in Started \/ Gone(h) BY <1>2 DEF SerialInv, RunInv, Started
<1>4. CASE Gone(h) BY <1>4, GoneStays
<1>5. CASE pc[h] \in Started
  <2>1. InSession(h) BY <1>5 DEF InSession
  <2>2. \/ pc'[h] = pc[h] \/ pc'[h] \in {"fetch", "blocked", "close", "push", "drop", "queue"}
    BY <1>5, <2>1, SessionMoves DEF Started, Reading
  <2>3. QED BY <1>5, <2>2 DEF Started, Reading, Gone
<1>6. QED BY <1>3, <1>4, <1>5

\* A session that is out of turn stays so.
LEMMA InTurnStays ==
    ASSUME TypeOK, [Next]_vars, NEW h \in Handlers, InTurn(h)'
    PROVE  InTurn(h)
<1>1. overtaken \subseteq overtaken'
  BY DEF Next, ClientStep, HandlerStep, ReaderStep, WriterStep, Connect, Evict, OldIsGone, ForceReset,
         Upgrade, Assign, Setup, MakeQueue, Fetch, ReadMessage, ReadError, Push, CloseCancel, CloseDrop,
         DropQueue, HangUp, CloseChans, ClientCloses, StartReadLoop, ReaderMakesQueue, ProcessFrame,
         FindQueue, EnqueueCommand, commandWorker, CheckConn, PickChan, Send, writeLoop, connVars, vars
<1>2. QED BY <1>1, GoneStays DEF InTurn

\* Where no command is queued or executed.
LEMMA QueueStays ==
    ASSUME TypeOK, [Next]_vars, QueueInv, UNCHANGED << tasks, executed >>
    PROVE  QueueInv' /\ CommandsInOrder
<1>1. \A h \in Handlers : InTurn(h)' => InTurn(h) BY InTurnStays
<1>2. QueueInv' BY <1>1 DEF QueueInv
<1>3. QED BY <1>2 DEF CommandsInOrder

\* The worker takes the first one.
LEMMA QueueWork ==
    ASSUME IInv, QueueInv, [Next]_vars, NEW q \in Queues, commandWorker(q)
    PROVE  QueueInv' /\ CommandsInOrder
<1>1. TypeOK /\ TaskInv BY DEF IInv
<1>2. PICK s, f, t, m : s = tasks[q] /\ f = s[1] /\ t = Tail(s) /\ m = Len(s) OBVIOUS
<1>3. /\ s \in Seq(Frames) /\ s # << >> /\ DOMAIN tasks = Queues /\ executed \in [Frames -> Nat]
  BY <1>1, <1>2 DEF TypeOK, commandWorker
<1>4. /\ m \in Nat \ {0} /\ Len(t) = m - 1 /\ (\A i \in 1..(m - 1) : t[i] = s[i + 1])
      /\ Head(s) = f /\ f \in Frames
  BY <1>2, <1>3, TailIs
<1>5. /\ tasks' = [tasks EXCEPT ![q] = t] /\ executed' = [executed EXCEPT ![f] = @ + 1] /\ pc' = pc /\ overtaken' = overtaken
  BY <1>2, <1>4 DEF commandWorker, Execute, connVars
<1>6. /\ tasks'[q] = t /\ \A r \in Queues \ {q} : tasks'[r] = tasks[r]
      /\ \A e \in Frames \ {f} : executed'[e] = executed[e]
  BY <1>3, <1>4, <1>5
<1>7. \A h : InTurn(h)' <=> InTurn(h) BY <1>5 DEF Gone, InTurn
\* What waits has waited, one place further back in this queue.
<1>8. ASSUME NEW r \in Queues, NEW i \in 1..Len(tasks'[r])
      PROVE  \E x \in 1..Len(tasks[r]) : /\ tasks'[r][i] = tasks[r][x]
                                         /\ x = IF r = q THEN i + 1 ELSE i
  <2>1. CASE r = q
    <3>1. i + 1 \in 1..m /\ i \in 1..(m - 1) BY <1>4, <1>6, <2>1
    <3>2. QED BY <1>2, <1>4, <1>6, <2>1, <3>1
  <2>2. CASE r # q BY <1>6, <2>2
  <2>3. QED BY <2>1, <2>2
<1>9. 1 \in 1..Len(tasks[q]) /\ tasks[q][1] = f BY <1>2, <1>4
<1>10. ASSUME NEW h \in Handlers, InTurn(h)
       PROVE  /\ \A r \in Queues : \A i \in 1..Len(tasks'[r]) : tasks'[r][i][1] = h => r = << h, "handler" >>
              /\ \A r \in Queues : \A i, j \in 1..Len(tasks'[r]) :
                    i < j /\ tasks'[r][i][1] = h /\ tasks'[r][j][1] = h => tasks'[r][i][2] < tasks'[r][j][2]
              /\ \A e \in Frames : \A r \in Queues : \A i \in 1..Len(tasks'[r]) :
                    e[1] = h /\ executed'[e] # 0 /\ tasks'[r][i][1] = h => e[2] < tasks'[r][i][2]
  <2>1. \A r \in Queues : \A i \in 1..Len(tasks[r]) : tasks[r][i][1] = h => r = << h, "handler" >>
    BY <1>10 DEF QueueInv
  <2>2. \A r \in Queues : \A i, j \in 1..Len(tasks[r]) :
            i < j /\ tasks[r][i][1] = h /\ tasks[r][j][1] = h => tasks[r][i][2] < tasks[r][j][2]
    BY <1>10 DEF QueueInv
  <2>3. \A e \in Frames : \A r \in Queues : \A i \in 1..Len(tasks[r]) :
            e[1] = h /\ executed[e] # 0 /\ tasks[r][i][1] = h => e[2] < tasks[r][i][2]
    BY <1>10 DEF QueueInv
  <2>4. \A r \in Queues : \A i \in 1..Len(tasks'[r]) : tasks'[r][i][1] = h => r = << h, "handler" >>
    BY <1>8, <2>1
  <2>5. ASSUME NEW r \in Queues, NEW i \in 1..Len(tasks'[r]), NEW j \in 1..Len(tasks'[r]),
               i < j, tasks'[r][i][1] = h, tasks'[r][j][1] = h
        PROVE  tasks'[r][i][2] < tasks'[r][j][2]
    <3>1. PICK x \in 1..Len(tasks[r]) : /\ tasks'[r][i] = tasks[r][x]
                                        /\ x = IF r = q THEN i + 1 ELSE i
      BY <1>8
    <3>2. PICK y \in 1..Len(tasks[r]) : /\ tasks'[r][j] = tasks[r][y]
                                        /\ y = IF r = q THEN j + 1 ELSE j
      BY <1>8
    <3>3. i \in Int /\ j \in Int OBVIOUS
    <3>4. x < y BY <2>5, <3>1, <3>2, <3>3
    <3>5. tasks[r][x][1] = h /\ tasks[r][y][1] = h BY <2>5, <3>1, <3>2
    <3>6. tasks[r][x][2] < tasks[r][y][2] BY <2>2, <3>4, <3>5
    <3>7. QED BY <3>1, <3>2, <3>6
  <2>6. ASSUME NEW e \in Frames, NEW r \in Queues, NEW i \in 1..Len(tasks'[r]),
               e[1] = h, executed'[e] # 0, tasks'[r][i][1] = h
        PROVE  e[2] < tasks'[r][i][2]
    <3>1. PICK x \in 1..Len(tasks[r]) : /\ tasks'[r][i] = tasks[r][x]
                                        /\ x = IF r = q THEN i + 1 ELSE i
      BY <1>8
    <3>2. tasks[r][x][1] = h BY <2>6, <3>1
    <3>3. CASE e = f
      <4>1. r = q BY <1>9, <2>1, <2>6, <3>2, <3>3
      <4>2. i \in Int /\ i >= 1 OBVIOUS
      <4>3. 1 < x BY <3>1, <4>1, <4>2
      <4>4. tasks[q][1][2] < tasks[r][x][2] BY <1>9, <2>2, <2>6, <3>2, <3>3, <4>1, <4>3
      <4>5. QED BY <1>9, <3>1, <3>3, <4>4
    <3>4. CASE e # f
      <4>1. executed[e] # 0 BY <1>6, <2>6, <3>4
      <4>2. e[2] < tasks[r][x][2] BY <2>3, <2>6, <3>2, <4>1
      <4>3. QED BY <3>1, <4>2
    <3>5. QED BY <3>3, <3>4
  <2>7. QED BY <2>4, <2>5, <2>6
<1>11. QueueInv' BY <1>7, <1>10 DEF QueueInv
<1>12. ASSUME NEW g \in Frames, executed'[g] # executed[g], InTurn(g[1]), NEW e \in Frames, e[1] = g[1],
              executed[e] # 0
       PROVE  e[2] < g[2]
  <2>1. g = f BY <1>6, <1>12
  <2>2. f[1] \in Handlers BY <1>4, FrameParts
  <2>3. PICK h \in Handlers : h = f[1] BY <2>2
  <2>4. tasks[q][1][1] = h /\ e[1] = h /\ InTurn(h) BY <1>9, <1>12, <2>1, <2>3
  <2>5. e[2] < tasks[q][1][2] BY <1>9, <1>12, <2>4 DEF QueueInv
  <2>6. QED BY <1>9, <2>1, <2>5
<1>13. CommandsInOrder BY <1>12 DEF CommandsInOrder
<1>14. QED BY <1>11, <1>13

\* The readLoop of a session that is not gone queues, behind all that it has processed,
\* and no other queues or executes a command of its connection.
LEMMA QueueProcess ==
    ASSUME IInv, SerialInv, OrderInv, LineInv, RunInv, QueueInv, NEW g \in Handlers, Processing(g)
    PROVE  QueueInv' /\ CommandsInOrder
<1>1. TypeOK /\ TaskInv /\ ApartInv BY DEF IInv
<1>2. PICK s, f, n : s = readChan[g] /\ f = Head(s) /\ n = Len(log[g]) OBVIOUS
<1>3. s \in Seq(Frames) /\ s # << >> /\ DOMAIN tasks = Queues /\ tasks \in [Queues -> Seq(Frames)]
  BY <1>1, <1>2 DEF TypeOK, Processing, Processed
<1>4. f = s[1] /\ f \in Frames /\ Len(s) \in Nat \ {0} /\ n \in Nat BY <1>1, <1>2, <1>3, TailIs, Elements
<1>5. f[1] = g /\ f[2] = n + 1
  <2>1. 1 \in 1..Len(s) BY <1>4
  <2>2. QED BY <1>2, <1>4, <2>1 DEF OrderInv
<1>6. Handled(f) /\ pc' = pc /\ overtaken' = overtaken /\ reader[g] \in {"run", "send"}
  BY <1>2 DEF Processing
\* The frame is behind every one that waits or was executed.
<1>7. ASSUME NEW e \in Frames, e[1] = g, Logged(e) PROVE e[2] < f[2] /\ e[2] \in Nat
  <2>1. PICK i \in 1..Len(log[g]) : log[g][i] = e[2] BY <1>7 DEF Logged
  <2>2. log[g][i] = i BY DEF LineInv
  <2>3. QED BY <1>2, <1>4, <1>5, <2>1, <2>2
<1>8. \A q \in Queues : \A i \in 1..Len(tasks[q]) : tasks[q][i] \in Frames /\ Logged(tasks[q][i])
  BY <1>1, Elements DEF TaskInv
<1>9. \A e \in Frames : executed[e] # 0 => Logged(e) BY <1>1 DEF TaskInv
<1>10. InTurn(g) => commandQueue = << g, "handler" >> /\ commandQueue # None
  BY <1>6, SessionNames DEF RunInv, SerialInv, OwnQueueInv, InTurn
<1>11. \A h : InTurn(h)' <=> InTurn(h) BY <1>6 DEF Gone, InTurn
<1>12. CASE UNCHANGED << executed, tasks >> BY <1>11, <1>12 DEF QueueInv, CommandsInOrder
\* It is executed at once: its session is gone.
<1>13. CASE Execute(f) /\ commandQueue = None /\ UNCHANGED tasks
  <2>1. ~ InTurn(g) BY <1>10, <1>13
  <2>2. \A e \in Frames \ {f} : executed'[e] = executed[e] BY <1>1, <1>13 DEF Execute, TypeOK
  <2>3. \A e \in Frames : InTurn(e[1]) => executed'[e] = executed[e] BY <1>5, <2>1, <2>2
  <2>4. QueueInv' BY <1>11, <1>13, <2>3 DEF QueueInv
  <2>5. QED BY <2>3, <2>4 DEF CommandsInOrder
<1>14. CASE /\ commandQueue # None
            /\ tasks' = [tasks EXCEPT ![commandQueue] = Append(@, f)] /\ UNCHANGED executed
  <2>1. PICK q, t, m : q = commandQueue /\ t = Append(tasks[q], f) /\ m = Len(tasks[q]) OBVIOUS
  <2>2. q \in Queues /\ tasks[q] \in Seq(Frames) BY <1>1, <1>3, <1>14, <2>1 DEF TypeOK
  <2>3. m \in Nat /\ Len(t) = m + 1 /\ (\A i \in 1..m : t[i] = tasks[q][i]) /\ t[m + 1] = f
    BY <1>4, <2>1, <2>2, AppendIs
  <2>4. tasks'[q] = t /\ \A r \in Queues \ {q} : tasks'[r] = tasks[r] BY <1>3, <1>14, <2>1, <2>2
  <2>5. ASSUME NEW r \in Queues, NEW i \in 1..Len(tasks'[r])
        PROVE  \/ i \in 1..Len(tasks[r]) /\ tasks'[r][i] = tasks[r][i]
               \/ r = q /\ i = m + 1 /\ tasks'[r][i] = f
    <3>1. CASE r = q BY <2>1, <2>3, <2>4, <3>1
    <3>2. CASE r # q BY <2>4, <3>2
    <3>3. QED BY <3>1, <3>2
  <2>6. ASSUME NEW h \in Handlers, InTurn(h)
        PROVE  /\ \A r \in Queues : \A i \in 1..Len(tasks'[r]) : tasks'[r][i][1] = h => r = << h, "handler" >>
               /\ \A r \in Queues : \A i, j \in 1..Len(tasks'[r]) :
                     i < j /\ tasks'[r][i][1] = h /\ tasks'[r][j][1] = h => tasks'[r][i][2] < tasks'[r][j][2]
               /\ \A e \in Frames : \A r \in Queues : \A i \in 1..Len(tasks'[r]) :
                     e[1] = h /\ executed'[e] # 0 /\ tasks'[r][i][1] = h => e[2] < tasks'[r][i][2]
    <3>1. \A r \in Queues : \A i \in 1..Len(tasks[r]) : tasks[r][i][1] = h => r = << h, "handler" >>
      BY <2>6 DEF QueueInv
    <3>2. \A r \in Queues : \A i, j \in 1..Len(tasks[r]) :
              i < j /\ tasks[r][i][1] = h /\ tasks[r][j][1] = h => tasks[r][i][2] < tasks[r][j][2]
      BY <2>6 DEF QueueInv
    <3>3. \A e \in Frames : \A r \in Queues : \A i \in 1..Len(tasks[r]) :
              e[1] = h /\ executed[e] # 0 /\ tasks[r][i][1] = h => e[2] < tasks[r][i][2]
      BY <2>6 DEF QueueInv
    <3>4. h = g => q = << h, "handler" >> BY <1>10, <2>1, <2>6
    <3>5. \A r \in Queues : \A i \in 1..Len(tasks'[r]) : tasks'[r][i][1] = h => r = << h, "handler" >>
      BY <1>5, <2>5, <3>1, <3>4
    <3>6. ASSUME NEW r \in Queues, NEW i \in 1..Len(tasks'[r]), NEW j \in 1..Len(tasks'[r]),
                 i < j, tasks'[r][i][1] = h, tasks'[r][j][1] = h
          PROVE  tasks'[r][i][2] < tasks'[r][j][2]
      <4>1. \/ i \in 1..Len(tasks[r]) /\ tasks'[r][i] = tasks[r][i]
            \/ r = q /\ i = m + 1 /\ tasks'[r][i] = f
        BY <2>5
      <4>2. \/ j \in 1..Len(tasks[r]) /\ tasks'[r][j] = tasks[r][j]
            \/ r = q /\ j = m + 1 /\ tasks'[r][j] = f
        BY <2>5
      <4>3. CASE i \in 1..Len(tasks[r]) /\ tasks'[r][i] = tasks[r][i] /\ j \in 1..Len(tasks[r]) /\ tasks'[r][j] = tasks[r][j]
        BY <3>2, <3>6, <4>3
      <4>4. CASE i \in 1..Len(tasks[r]) /\ tasks'[r][i] = tasks[r][i] /\ tasks'[r][j] = f
        <5>1. h = g /\ tasks[r][i][1] = g BY <1>5, <3>6, <4>4
        <5>2. tasks[r][i] \in Frames /\ Logged(tasks[r][i]) BY <1>8, <4>4
        <5>3. QED BY <1>7, <4>4, <5>1, <5>2
      <4>5. CASE r = q /\ i = m + 1
        <5>1. Len(tasks'[r]) = m + 1 BY <2>3, <2>4, <4>5
        <5>2. j <= m + 1 /\ j \in Int BY <2>3, <5>1
        <5>3. QED BY <2>3, <3>6, <4>5, <5>2
      <4>6. QED BY <4>1, <4>2, <4>3, <4>4, <4>5
    <3>7. ASSUME NEW e \in Frames, NEW r \in Queues, NEW i \in 1..Len(tasks'[r]),
                 e[1] = h, executed'[e] # 0, tasks'[r][i][1] = h
          PROVE  e[2] < tasks'[r][i][2]
      <4>1. executed[e] # 0 /\ Logged(e) BY <1>9, <1>14, <3>7
      <4>2. CASE i \in 1..Len(tasks[r]) /\ tasks'[r][i] = tasks[r][i] BY <3>3, <3>7, <4>1, <4>2
      <4>3. CASE tasks'[r][i] = f
        <5>1. e[1] = g BY <1>5, <3>7, <4>3
        <5>2. QED BY <1>7, <4>1, <4>3, <5>1
      <4>4. QED BY <2>5, <4>2, <4>3
    <3>8. QED BY <3>5, <3>6, <3>7
  <2>7. QueueInv' BY <1>11, <2>6 DEF QueueInv
  <2>8. QED BY <1>14, <2>7 DEF CommandsInOrder
<1>15. QED BY <1>6, <1>12, <1>13, <1>14 DEF Handled

\* Each step keeps all of it, and executes in order.
LEMMA CommandsNext ==
    ASSUME Serial, CInv, [Next]_vars
    PROVE  CInv' /\ CommandsInOrder
<1>1. IInv /\ TypeOK /\ SerialInv /\ OrderInv /\ LineInv /\ RunInv /\ QueueInv BY DEF CInv, SInv, IInv
<1>2. SInv' /\ LineInv' /\ RunInv' BY <1>1, SerialNext, LineStep, RunStep DEF CInv
<1>3. tasks' = tasks /\ executed' = executed => QueueInv' /\ CommandsInOrder
  BY <1>1, QueueStays
<1> USE DEF connVars, workVars, writeVars
<1>4. ASSUME NEW h \in Handlers, ClientStep(h) PROVE tasks' = tasks /\ executed' = executed
  BY <1>4 DEF ClientStep, Connect, ReadMessage, ClientCloses
<1>5. ASSUME NEW h \in Handlers, HandlerStep(h) PROVE tasks' = tasks /\ executed' = executed
  BY <1>5 DEF HandlerStep, Evict, OldIsGone, ForceReset, Upgrade, Assign, Setup, MakeQueue, Fetch,
              ReadError, Push, CloseCancel, CloseDrop, DropQueue, HangUp, CloseChans
<1>6. ASSUME NEW h \in Handlers, LoopStep(h) \/ writeLoop(h) PROVE tasks' = tasks /\ executed' = executed
  BY <1>6 DEF LoopStep, StartReadLoop, ReaderMakesQueue, FindQueue, writeLoop
<1>7. ASSUME NEW w \in Writers, WriterStep(w) PROVE tasks' = tasks /\ executed' = executed
  BY <1>7 DEF WriterStep, CheckConn, PickChan, Send
<1>8. ASSUME NEW h \in Handlers, ProcessFrame(h) \/ EnqueueCommand(h) PROVE QueueInv' /\ CommandsInOrder
  BY <1>1, <1>8, ProcessingIs, QueueProcess
<1>9. ASSUME NEW q \in Queues, commandWorker(q) PROVE QueueInv' /\ CommandsInOrder
  BY <1>1, <1>9, QueueWork
<1>10. ASSUME UNCHANGED vars PROVE tasks' = tasks /\ executed' = executed BY <1>10 DEF vars
<1>11. QueueInv' /\ CommandsInOrder
  <2>1. \/ tasks' = tasks /\ executed' = executed
        \/ \E h \in Handlers : ProcessFrame(h) \/ EnqueueCommand(h)
        \/ \E q \in Queues : commandWorker(q)
    BY <1>4, <1>5, <1>6, <1>7, <1>10 DEF Next, ReaderStep, LoopStep
  <2>2. QED BY <1>3, <1>8, <1>9, <2>1
<1>12. QED BY <1>2, <1>11 DEF CInv

\* While sessions follow each other: the commands of a connection that are executed are
\* executed in the order in which the client sent them, although a frame may be executed
\* by a worker or by the readLoop itself, until close has cleared Conn in its session, and
\* unless the session began while another was dropping its queue.
THEOREM CommandsOrdered == ASSUME Serial PROVE Spec => [][CommandsInOrder]_vars
<1>1. Init => CInv
  <2> SUFFICES ASSUME Init PROVE LineInv /\ RunInv /\ QueueInv BY SerialInit DEF CInv
  <2>1. /\ \A h \in Handlers : Len(log[h]) = 0 /\ reader[h] = "none"
        /\ \A q \in Queues : Len(tasks[q]) = 0
    BY DEF Init
  <2>2. LineInv /\ RunInv BY <2>1 DEF LineInv, RunInv
  <2>3. QueueInv BY <2>1 DEF QueueInv
  <2>4. QED BY <2>2, <2>3
<1>2. CInv /\ [Next]_vars => CInv' /\ [CommandsInOrder]_vars BY CommandsNext
<1>3. QED BY <1>1, <1>2, PTL DEF Spec

================================================================================
