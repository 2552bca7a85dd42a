----------------------------- MODULE ApiCallProofs -----------------------------
(***************************************************************************)
(* Theorems about ApiCall for any calls, hooks, readLoops and sessions.    *)
(***************************************************************************)
EXTENDS ApiCall, SequenceTheorems, TLAPS

-----------------------------------------------------------------------------
(* The inductive invariant. *)

Carries(i, c) == wire[i] = << "answer", c >>
OnWire(c)     == \E i \in 1..Len(wire) : Carries(i, c)
Holds(r, c)   == reader[r].at \in {"found", "filled"} /\ reader[r].call = c

\* The request of c is in the channel of some session.
InChannel(c)  == \E s \in Sessions : << s, c >> \in queued

\* A call in the map is registered, nothing was done with its channel, and if it has
\* returned, its send panicked.
MapInv ==
    \A c \in waiters :
        /\ pc[c] \notin {"new", "checked"} /\ slot[c] = None /\ c \notin closed
        /\ (pc[c] = "returned" => result[c] = "panic" /\ Closed(target[c]))

\* A reader that took a waiter out of the map is the only one that has it.
ReaderInv ==
    \A r \in Readers, c \in Calls :
        Holds(r, c) =>
            /\ c \notin waiters /\ c \notin closed /\ answers[c] > 0
            /\ \A s \in Readers : Holds(s, c) => s = r
            /\ reader[r].at = "found" => slot[c] = None
            /\ reader[r].at = "filled" => slot[c] = c \/ pc[c] = "returned"

\* A channel holds the answer to its call; it is closed with the answer in it.
SlotInv ==
    \A c \in Calls :
        /\ slot[c] \in {None, c}
        /\ slot[c] = c \/ c \in closed => answers[c] > 0
        /\ c \in closed => slot[c] = c \/ pc[c] = "returned"

\* A request is sent after its call was registered, once, and answered after it was sent.
RequestInv ==
    \A c \in Calls :
        /\ (c \in requests \/ InChannel(c) => answers[c] = 0)
        /\ (c \in requests => ~ InChannel(c))
        /\ \A s, t \in Sessions : << s, c >> \in queued /\ << t, c >> \in queued => s = t
        /\ (c \in requests \/ InChannel(c) \/ answers[c] > 0 =>
               pc[c] \notin {"new", "checked", "registered", "sending"})

\* Before there is a map, and after a panic has left it locked, no call is registered.
StartInv ==
    /\ (maps = 0 \/ jammed => \A c \in Calls : pc[c] \in {"new", "checked", "returned"})
    /\ (writeChan = 0 => maps = 0 /\ \A s \in Sessions : phase[s] \in {"none", "attached"})
    /\ \A c \in Calls : pc[c] = "sending" => target[c] # 0

\* Frames are answers that were given; two for one call are a duplicate.
WireInv ==
    \A c \in Calls :
        /\ OnWire(c) => answers[c] > 0
        /\ \A i, j \in 1..Len(wire) : Carries(i, c) /\ Carries(j, c) /\ i # j => answers[c] > 1

\* While the session lasts a call whose answer is still to come has its waiter.
SessionInv ==
    maps <= 1 =>
        \A c \in Calls :
            /\ pc[c] \in {"registered", "sending"} => c \in waiters
            /\ c \in requests \/ InChannel(c) => c \in waiters \/ pc[c] = "returned"
            /\ OnWire(c) /\ answers[c] <= 1 => c \in waiters \/ pc[c] = "returned"

\* Answers nobody waits for.
StrayInv == \A c \in forwarded : maps > 1 \/ answers[c] > 1 \/ pc[c] = "returned"

IInv == /\ TypeOK /\ MapInv /\ ReaderInv /\ SlotInv
        /\ StartInv /\ RequestInv /\ WireInv /\ SessionInv /\ StrayInv

LEMMA InitInvariant == Init => IInv
<1> SUFFICES ASSUME Init PROVE IInv OBVIOUS
<1>1. TypeOK
  <2>1. reader \in [Readers -> Busy \cup Hooks \cup {Idle}] BY DEF Init
  <2>2. answers \in [Calls -> 0..2] /\ maps \in Nat /\ writeChan \in 0..MaxSessions
        /\ target \in [Calls -> 0..MaxSessions]
    BY ApiAssumption DEF Init
  <2>3. wire \in Seq(AnswerFrames \cup EventFrames) BY DEF Init
  <2>4. slot \in [Calls -> Calls \cup {None}] /\ got \in [Calls -> Calls \cup {None}] BY DEF Init
  <2>5. /\ pc \in [Calls -> {"new", "checked", "registered", "sending", "waiting",
                             "expired", "failed", "returned"}]
        /\ result \in [Calls -> {"none", "answer", "error", "panic"}]
        /\ phase \in [Sessions -> {"none", "attached", "channels", "running", "leaving", "gone"}]
    BY DEF Init
  <2>6. /\ waiters = {} /\ closed = {} /\ requests = {} /\ queued = {} /\ arrived = {}
        /\ forwarded = {} /\ jammed = FALSE /\ crashed = FALSE /\ conn = FALSE
    BY DEF Init
  <2>7. QED BY <2>1, <2>2, <2>3, <2>4, <2>5, <2>6, Zenon DEF TypeOK
<1>2. \A r \in Readers, c \in Calls : ~ Holds(r, c) BY DEF Init, Holds, Idle
<1>3. \A c \in Calls : ~ OnWire(c) BY DEF Init, OnWire
<1>4. MapInv /\ StrayInv BY DEF Init, MapInv, StrayInv
<1>5. ReaderInv BY <1>2 DEF ReaderInv
<1>6. SlotInv BY ApiAssumption DEF Init, SlotInv
<1>7. WireInv BY <1>3 DEF Init, WireInv
<1>8. \A c : ~ InChannel(c) BY DEF Init, InChannel
<1>9. RequestInv BY <1>8 DEF Init, RequestInv
<1>10. SessionInv BY <1>3, <1>8 DEF Init, SessionInv
<1>11. StartInv BY DEF Init, StartInv
<1>12. QED BY <1>1, <1>4, <1>5, <1>6, <1>7, <1>9, <1>10, <1>11 DEF IInv

-----------------------------------------------------------------------------
(* The wire. *)

Frames == AnswerFrames \cup EventFrames

\* The first frame is taken: the others move up.
LEMMA TakeFrame ==
    ASSUME TypeOK, wire # << >>, wire' = Tail(wire)
    PROVE  /\ wire' \in Seq(Frames)
           /\ \A c : Head(wire) = << "answer", c >> => Carries(1, c)
           /\ Len(wire') = Len(wire) - 1 /\ Len(wire) \in Nat /\ Len(wire) > 0
           /\ \A i \in 1..Len(wire') : wire'[i] = wire[i + 1]
           /\ Head(wire) \in Frames /\ Head(wire) = wire[1]
<1>1. wire \in Seq(Frames) BY DEF TypeOK, Frames
<1>2. QED BY <1>1, HeadTailProperties DEF Carries

\* A frame that is an answer names a call.
LEMMA AnswerFrame ==
    ASSUME NEW f \in Frames, f[1] = "answer"
    PROVE  f[2] \in Calls /\ f = << "answer", f[2] >>
BY DEF Frames, AnswerFrames, EventFrames

LEMMA EventFrame ==
    ASSUME NEW f \in Frames, f[1] = "event"
    PROVE  f[2] \in Events
BY DEF Frames, AnswerFrames, EventFrames

\* Taking a frame adds none.
LEMMA TakeKeeps ==
    ASSUME TypeOK, WireInv, wire # << >>, wire' = Tail(wire), answers' = answers
    PROVE  /\ WireInv'
           /\ \A c : OnWire(c)' => OnWire(c)
           /\ \A c \in Calls : Head(wire) = << "answer", c >> /\ OnWire(c)' => answers[c] > 1
<1>1. /\ Len(wire') = Len(wire) - 1 /\ Len(wire) \in Nat /\ Len(wire) > 0
      /\ \A i \in 1..Len(wire') : wire'[i] = wire[i + 1]
      /\ \A c : Head(wire) = << "answer", c >> => Carries(1, c)
  BY TakeFrame
<1>2. \A c : \A i \in 1..Len(wire') : Carries(i, c)' <=> Carries(i + 1, c)
  BY <1>1 DEF Carries
<1>3. \A i \in 1..Len(wire') : i + 1 \in 1..Len(wire) /\ i + 1 # 1 BY <1>1
<1>4. 1 \in 1..Len(wire) BY <1>1
<1>5. \A c : OnWire(c)' => OnWire(c) BY <1>2, <1>3 DEF OnWire
<1>6. WireInv'
  <2>1. ASSUME NEW c \in Calls, NEW i \in 1..Len(wire'), NEW j \in 1..Len(wire'),
               Carries(i, c)', Carries(j, c)', i # j
        PROVE  answers[c] > 1
    <3>1. i + 1 # j + 1 BY <2>1, <1>1
    <3>2. QED BY <1>2, <1>3, <2>1, <3>1 DEF WireInv
  <2>2. QED BY <1>5, <2>1 DEF WireInv
<1>7. ASSUME NEW c \in Calls, Head(wire) = << "answer", c >>, OnWire(c)'
      PROVE  answers[c] > 1
  <2>1. PICK i \in 1..Len(wire') : Carries(i, c)' BY <1>7 DEF OnWire
  <2>2. QED BY <1>1, <1>2, <1>3, <1>4, <1>7, <2>1 DEF WireInv
<1>8. QED BY <1>5, <1>6, <1>7

\* A frame is put at the end.
LEMMA PutFrame ==
    ASSUME TypeOK, NEW f \in Frames, wire' = Append(wire, f)
    PROVE  /\ wire' \in Seq(Frames)
           /\ Len(wire') = Len(wire) + 1 /\ Len(wire) \in Nat
           /\ \A c : \A i \in 1..Len(wire) : Carries(i, c)' <=> Carries(i, c)
           /\ \A c : \A i : i = Len(wire) + 1 => (Carries(i, c)' <=> f = << "answer", c >>)
<1>1. wire \in Seq(Frames) BY DEF TypeOK, Frames
<1>2. /\ wire' \in Seq(Frames) /\ Len(wire') = Len(wire) + 1 /\ Len(wire) \in Nat
      /\ \A i \in 1..Len(wire) : wire'[i] = wire[i]
      /\ wire'[Len(wire) + 1] = f
  BY <1>1, AppendProperties
<1>3. ASSUME NEW c, NEW i \in 1..Len(wire) PROVE Carries(i, c)' <=> Carries(i, c)
  BY <1>2 DEF Carries
<1>4. ASSUME NEW c, NEW i, i = Len(wire) + 1 PROVE Carries(i, c)' <=> f = << "answer", c >>
  BY <1>2, <1>4 DEF Carries
<1>5. QED BY <1>2, <1>3, <1>4

\* What is not on the wire before and not put there is not on it after.
LEMMA PutKeeps ==
    ASSUME TypeOK, NEW f \in Frames, wire' = Append(wire, f)
    PROVE  /\ \A c : OnWire(c)' <=> OnWire(c) \/ f = << "answer", c >>
           /\ \A c : f # << "answer", c >> =>
                \A i, j \in 1..Len(wire') : Carries(i, c)' /\ Carries(j, c)' =>
                     i \in 1..Len(wire) /\ j \in 1..Len(wire) /\ Carries(i, c) /\ Carries(j, c)
           /\ \A c : ~ OnWire(c) =>
                \A i, j \in 1..Len(wire') : Carries(i, c)' /\ Carries(j, c)' => i = j
<1>1. /\ Len(wire') = Len(wire) + 1 /\ Len(wire) \in Nat
      /\ \A c : \A i \in 1..Len(wire) : Carries(i, c)' <=> Carries(i, c)
      /\ \A c : \A i : i = Len(wire) + 1 => (Carries(i, c)' <=> f = << "answer", c >>)
  BY PutFrame
<1>2. \A i \in 1..Len(wire') : i \in 1..Len(wire) \/ i = Len(wire) + 1 BY <1>1
<1>3. /\ \A i \in 1..Len(wire) : i \in 1..Len(wire')
      /\ Len(wire) + 1 \in 1..Len(wire')
  BY <1>1
<1> HIDE DEF Carries
<1>4. \A c : OnWire(c)' <=> OnWire(c) \/ f = << "answer", c >> BY <1>1, <1>2, <1>3, Zenon DEF OnWire
<1>5. \A c : f # << "answer", c >> =>
                \A i, j \in 1..Len(wire') : Carries(i, c)' /\ Carries(j, c)' =>
                     i \in 1..Len(wire) /\ j \in 1..Len(wire) /\ Carries(i, c) /\ Carries(j, c)
  BY <1>1, <1>2, Zenon
<1>6. \A c : ~ OnWire(c) =>
                \A i, j \in 1..Len(wire') : Carries(i, c)' /\ Carries(j, c)' => i = j
  BY <1>1, <1>2, Zenon DEF OnWire
<1>7. QED BY <1>4, <1>5, <1>6, Zenon

\* The wire stays as it is.
LEMMA SameWire ==
    ASSUME WireInv, wire' = wire, answers' = answers
    PROVE  WireInv' /\ \A c : OnWire(c)' <=> OnWire(c)
BY DEF WireInv, OnWire, Carries

-----------------------------------------------------------------------------
(* CallAPI keeps the invariant. *)

\* What a reader has in its hands.
LEMMA ReaderTypes ==
    ASSUME TypeOK, NEW r \in Readers
    PROVE  /\ reader[r].at \in {"found", "filled", "hook", "idle"}
           /\ reader[r].at \in {"found", "filled"} => reader[r].call \in Calls
           /\ reader[r].at = "hook" => reader[r].call \in HookCalls /\ reader[r].call \in Calls
BY DEF TypeOK, Busy, Hooks, Idle, Calls

\* What is neither put into a channel nor taken from one.
LEMMA SameChannels ==
    ASSUME queued' = queued PROVE \A c : InChannel(c)' <=> InChannel(c)
BY DEF InChannel

\* A call whose request is not sent has no answer.
LEMMA NotSent ==
    ASSUME IInv, NEW b \in Calls, pc[b] \in {"new", "checked", "registered", "sending"}
    PROVE  /\ answers[b] = 0 /\ b \notin requests /\ ~ InChannel(b)
           /\ b \notin closed /\ slot[b] = None
           /\ \A r \in Readers : ~ Holds(r, b)
<1>1. answers[b] \in 0..2 BY DEF IInv, TypeOK
<1>2. ~ (b \in requests \/ InChannel(b) \/ answers[b] > 0) BY DEF IInv, RequestInv
<1>3. answers[b] = 0 BY <1>1, <1>2
<1>4. b \notin closed /\ slot[b] = None BY <1>3 DEF IInv, SlotInv
<1>5. \A r \in Readers : ~ Holds(r, b) BY <1>3 DEF IInv, ReaderInv
<1>6. QED BY <1>2, <1>3, <1>4, <1>5

\* A call is registered in a map, and the mutex was not left locked.
LEMMA HasMap ==
    ASSUME IInv, NEW b \in Calls, pc[b] \notin {"new", "checked", "returned"}
    PROVE  maps # 0 /\ ~ jammed /\ writeChan # 0
BY DEF IInv, StartInv

\* Steps of a call that leave the channels, the client, the readers and the sessions alone.
Untouched ==
    /\ closed' = closed /\ queued' = queued
    /\ requests' = requests /\ answers' = answers /\ arrived' = arrived /\ wire' = wire
    /\ reader' = reader /\ forwarded' = forwarded
    /\ conn' = conn /\ phase' = phase /\ writeChan' = writeChan /\ maps' = maps

LEMMA UntouchedKeeps ==
    ASSUME IInv, Untouched
    PROVE  /\ WireInv' /\ (\A c : OnWire(c)' <=> OnWire(c))
           /\ (\A c : InChannel(c)' <=> InChannel(c))
           /\ (\A r, c : Holds(r, c)' <=> Holds(r, c))
           /\ (\A t : Closed(t)' <=> Closed(t))
<1>1. WireInv' /\ \A c : OnWire(c)' <=> OnWire(c) BY SameWire DEF IInv, Untouched
<1>2. \A c : InChannel(c)' <=> InChannel(c) BY SameChannels DEF Untouched
<1>3. \A r, c : Holds(r, c)' <=> Holds(r, c) BY DEF Holds, Untouched
<1>4. \A t : Closed(t)' <=> Closed(t) BY DEF Closed, Untouched
<1>5. QED BY <1>1, <1>2, <1>3, <1>4

\* What is registered is new: no answer to it, and no reader that has it.
LEMMA RegisterKeeps ==
    ASSUME IInv, NEW b \in Calls, Register(b)
    PROVE  IInv'
<1>1. TypeOK BY DEF IInv
<1>2. Untouched BY DEF Register, Untouched, lockVars, clientVars, readVars, sessionVars
<1>3. /\ pc[b] = "checked" /\ ~ jammed /\ slot' = slot /\ target' = target
      /\ \/ /\ maps > 0 /\ waiters' = waiters \cup {b} /\ pc' = [pc EXCEPT ![b] = "registered"]
            /\ result' = result /\ got' = got /\ jammed' = jammed /\ crashed' = crashed
         \/ /\ maps = 0 /\ waiters' = waiters /\ jammed' = TRUE
            /\ \/ /\ pc' = [pc EXCEPT ![b] = "returned"] /\ got' = got /\ crashed' = crashed
                  /\ result' = [result EXCEPT ![b] = "panic"]
               \/ pc' = pc /\ result' = result /\ got' = got /\ crashed' = TRUE
  BY DEF Register, Goto, Fail, Panic, lockVars
<1>4. /\ answers[b] = 0 /\ b \notin requests /\ ~ InChannel(b) /\ b \notin closed
      /\ slot[b] = None /\ b \notin waiters /\ \A r \in Readers : ~ Holds(r, b)
  BY <1>3, NotSent, HasMap DEF IInv, MapInv, SlotInv, SessionInv
<1>5. /\ WireInv' /\ (\A c : OnWire(c)' <=> OnWire(c))
      /\ (\A c : InChannel(c)' <=> InChannel(c))
      /\ (\A r, c : Holds(r, c)' <=> Holds(r, c))
      /\ (\A t : Closed(t)' <=> Closed(t))
  BY <1>2, UntouchedKeeps
<1>7. TypeOK' BY <1>1, <1>2, <1>3 DEF TypeOK, Untouched
<1>8. MapInv' BY <1>1, <1>2, <1>3, <1>4, <1>5 DEF IInv, MapInv, TypeOK, Untouched
<1>9. ReaderInv' BY <1>1, <1>2, <1>3, <1>4, <1>5 DEF IInv, ReaderInv, TypeOK, Untouched
<1>10. SlotInv' BY <1>1, <1>2, <1>3, <1>4, <1>5 DEF IInv, SlotInv, TypeOK, Untouched
<1>11. StartInv'
  <2>1. maps \in Nat /\ DOMAIN pc = Calls BY <1>1 DEF TypeOK
  <2>2. CASE maps > 0
    <3>1. jammed' = jammed /\ ~ jammed /\ maps # 0 BY <1>3, <2>1, <2>2
    <3>2. \A c \in Calls : pc'[c] = "sending" => pc[c] = "sending" BY <1>3, <2>1
    <3>3. QED BY <1>2, <1>3, <2>2, <3>1, <3>2 DEF IInv, StartInv, Untouched
  <2>3. CASE maps = 0
    <3>1. \A c \in Calls : pc'[c] = pc[c] \/ pc'[c] = "returned" BY <1>3, <2>1, <2>3
    <3>2. QED BY <1>2, <1>3, <2>3, <3>1 DEF IInv, StartInv, Untouched
  <2>4. QED BY <2>1, <2>2, <2>3
<1>12. RequestInv' BY <1>1, <1>2, <1>3, <1>4, <1>5 DEF IInv, RequestInv, TypeOK, Untouched
<1>13. SessionInv' BY <1>1, <1>2, <1>3, <1>4, <1>5 DEF IInv, SessionInv, TypeOK, Untouched
<1>14. StrayInv' BY <1>1, <1>2, <1>3, <1>4, <1>5 DEF IInv, StrayInv, TypeOK, Untouched
<1>15. QED BY <1>5, <1>7, <1>8, <1>9, <1>10, <1>11, <1>12, <1>13, <1>14 DEF IInv

\* A call that never was in the map ends, or goes on.
LEMMA NotConnectedKeeps ==
    ASSUME IInv, NEW b \in Calls, NotConnected(b) \/ Connected(b)
    PROVE  IInv'
<1>1. TypeOK BY DEF IInv
<1>2. Untouched BY DEF NotConnected, Connected, MayStart, Untouched, lockVars, clientVars, readVars, sessionVars
<1>3. /\ pc[b] = "new" /\ slot' = slot /\ target' = target /\ waiters' = waiters
      /\ jammed' = jammed /\ crashed' = crashed /\ got' = got
      /\ \/ /\ pc' = [pc EXCEPT ![b] = "returned"] /\ result' = [result EXCEPT ![b] = "error"]
         \/ /\ pc' = [pc EXCEPT ![b] = "checked"] /\ result' = result
  BY DEF NotConnected, Connected, MayStart, Goto, Fail, Panic, lockVars
<1>4. /\ b \notin waiters /\ b \notin requests /\ ~ InChannel(b)
  BY <1>3, NotSent, HasMap DEF IInv, MapInv, SlotInv, SessionInv
<1>5. /\ WireInv' /\ (\A c : OnWire(c)' <=> OnWire(c))
      /\ (\A c : InChannel(c)' <=> InChannel(c))
      /\ (\A r, c : Holds(r, c)' <=> Holds(r, c))
      /\ (\A t : Closed(t)' <=> Closed(t))
  BY <1>2, UntouchedKeeps
<1>7. TypeOK'
  <2>1. /\ pc' \in [Calls -> {"new", "checked", "registered", "sending", "waiting",
                              "expired", "failed", "returned"}]
        /\ result' \in [Calls -> {"none", "answer", "error", "panic"}]
    BY <1>1, <1>3 DEF TypeOK
  <2>2. QED BY <1>1, <1>2, <1>3, <2>1 DEF TypeOK, Untouched
<1>8. MapInv' BY <1>1, <1>2, <1>3, <1>4, <1>5 DEF IInv, MapInv, TypeOK, Untouched
<1>9. ReaderInv' BY <1>1, <1>2, <1>3, <1>4, <1>5 DEF IInv, ReaderInv, TypeOK, Untouched
<1>10. SlotInv' BY <1>1, <1>2, <1>3, <1>4, <1>5 DEF IInv, SlotInv, TypeOK, Untouched
<1>11. StartInv' BY <1>1, <1>2, <1>3, <1>4, <1>5 DEF IInv, StartInv, TypeOK, Untouched
<1>12. RequestInv' BY <1>1, <1>2, <1>3, <1>4, <1>5 DEF IInv, RequestInv, TypeOK, Untouched
<1>13. SessionInv' BY <1>1, <1>2, <1>3, <1>4, <1>5 DEF IInv, SessionInv, TypeOK, Untouched
<1>14. StrayInv' BY <1>1, <1>2, <1>3, <1>4, <1>5 DEF IInv, StrayInv, TypeOK, Untouched
<1>15. QED BY <1>5, <1>7, <1>8, <1>9, <1>10, <1>11, <1>12, <1>13, <1>14 DEF IInv

\* The call that is about to send its request has its waiter, and a channel.
LEMMA SendRequestKeeps ==
    ASSUME IInv, NEW b \in Calls, SendRequest(b)
    PROVE  IInv'
<1>1. TypeOK BY DEF IInv
<1>2. Untouched BY DEF SendRequest, Untouched, lockVars, clientVars, readVars, sessionVars
<1>3. /\ pc[b] = "registered" /\ slot' = slot /\ waiters' = waiters
      /\ jammed' = jammed /\ crashed' = crashed /\ got' = got /\ result' = result
      /\ \/ /\ pc' = [pc EXCEPT ![b] = "sending"] /\ target' = [target EXCEPT ![b] = writeChan]
         \/ /\ pc' = [pc EXCEPT ![b] = "failed"] /\ target' = target
  BY DEF SendRequest, Goto, Fail, Panic, lockVars
<1>4. /\ answers[b] = 0 /\ (maps <= 1 => b \in waiters) /\ ~ InChannel(b) /\ b \notin requests
      /\ writeChan # 0 /\ ~ jammed /\ maps # 0
  BY <1>3, NotSent, HasMap DEF IInv, MapInv, SlotInv, SessionInv
<1>5. /\ WireInv' /\ (\A c : OnWire(c)' <=> OnWire(c))
      /\ (\A c : InChannel(c)' <=> InChannel(c))
      /\ (\A r, c : Holds(r, c)' <=> Holds(r, c))
      /\ (\A t : Closed(t)' <=> Closed(t))
  BY <1>2, UntouchedKeeps
<1>7. TypeOK'
  <2>1. /\ pc \in [Calls -> {"new", "checked", "registered", "sending", "waiting",
                             "expired", "failed", "returned"}]
        /\ target \in [Calls -> 0..MaxSessions] /\ writeChan \in 0..MaxSessions
    BY <1>1 DEF TypeOK
  <2>2. pc' \in [Calls -> {"new", "checked", "registered", "sending", "waiting",
                          "expired", "failed", "returned"}]
    BY <1>3, <2>1
  <2>3. target' \in [Calls -> 0..MaxSessions] BY ONLY <1>3, <2>1, b \in Calls
  <2>4. QED BY <1>1, <1>2, <1>3, <2>2, <2>3 DEF TypeOK, Untouched
<1>8. MapInv' BY <1>1, <1>2, <1>3, <1>4, <1>5 DEF IInv, MapInv, TypeOK, Untouched
<1>9. ReaderInv' BY <1>1, <1>2, <1>3, <1>4, <1>5 DEF IInv, ReaderInv, TypeOK, Untouched
<1>10. SlotInv' BY <1>1, <1>2, <1>3, <1>4, <1>5 DEF IInv, SlotInv, TypeOK, Untouched
<1>11. StartInv' BY <1>1, <1>2, <1>3, <1>4, <1>5 DEF IInv, StartInv, TypeOK, Untouched
<1>12. RequestInv' BY <1>1, <1>2, <1>3, <1>4, <1>5 DEF IInv, RequestInv, TypeOK, Untouched
<1>13. SessionInv' BY <1>1, <1>2, <1>3, <1>4, <1>5 DEF IInv, SessionInv, TypeOK, Untouched
<1>14. StrayInv' BY <1>1, <1>2, <1>3, <1>4, <1>5 DEF IInv, StrayInv, TypeOK, Untouched
<1>15. QED BY <1>5, <1>7, <1>8, <1>9, <1>10, <1>11, <1>12, <1>13, <1>14 DEF IInv

\* A send that panics leaves the waiter, and a call that has returned.
LEMMA SendPanicsKeeps ==
    ASSUME IInv, NEW b \in Calls, SendPanics(b)
    PROVE  IInv'
<1>1. TypeOK BY DEF IInv
<1>2. Untouched BY DEF SendPanics, Untouched, lockVars, clientVars, readVars, sessionVars
<1>3. /\ pc[b] = "sending" /\ slot' = slot /\ waiters' = waiters /\ target' = target
      /\ jammed' = jammed /\ got' = got /\ Closed(target[b])
      /\ \/ /\ pc' = [pc EXCEPT ![b] = "returned"] /\ crashed' = crashed
            /\ result' = [result EXCEPT ![b] = "panic"]
         \/ pc' = pc /\ result' = result /\ crashed' = TRUE
  BY DEF SendPanics, Goto, Fail, Panic, lockVars
<1>4. /\ answers[b] = 0 /\ ~ InChannel(b) /\ b \notin requests /\ ~ jammed /\ maps # 0
  BY <1>3, NotSent, HasMap DEF IInv, MapInv, SlotInv, SessionInv
<1>5. /\ WireInv' /\ (\A c : OnWire(c)' <=> OnWire(c))
      /\ (\A c : InChannel(c)' <=> InChannel(c))
      /\ (\A r, c : Holds(r, c)' <=> Holds(r, c))
      /\ (\A t : Closed(t)' <=> Closed(t))
  BY <1>2, UntouchedKeeps
<1>7. TypeOK' BY <1>1, <1>2, <1>3 DEF TypeOK, Untouched
<1>8. MapInv' BY <1>1, <1>2, <1>3, <1>4, <1>5 DEF IInv, MapInv, TypeOK, Untouched
<1>9. ReaderInv' BY <1>1, <1>2, <1>3, <1>4, <1>5 DEF IInv, ReaderInv, TypeOK, Untouched
<1>10. SlotInv' BY <1>1, <1>2, <1>3, <1>4, <1>5 DEF IInv, SlotInv, TypeOK, Untouched
<1>11. StartInv' BY <1>1, <1>2, <1>3, <1>4, <1>5 DEF IInv, StartInv, TypeOK, Untouched
<1>12. RequestInv' BY <1>1, <1>2, <1>3, <1>4, <1>5 DEF IInv, RequestInv, TypeOK, Untouched
<1>13. SessionInv' BY <1>1, <1>2, <1>3, <1>4, <1>5 DEF IInv, SessionInv, TypeOK, Untouched
<1>14. StrayInv' BY <1>1, <1>2, <1>3, <1>4, <1>5 DEF IInv, StrayInv, TypeOK, Untouched
<1>15. QED BY <1>5, <1>7, <1>8, <1>9, <1>10, <1>11, <1>12, <1>13, <1>14 DEF IInv

\* The request that goes into a channel is the only one of its call, and nobody has
\* answered it.
LEMMA SendKeeps ==
    ASSUME IInv, NEW b \in Calls, Send(b)
    PROVE  IInv'
<1>1. TypeOK BY DEF IInv
<1>2. PICK t : t = target[b] OBVIOUS
<1>3. /\ pc[b] = "sending" /\ t # 0 /\ queued' = queued \cup {<< t, b >>}
      /\ target' = [target EXCEPT ![b] = 0] /\ pc' = [pc EXCEPT ![b] = "waiting"]
      /\ UNCHANGED << slot, closed, result, got, waiters, jammed, crashed, requests, answers,
                      arrived, wire, reader, forwarded, conn, phase, writeChan, maps >>
  BY <1>2 DEF Send, Goto, lockVars, clientVars, readVars, sessionVars
<1>4. t \in Sessions BY <1>1, <1>2, <1>3, ApiAssumption DEF TypeOK, Sessions
<1>5. /\ answers[b] = 0 /\ b \notin requests /\ ~ InChannel(b) /\ (maps <= 1 => b \in waiters)
      /\ ~ jammed /\ maps # 0
  BY <1>3, NotSent, HasMap DEF IInv, SessionInv
<1>6. /\ \A c : \A u \in Sessions : << u, c >> \in queued' <=>
                << u, c >> \in queued \/ (u = t /\ c = b)
      /\ \A c : InChannel(c)' <=> InChannel(c) \/ c = b
  <2>1. \A c : \A u \in Sessions : << u, c >> \in queued' <=>
                << u, c >> \in queued \/ (u = t /\ c = b)
    BY <1>3
  <2>2. QED BY <1>4, <2>1 DEF InChannel
<1>7. /\ WireInv' /\ (\A c : OnWire(c)' <=> OnWire(c))
  BY <1>3, SameWire DEF IInv
<1>8. \A r, c : Holds(r, c)' <=> Holds(r, c) BY <1>3 DEF Holds
<1>9. \A u : Closed(u)' <=> Closed(u) BY <1>3 DEF Closed
<1>10. /\ pc'[b] = "waiting" /\ \A c \in Calls \ {b} : pc'[c] = pc[c] /\ target'[c] = target[c]
  BY <1>1, <1>3 DEF TypeOK
<1>11. TypeOK'
  <2>1. << t, b >> \in Sessions \X Calls BY <1>4
  <2>2. queued' \subseteq Sessions \X Calls BY <1>1, <1>3, <2>1 DEF TypeOK
  <2>3. target' \in [Calls -> 0..MaxSessions] BY <1>1, <1>3, ApiAssumption DEF TypeOK
  <2>4. QED BY <1>1, <1>3, <2>2, <2>3 DEF TypeOK
<1>12. MapInv' BY <1>3, <1>9, <1>10 DEF IInv, MapInv, TypeOK
<1>13. ReaderInv' BY <1>3, <1>8, <1>10 DEF IInv, ReaderInv
<1>14. SlotInv' /\ StrayInv' BY <1>3, <1>10 DEF IInv, SlotInv, StrayInv, TypeOK
<1>15. StartInv' BY <1>3, <1>5, <1>10 DEF IInv, StartInv
<1>16. RequestInv'
  <2>1. \A u \in Sessions : << u, b >> \notin queued BY <1>5 DEF InChannel
  <2>2. QED BY <1>3, <1>5, <1>6, <1>10, <2>1 DEF IInv, RequestInv
<1>17. SessionInv' BY <1>3, <1>5, <1>6, <1>7, <1>10 DEF IInv, SessionInv
<1>18. QED BY <1>7, <1>11, <1>12, <1>13, <1>14, <1>15, <1>16, <1>17 DEF IInv

\* A call that gets something is not in the map any more.
LEMMA ReceiveKeeps ==
    ASSUME IInv, NEW b \in Calls, Receive(b)
    PROVE  IInv'
<1>1. TypeOK BY DEF IInv
<1>2. Untouched BY DEF Receive, Untouched, lockVars, clientVars, readVars, sessionVars
<1>3. /\ pc[b] = "waiting" /\ waiters' = waiters /\ target' = target
      /\ slot[b] # None \/ b \in closed
      /\ jammed' = jammed /\ crashed' = crashed
      /\ pc' = [pc EXCEPT ![b] = "returned"] /\ result' = [result EXCEPT ![b] = "answer"]
      /\ got' = [got EXCEPT ![b] = slot[b]] /\ slot' = [slot EXCEPT ![b] = None]
  BY DEF Receive, Goto, Fail, Panic, lockVars
<1>4. /\ b \notin waiters /\ slot[b] \in {None, b} /\ ~ jammed /\ maps # 0
  BY <1>3, NotSent, HasMap DEF IInv, MapInv, SlotInv, SessionInv
<1>5. /\ WireInv' /\ (\A c : OnWire(c)' <=> OnWire(c))
      /\ (\A c : InChannel(c)' <=> InChannel(c))
      /\ (\A r, c : Holds(r, c)' <=> Holds(r, c))
      /\ (\A t : Closed(t)' <=> Closed(t))
  BY <1>2, UntouchedKeeps
<1>7. TypeOK' BY <1>1, <1>2, <1>3 DEF TypeOK, Untouched
<1>8. MapInv' BY <1>1, <1>2, <1>3, <1>4, <1>5 DEF IInv, MapInv, TypeOK, Untouched
<1>9. ReaderInv' BY <1>1, <1>2, <1>3, <1>4, <1>5 DEF IInv, ReaderInv, TypeOK, Untouched
<1>10. SlotInv' BY <1>1, <1>2, <1>3, <1>4, <1>5 DEF IInv, SlotInv, TypeOK, Untouched
<1>11. StartInv' BY <1>1, <1>2, <1>3, <1>4, <1>5 DEF IInv, StartInv, TypeOK, Untouched
<1>12. RequestInv' BY <1>1, <1>2, <1>3, <1>4, <1>5 DEF IInv, RequestInv, TypeOK, Untouched
<1>13. SessionInv' BY <1>1, <1>2, <1>3, <1>4, <1>5 DEF IInv, SessionInv, TypeOK, Untouched
<1>14. StrayInv' BY <1>1, <1>2, <1>3, <1>4, <1>5 DEF IInv, StrayInv, TypeOK, Untouched
<1>15. QED BY <1>5, <1>7, <1>8, <1>9, <1>10, <1>11, <1>12, <1>13, <1>14 DEF IInv

\* The timer changes nothing but where the call is.
LEMMA ExpireKeeps ==
    ASSUME IInv, NEW b \in Calls, Expire(b)
    PROVE  IInv'
<1>1. TypeOK BY DEF IInv
<1>2. Untouched BY DEF Expire, Untouched, lockVars, clientVars, readVars, sessionVars
<1>3. /\ pc[b] = "waiting" /\ waiters' = waiters /\ target' = target
      /\ jammed' = jammed /\ crashed' = crashed /\ slot' = slot
      /\ pc' = [pc EXCEPT ![b] = "expired"] /\ result' = result /\ got' = got
  BY DEF Expire, Goto, Fail, Panic, lockVars
<1>4. ~ jammed /\ maps # 0
  BY <1>3, NotSent, HasMap DEF IInv, MapInv, SlotInv, SessionInv
<1>5. /\ WireInv' /\ (\A c : OnWire(c)' <=> OnWire(c))
      /\ (\A c : InChannel(c)' <=> InChannel(c))
      /\ (\A r, c : Holds(r, c)' <=> Holds(r, c))
      /\ (\A t : Closed(t)' <=> Closed(t))
  BY <1>2, UntouchedKeeps
<1>7. TypeOK' BY <1>1, <1>2, <1>3 DEF TypeOK, Untouched
<1>8. MapInv' BY <1>1, <1>2, <1>3, <1>4, <1>5 DEF IInv, MapInv, TypeOK, Untouched
<1>9. ReaderInv' BY <1>1, <1>2, <1>3, <1>4, <1>5 DEF IInv, ReaderInv, TypeOK, Untouched
<1>10. SlotInv' BY <1>1, <1>2, <1>3, <1>4, <1>5 DEF IInv, SlotInv, TypeOK, Untouched
<1>11. StartInv' BY <1>1, <1>2, <1>3, <1>4, <1>5 DEF IInv, StartInv, TypeOK, Untouched
<1>12. RequestInv' BY <1>1, <1>2, <1>3, <1>4, <1>5 DEF IInv, RequestInv, TypeOK, Untouched
<1>13. SessionInv' BY <1>1, <1>2, <1>3, <1>4, <1>5 DEF IInv, SessionInv, TypeOK, Untouched
<1>14. StrayInv' BY <1>1, <1>2, <1>3, <1>4, <1>5 DEF IInv, StrayInv, TypeOK, Untouched
<1>15. QED BY <1>5, <1>7, <1>8, <1>9, <1>10, <1>11, <1>12, <1>13, <1>14 DEF IInv

\* A call that leaves the map has ended.
LEMMA UnregisterKeeps ==
    ASSUME IInv, NEW b \in Calls, Unregister(b)
    PROVE  IInv'
<1>1. TypeOK BY DEF IInv
<1>2. Untouched BY DEF Unregister, Untouched, lockVars, clientVars, readVars, sessionVars
<1>3. /\ pc[b] \in {"expired", "failed"} /\ waiters' = waiters \ {b} /\ target' = target
      /\ jammed' = jammed /\ crashed' = crashed /\ slot' = slot
      /\ pc' = [pc EXCEPT ![b] = "returned"] /\ result' = [result EXCEPT ![b] = "error"]
      /\ got' = got
  BY DEF Unregister, Goto, Fail, Panic, lockVars
<1>4. ~ jammed /\ maps # 0
  BY <1>3, NotSent, HasMap DEF IInv, MapInv, SlotInv, SessionInv
<1>5. /\ WireInv' /\ (\A c : OnWire(c)' <=> OnWire(c))
      /\ (\A c : InChannel(c)' <=> InChannel(c))
      /\ (\A r, c : Holds(r, c)' <=> Holds(r, c))
      /\ (\A t : Closed(t)' <=> Closed(t))
  BY <1>2, UntouchedKeeps
<1>7. TypeOK' BY <1>1, <1>2, <1>3 DEF TypeOK, Untouched
<1>8. MapInv' BY <1>1, <1>2, <1>3, <1>4, <1>5 DEF IInv, MapInv, TypeOK, Untouched
<1>9. ReaderInv' BY <1>1, <1>2, <1>3, <1>4, <1>5 DEF IInv, ReaderInv, TypeOK, Untouched
<1>10. SlotInv' BY <1>1, <1>2, <1>3, <1>4, <1>5 DEF IInv, SlotInv, TypeOK, Untouched
<1>11. StartInv' BY <1>1, <1>2, <1>3, <1>4, <1>5 DEF IInv, StartInv, TypeOK, Untouched
<1>12. RequestInv' BY <1>1, <1>2, <1>3, <1>4, <1>5 DEF IInv, RequestInv, TypeOK, Untouched
<1>13. SessionInv' BY <1>1, <1>2, <1>3, <1>4, <1>5 DEF IInv, SessionInv, TypeOK, Untouched
<1>14. StrayInv' BY <1>1, <1>2, <1>3, <1>4, <1>5 DEF IInv, StrayInv, TypeOK, Untouched
<1>15. QED BY <1>5, <1>7, <1>8, <1>9, <1>10, <1>11, <1>12, <1>13, <1>14 DEF IInv

-----------------------------------------------------------------------------
(* The client keeps the invariant. *)

\* A request that leaves its channel is on its way to the client.
LEMMA WriteKeeps ==
    ASSUME IInv, NEW q \in queued, Write(q)
    PROVE  IInv'
<1>1. TypeOK BY DEF IInv
<1>2. q \in Sessions \X Calls BY <1>1 DEF TypeOK
<1>3. PICK t, b : t = q[1] /\ b = q[2] OBVIOUS
<1>4. q = << t, b >> /\ t \in Sessions /\ b \in Calls BY <1>2, <1>3
<1>5. /\ queued' = queued \ {<< t, b >>}
      /\ requests' = requests \/ requests' = requests \cup {b}
      /\ crashed' = crashed \/ crashed' = TRUE
      /\ UNCHANGED << pc, target, slot, closed, result, got, waiters, jammed, answers, arrived,
                      wire, reader, forwarded, conn, phase, writeChan, maps >>
  BY <1>3, <1>4 DEF Write, callVars, lockVars, readVars, sessionVars
<1>6. InChannel(b) BY <1>4 DEF InChannel
<1>7. /\ answers[b] = 0 /\ pc[b] \notin {"new", "checked", "registered", "sending"}
      /\ (maps <= 1 => b \in waiters \/ pc[b] = "returned")
      /\ \A u \in Sessions : << u, b >> \in queued => u = t
  BY <1>4, <1>6 DEF IInv, RequestInv, SessionInv
<1>8. /\ \A c : InChannel(c)' => InChannel(c)
      /\ ~ InChannel(b)'
  BY <1>5, <1>7 DEF InChannel
<1>9. WireInv' /\ \A c : OnWire(c)' <=> OnWire(c) BY <1>5, SameWire DEF IInv
<1>10. TypeOK' BY <1>1, <1>4, <1>5 DEF TypeOK
<1>11. MapInv' /\ ReaderInv' /\ SlotInv' /\ StrayInv' /\ StartInv'
  BY <1>5 DEF IInv, MapInv, ReaderInv, SlotInv, StrayInv, StartInv, Holds, Closed
<1>12. RequestInv'
  <2>1. \A c \in Calls : c \in requests' => c \in requests \/ c = b BY <1>5
  <2>2. \A c, u : << u, c >> \in queued' => << u, c >> \in queued BY <1>5
  <2>3. QED BY <1>5, <1>7, <1>8, <2>1, <2>2 DEF IInv, RequestInv
<1>13. SessionInv' BY <1>5, <1>7, <1>8, <1>9 DEF IInv, SessionInv
<1>14. QED BY <1>9, <1>10, <1>11, <1>12, <1>13 DEF IInv

\* The request was not answered before: its answer is the first on the wire.
LEMMA PerformKeeps ==
    ASSUME IInv, NEW b \in Calls, Perform(b)
    PROVE  IInv'
<1> DEFINE f == << "answer", b >>
<1> USE DEF Perform, callVars, lockVars, readVars, sessionVars
<1>1. TypeOK /\ WireInv BY DEF IInv
<1>2. /\ answers[b] = 0 /\ pc[b] \notin {"new", "checked", "registered", "sending"}
      /\ (maps <= 1 => b \in waiters \/ pc[b] = "returned")
      /\ ~ OnWire(b) /\ ~ InChannel(b)
  BY DEF IInv, TypeOK, RequestInv, SessionInv, WireInv
<1>3. f \in Frames /\ wire' = Append(wire, f) /\ \A c : f = << "answer", c >> <=> c = b
  BY DEF Frames, AnswerFrames
<1> HIDE DEF f
<1>4. wire' \in Seq(Frames) BY <1>1, <1>3, PutFrame
<1>5. TypeOK' BY <1>1, <1>2, <1>4 DEF TypeOK, Frames
<1>6. /\ \A c : OnWire(c)' <=> OnWire(c) \/ c = b
      /\ \A c : c # b =>
            \A i, j \in 1..Len(wire') : Carries(i, c)' /\ Carries(j, c)' =>
                 i \in 1..Len(wire) /\ j \in 1..Len(wire) /\ Carries(i, c) /\ Carries(j, c)
      /\ \A i, j \in 1..Len(wire') : Carries(i, b)' /\ Carries(j, b)' => i = j
  BY <1>1, <1>2, <1>3, PutKeeps
<1>7. answers'[b] = 1 /\ \A c \in Calls : c # b => answers'[c] = answers[c]
  BY <1>1, <1>2 DEF TypeOK
<1>8. MapInv' /\ StartInv' BY DEF IInv, MapInv, StartInv, Closed
<1>9. ReaderInv' BY <1>7 DEF IInv, ReaderInv, Holds
<1>10. SlotInv' BY <1>7 DEF IInv, SlotInv
<1>16. \A c : InChannel(c)' <=> InChannel(c) BY SameChannels
<1>11. RequestInv' BY <1>2, <1>7, <1>16 DEF IInv, RequestInv
<1>12. WireInv'
  <2>1. \A c \in Calls : OnWire(c)' => answers'[c] > 0 BY <1>1, <1>6, <1>7 DEF WireInv
  <2>2. \A c \in Calls : c # b => \A i, j \in 1..Len(wire') :
            Carries(i, c)' /\ Carries(j, c)' /\ i # j => answers'[c] > 1
    BY <1>1, <1>6, <1>7 DEF WireInv
  <2>3. QED BY <1>6, <2>1, <2>2 DEF WireInv
<1>13. SessionInv' BY <1>2, <1>6, <1>7, <1>16 DEF IInv, SessionInv
<1>14. StrayInv' BY <1>2, <1>7 DEF IInv, StrayInv, TypeOK
<1>15. QED BY <1>5, <1>8, <1>9, <1>10, <1>11, <1>12, <1>13, <1>14 DEF IInv

\* After the second answer nothing is claimed of the number of frames.
LEMMA AnswerAgainKeeps ==
    ASSUME IInv, NEW b \in Calls, AnswerAgain(b)
    PROVE  IInv'
<1> DEFINE f == << "answer", b >>
<1>1. TypeOK /\ WireInv BY DEF IInv
<1>2. /\ answers[b] = 1 /\ answers' = [answers EXCEPT ![b] = 2] /\ wire' = Append(wire, f)
      /\ UNCHANGED << pc, target, slot, closed, result, got, waiters, jammed, crashed, queued,
                      requests, arrived, reader, forwarded, conn, phase, writeChan, maps >>
  BY DEF AnswerAgain, callVars, lockVars, readVars, sessionVars
<1>3. f \in Frames /\ \A c : f = << "answer", c >> <=> c = b
  BY DEF Frames, AnswerFrames
<1> HIDE DEF f
<1>4. wire' \in Seq(Frames) BY <1>1, <1>2, <1>3, PutFrame
<1>5. TypeOK' BY <1>1, <1>2, <1>4 DEF TypeOK, Frames
<1>6. /\ \A c : OnWire(c)' <=> OnWire(c) \/ c = b
      /\ \A c : c # b =>
            \A i, j \in 1..Len(wire') : Carries(i, c)' /\ Carries(j, c)' =>
                 i \in 1..Len(wire) /\ j \in 1..Len(wire) /\ Carries(i, c) /\ Carries(j, c)
  BY <1>1, <1>2, <1>3, PutKeeps
<1>7. answers'[b] = 2 /\ \A c \in Calls : c # b => answers'[c] = answers[c]
  BY <1>1, <1>2 DEF TypeOK
<1>8. MapInv' /\ StartInv' BY <1>2 DEF IInv, MapInv, StartInv, Closed
<1>9. ReaderInv' BY <1>2, <1>7 DEF IInv, ReaderInv, Holds
<1>10. SlotInv' BY <1>2, <1>7 DEF IInv, SlotInv
<1>16. \A c : InChannel(c)' <=> InChannel(c) BY <1>2, SameChannels
<1>11. RequestInv' BY <1>2, <1>7, <1>16 DEF IInv, RequestInv
<1>12. WireInv'
  <2>1. \A c \in Calls : OnWire(c)' => answers'[c] > 0 BY <1>1, <1>6, <1>7 DEF WireInv
  <2>2. \A c \in Calls : c # b => \A i, j \in 1..Len(wire') :
            Carries(i, c)' /\ Carries(j, c)' /\ i # j => answers'[c] > 1
    BY <1>1, <1>6, <1>7 DEF WireInv
  <2>3. QED BY <1>7, <2>1, <2>2 DEF WireInv
<1>13. SessionInv' BY <1>2, <1>6, <1>7, <1>16 DEF IInv, SessionInv
<1>14. StrayInv' BY <1>2, <1>7 DEF IInv, StrayInv, TypeOK
<1>15. QED BY <1>5, <1>8, <1>9, <1>10, <1>11, <1>12, <1>13, <1>14 DEF IInv

\* An event is no answer.
LEMMA ArriveKeeps ==
    ASSUME IInv, NEW e \in Events, Arrive(e)
    PROVE  IInv'
<1> DEFINE f == << "event", e >>
<1>1. TypeOK /\ WireInv BY DEF IInv
<1>2. /\ arrived' = arrived \cup {e} /\ wire' = Append(wire, f)
      /\ UNCHANGED << pc, target, slot, closed, result, got, waiters, jammed, crashed, queued,
                      requests, answers, reader, forwarded, conn, phase, writeChan, maps >>
  BY DEF Arrive, callVars, lockVars, readVars, sessionVars
<1>3. f \in Frames /\ \A c : f # << "answer", c >>
  BY DEF Frames, EventFrames
<1> HIDE DEF f
<1>4. wire' \in Seq(Frames) BY <1>1, <1>2, <1>3, PutFrame
<1>5. TypeOK' BY <1>1, <1>2, <1>4 DEF TypeOK, Frames
<1>6. /\ \A c : OnWire(c)' <=> OnWire(c)
      /\ \A c : \A i, j \in 1..Len(wire') : Carries(i, c)' /\ Carries(j, c)' =>
                 i \in 1..Len(wire) /\ j \in 1..Len(wire) /\ Carries(i, c) /\ Carries(j, c)
  BY <1>1, <1>2, <1>3, PutKeeps
<1>7. WireInv' BY <1>1, <1>2, <1>6 DEF WireInv
<1>8. MapInv' /\ ReaderInv' /\ StartInv' BY <1>2 DEF IInv, MapInv, ReaderInv, StartInv, Holds, Closed
<1>9. SlotInv' /\ RequestInv' /\ StrayInv' BY <1>2 DEF IInv, SlotInv, RequestInv, StrayInv, InChannel
<1>10. SessionInv' BY <1>2, <1>6 DEF IInv, SessionInv, InChannel
<1>11. QED BY <1>5, <1>7, <1>8, <1>9, <1>10 DEF IInv

-----------------------------------------------------------------------------
(* readLoop keeps the invariant. *)

\* A waiter that is taken out of the map has one reader; an answer that nobody
\* waits for is late, a duplicate, or of another session.
LEMMA DispatchKeeps ==
    ASSUME IInv, NEW r \in Readers, dispatchAPICallback(r)
    PROVE  IInv'
<1>0. PICK b : b = Head(wire)[2] OBVIOUS
<1>1. TypeOK /\ WireInv BY DEF IInv
<1>2. /\ reader[r].at = "idle" /\ wire # << >> /\ Head(wire)[1] = "answer" /\ wire' = Tail(wire)
      /\ UNCHANGED << pc, target, slot, closed, result, got, jammed, crashed, queued, requests,
                      answers, arrived, conn, phase, writeChan, maps >>
  BY DEF dispatchAPICallback, Takes, callVars, sessionVars, Idle
<1>3. \/ /\ b \in waiters /\ waiters' = waiters \ {b} /\ forwarded' = forwarded
         /\ reader' = [reader EXCEPT ![r] = [at |-> "found", call |-> b]]
      \/ /\ b \notin waiters /\ waiters' = waiters /\ reader' = reader
         /\ forwarded' = forwarded \cup {b}
  BY <1>0 DEF dispatchAPICallback
<1>4. Head(wire) \in Frames /\ wire' \in Seq(Frames) /\ Len(wire) > 0 /\ Len(wire) \in Nat
      /\ \A c : Head(wire) = << "answer", c >> => Carries(1, c)
  BY <1>1, <1>2, TakeFrame
<1>5. b \in Calls /\ Head(wire) = << "answer", b >> BY <1>0, <1>2, <1>4, AnswerFrame
<1>6. /\ WireInv' /\ \A c : OnWire(c)' => OnWire(c)
      /\ OnWire(b)' => answers[b] > 1
  BY <1>1, <1>2, <1>5, TakeKeeps
<1>7. OnWire(b) BY <1>4, <1>5 DEF OnWire
<1>8. /\ answers[b] > 0 /\ b \notin requests /\ ~ InChannel(b)
      /\ pc[b] \notin {"registered", "sending"}
      /\ (maps <= 1 /\ answers[b] <= 1 => b \in waiters \/ pc[b] = "returned")
      /\ answers[b] \in 0..2
  BY <1>1, <1>5, <1>7 DEF IInv, WireInv, RequestInv, SessionInv, TypeOK
<1>9. TypeOK'
  <2>1. reader' \in [Readers -> Busy \cup Hooks \cup {Idle}]
    <3>1. reader \in [Readers -> Busy \cup Hooks \cup {Idle}] BY <1>1 DEF TypeOK
    <3>2. [at |-> "found", call |-> b] \in Busy BY <1>5 DEF Busy
    <3>3. reader' = reader \/ reader' = [reader EXCEPT ![r] = [at |-> "found", call |-> b]]
      BY <1>3
    <3>4. QED BY ONLY <3>1, <3>2, <3>3, r \in Readers
  <2>2. waiters' \subseteq Calls /\ forwarded' \subseteq Calls
    BY <1>1, <1>3, <1>5 DEF TypeOK
  <2>3. wire' \in Seq(AnswerFrames \cup EventFrames) BY <1>4 DEF Frames
  <2>4. QED BY <1>1, <1>2, <2>1, <2>2, <2>3 DEF TypeOK
<1>10. \A s \in Readers, c \in Calls :
           Holds(s, c)' <=> Holds(s, c) \/ (s = r /\ c = b /\ b \in waiters)
  BY <1>1, <1>2, <1>3, <1>5 DEF Holds, TypeOK
<1>11. MapInv' BY <1>2, <1>3 DEF IInv, MapInv, Closed
<1>12. ReaderInv'
  <2>1. CASE b \notin waiters BY <1>2, <1>3, <1>10, <2>1 DEF IInv, ReaderInv
  <2>2. CASE b \in waiters
    <3>1. reader'[r] = [at |-> "found", call |-> b] /\ waiters' = waiters \ {b}
          /\ \A s \in Readers \ {r} : reader'[s] = reader[s]
      BY <1>1, <1>3, <2>2 DEF TypeOK
    <3>2. b \notin closed /\ slot[b] = None /\ \A s \in Readers : ~ Holds(s, b)
      BY <1>1, <1>5, <2>2 DEF IInv, MapInv, ReaderInv, TypeOK
    <3>3. \A c \in Calls : ~ Holds(r, c) BY <1>2 DEF Holds
    <3>4. ASSUME NEW s \in Readers, NEW c \in Calls, Holds(s, c)'
          PROVE  /\ c \notin waiters' /\ c \notin closed' /\ answers'[c] > 0
                 /\ \A q \in Readers : Holds(q, c)' => q = s
                 /\ reader'[s].at = "found" => slot'[c] = None
                 /\ reader'[s].at = "filled" => slot'[c] = c \/ pc'[c] = "returned"
      <4>1. CASE s = r
        <5>1. c = b BY <1>10, <3>3, <3>4, <4>1
        <5>2. QED BY <1>2, <1>8, <1>10, <3>1, <3>2, <4>1, <5>1
      <4>2. CASE s # r
        <5>1. Holds(s, c) /\ c # b BY <1>10, <3>2, <3>4, <4>2
        <5>2. QED BY <1>2, <1>10, <3>1, <4>2, <5>1 DEF IInv, ReaderInv
      <4>3. QED BY <4>1, <4>2
    <3>5. QED BY <3>4 DEF ReaderInv
  <2>3. QED BY <2>1, <2>2
<1>17. \A c : InChannel(c)' <=> InChannel(c) BY <1>2, SameChannels
<1>13. SlotInv' /\ RequestInv' /\ StartInv' BY <1>2, <1>17 DEF IInv, SlotInv, RequestInv, StartInv
<1>14. SessionInv' BY <1>2, <1>3, <1>6, <1>8, <1>17 DEF IInv, SessionInv
<1>15. StrayInv' BY <1>2, <1>3, <1>8, <1>1 DEF IInv, StrayInv, TypeOK
<1>16. QED BY <1>6, <1>9, <1>11, <1>12, <1>13, <1>14, <1>15 DEF IInv

\* The channel it fills is empty and in nobody else's hands.
LEMMA FillKeeps ==
    ASSUME IInv, NEW r \in Readers, FillWaiter(r)
    PROVE  IInv'
<1> DEFINE b == reader[r].call
<1>1. TypeOK /\ WireInv BY DEF IInv
<1>2. /\ reader[r].at = "found"
      /\ slot' = [slot EXCEPT ![b] = IF slot[b] = None /\ pc[b] # "returned" THEN b ELSE slot[b]]
      /\ reader' = [reader EXCEPT ![r] = [at |-> "filled", call |-> b]]
      /\ UNCHANGED << pc, target, closed, result, got, waiters, jammed, crashed, queued, requests,
                      answers, arrived, wire, forwarded, conn, phase, writeChan, maps >>
  BY DEF FillWaiter, lockVars, clientVars, sessionVars
<1>3. b \in Calls /\ Holds(r, b) BY <1>1, <1>2, ReaderTypes DEF Holds
<1> HIDE DEF b
<1>4. /\ b \notin waiters /\ b \notin closed /\ answers[b] > 0 /\ slot[b] = None
      /\ \A s \in Readers : Holds(s, b) => s = r
  BY <1>2, <1>3 DEF IInv, ReaderInv
<1>5. /\ slot'[b] = b \/ (pc[b] = "returned" /\ slot'[b] = None)
      /\ \A c \in Calls : c # b => slot'[c] = slot[c]
  BY <1>1, <1>2, <1>3, <1>4 DEF TypeOK
<1>6. /\ reader'[r] = [at |-> "filled", call |-> b]
      /\ \A s \in Readers \ {r} : reader'[s] = reader[s]
  BY <1>1, <1>2 DEF TypeOK
<1>7. TypeOK'
  <2>1. reader' \in [Readers -> Busy \cup Hooks \cup {Idle}] BY <1>1, <1>2, <1>3 DEF TypeOK, Busy
  <2>2. slot' \in [Calls -> Calls \cup {None}] BY <1>1, <1>2, <1>3 DEF TypeOK
  <2>3. QED BY <1>1, <1>2, <2>1, <2>2 DEF TypeOK
<1>8. \A s \in Readers, c \in Calls : Holds(s, c)' <=> Holds(s, c)
  BY <1>2, <1>3, <1>6 DEF Holds
<1>9. MapInv' /\ StartInv' BY <1>1, <1>2, <1>4, <1>5 DEF IInv, MapInv, StartInv, TypeOK, Closed
<1>10. ReaderInv' BY <1>2, <1>4, <1>5, <1>6, <1>8 DEF IInv, ReaderInv, Holds
<1>11. SlotInv' BY <1>2, <1>4, <1>5 DEF IInv, SlotInv
<1>12. WireInv' /\ \A c : OnWire(c)' <=> OnWire(c) BY <1>1, <1>2, SameWire
<1>13. RequestInv' /\ SessionInv' /\ StrayInv'
  BY <1>2, <1>12 DEF IInv, RequestInv, SessionInv, StrayInv, InChannel
<1>14. QED BY <1>7, <1>9, <1>10, <1>11, <1>12, <1>13 DEF IInv

\* The channel it closes has the answer in it, or the call is over.
LEMMA CloseKeeps ==
    ASSUME IInv, NEW r \in Readers, CloseWaiter(r)
    PROVE  IInv'
<1> DEFINE b == reader[r].call
<1>1. TypeOK /\ WireInv BY DEF IInv
<1>2. /\ reader[r].at = "filled"
      /\ closed' = closed \cup {b}
      /\ reader' = [reader EXCEPT ![r] = Idle]
      /\ UNCHANGED << pc, target, slot, result, got, waiters, jammed, crashed, queued, requests,
                      answers, arrived, wire, forwarded, conn, phase, writeChan, maps >>
  BY DEF CloseWaiter, lockVars, clientVars, sessionVars
<1>3. b \in Calls /\ Holds(r, b) BY <1>1, <1>2, ReaderTypes DEF Holds
<1> HIDE DEF b
<1>4. /\ b \notin waiters /\ answers[b] > 0 /\ (slot[b] = b \/ pc[b] = "returned")
      /\ \A s \in Readers : Holds(s, b) => s = r
  BY <1>2, <1>3 DEF IInv, ReaderInv
<1>5. /\ reader'[r] = Idle
      /\ \A s \in Readers \ {r} : reader'[s] = reader[s]
  BY <1>1, <1>2 DEF TypeOK
<1>6. TypeOK'
  <2>1. reader' \in [Readers -> Busy \cup Hooks \cup {Idle}] BY <1>1, <1>2 DEF TypeOK
  <2>2. closed' \subseteq Calls BY <1>1, <1>2, <1>3 DEF TypeOK
  <2>3. QED BY <1>1, <1>2, <2>1, <2>2 DEF TypeOK
<1>7. \A s \in Readers, c \in Calls : Holds(s, c)' => Holds(s, c) /\ s # r /\ c # b
  BY <1>4, <1>5 DEF Holds, Idle
<1>8. MapInv' /\ StartInv' BY <1>2, <1>4 DEF IInv, MapInv, StartInv, Closed
<1>9. ReaderInv' BY <1>2, <1>5, <1>7 DEF IInv, ReaderInv
<1>10. SlotInv' BY <1>2, <1>4 DEF IInv, SlotInv
<1>11. WireInv' /\ \A c : OnWire(c)' <=> OnWire(c) BY <1>1, <1>2, SameWire
<1>12. RequestInv' /\ SessionInv' /\ StrayInv'
  BY <1>2, <1>11 DEF IInv, RequestInv, SessionInv, StrayInv, InChannel
<1>13. QED BY <1>6, <1>8, <1>9, <1>10, <1>11, <1>12 DEF IInv

\* A hook makes calls of its own and has no waiter in its hands.
LEMMA HookKeeps ==
    ASSUME IInv, NEW r \in Readers,
           HandleUpstreamEvent(r) \/ doApproveGroupInvite(r) \/ HookReturns(r)
    PROVE  IInv'
<1>1. TypeOK /\ WireInv BY DEF IInv
<1>2. /\ reader[r].at \in {"idle", "hook"}
      /\ wire' = wire \/ (wire # << >> /\ wire' = Tail(wire))
      /\ UNCHANGED << pc, target, slot, closed, result, got, waiters, jammed, crashed, queued,
                      requests, answers, arrived, forwarded, conn, phase, writeChan, maps >>
  BY DEF HandleUpstreamEvent, doApproveGroupInvite, HookReturns, Takes, callVars, lockVars,
         clientVars, sessionVars, Idle
<1>3. PICK x \in Hooks \cup {Idle} : reader' = [reader EXCEPT ![r] = x]
  <2>1. CASE HandleUpstreamEvent(r)
    <3>1. /\ wire # << >> /\ Head(wire)[1] = "event" /\ wire' = Tail(wire)
          /\ LET e == Head(wire)[2]
             IN reader' = [reader EXCEPT ![r] =
                   [at |-> "hook", call |-> IF e \in Friends THEN e ELSE << e, 1 >>]]
      BY <2>1 DEF HandleUpstreamEvent, Takes
    <3>2. Head(wire) \in Frames BY <1>1, <3>1, TakeFrame
    <3>3. Head(wire)[2] \in Friends \cup Invites BY <3>1, <3>2, EventFrame DEF Events
    <3>4. \A e \in Friends \cup Invites :
             [at |-> "hook", call |-> IF e \in Friends THEN e ELSE << e, 1 >>] \in Hooks
      BY DEF Hooks, HookCalls
    <3>5. QED BY <3>1, <3>3, <3>4
  <2>2. CASE doApproveGroupInvite(r)
    <3>1. PICK c : /\ c \in Invites \X {1}
                   /\ reader' = [reader EXCEPT ![r] = [at |-> "hook", call |-> << c[1], 2 >>]]
      BY <2>2 DEF doApproveGroupInvite
    <3>2. [at |-> "hook", call |-> << c[1], 2 >>] \in Hooks BY <3>1 DEF Hooks, HookCalls
    <3>3. QED BY <3>1, <3>2
  <2>3. CASE HookReturns(r) BY <2>3 DEF HookReturns
  <2>4. QED BY <2>1, <2>2, <2>3
<1>4. /\ reader'[r].at \in {"idle", "hook"}
      /\ \A s \in Readers \ {r} : reader'[s] = reader[s]
  BY <1>1, <1>3 DEF TypeOK, Hooks, Idle
<1>5. \A s \in Readers, c \in Calls : Holds(s, c)' <=> Holds(s, c) BY <1>2, <1>4 DEF Holds
<1>6. wire' \in Seq(Frames) /\ WireInv' /\ \A c : OnWire(c)' => OnWire(c)
  <2>1. CASE wire' = wire BY <1>1, <1>2, <2>1, SameWire DEF TypeOK, Frames
  <2>2. CASE wire # << >> /\ wire' = Tail(wire) BY <1>1, <1>2, <2>2, TakeFrame, TakeKeeps
  <2>3. QED BY <1>2, <2>1, <2>2
<1>7. TypeOK'
  <2>1. reader' \in [Readers -> Busy \cup Hooks \cup {Idle}] BY <1>1, <1>3 DEF TypeOK
  <2>2. QED BY <1>1, <1>2, <1>6, <2>1 DEF TypeOK, Frames
<1>8. MapInv' /\ SlotInv' /\ StartInv' BY <1>2 DEF IInv, MapInv, SlotInv, StartInv, Closed
<1>9. ReaderInv' BY <1>2, <1>4, <1>5 DEF IInv, ReaderInv, Holds
<1>10. RequestInv' /\ SessionInv' /\ StrayInv'
  BY <1>2, <1>6 DEF IInv, RequestInv, SessionInv, StrayInv, InChannel
<1>11. QED BY <1>6, <1>7, <1>8, <1>9, <1>10 DEF IInv

\* A session forgets the waiters when it makes its map: before the first there are none,
\* and after the second nothing is claimed of them.
LEMMA MakeMapKeeps ==
    ASSUME IInv, NEW s \in Sessions, MakeMap(s)
    PROVE  IInv'
<1>1. TypeOK /\ WireInv BY DEF IInv
<1>2. /\ phase[s] = "channels" /\ waiters' = {} /\ maps' = maps + 1
      /\ phase' = [phase EXCEPT ![s] = "running"]
      /\ UNCHANGED << pc, target, slot, closed, result, got, jammed, crashed, queued, requests,
                      answers, arrived, wire, reader, forwarded, conn, writeChan >>
  BY DEF MakeMap, callVars, clientVars, readVars
<1>3. WireInv' /\ \A c : OnWire(c)' <=> OnWire(c) BY <1>1, <1>2, SameWire
<1>4. maps \in Nat BY <1>1 DEF TypeOK
<1>5. TypeOK' BY <1>1, <1>2, <1>4 DEF TypeOK
<1>6. writeChan # 0 BY <1>2 DEF IInv, StartInv
<1>7. MapInv' /\ SlotInv' BY <1>2 DEF IInv, MapInv, SlotInv
<1>8. RequestInv' BY <1>2 DEF IInv, RequestInv, InChannel
<1>9. ReaderInv' BY <1>2 DEF IInv, ReaderInv, Holds
<1>10. StartInv' BY <1>2, <1>4, <1>6 DEF IInv, StartInv
<1>11. SessionInv'
  <2>1. SUFFICES ASSUME maps' <= 1 PROVE SessionInv' BY DEF SessionInv
  <2>2. \A c \in Calls : pc[c] \in {"new", "checked", "returned"}
    BY <1>2, <1>4, <2>1 DEF IInv, StartInv
  <2>3. \A c : InChannel(c)' <=> InChannel(c) BY <1>2, SameChannels
  <2>4. \A c \in Calls : c \in requests \/ InChannel(c) \/ OnWire(c) => pc[c] = "returned"
    BY <1>1, <2>2 DEF IInv, RequestInv, WireInv
  <2>5. QED BY <1>2, <1>3, <2>2, <2>3, <2>4 DEF SessionInv
<1>12. StrayInv' BY <1>2, <1>4 DEF IInv, StrayInv
<1>13. QED BY <1>3, <1>5, <1>7, <1>8, <1>9, <1>10, <1>11, <1>12 DEF IInv

\* A channel that is closed stays closed, and the rest of a session changes no call.
LEMMA SessionKeeps ==
    ASSUME IInv, NEW s \in Sessions,
           Attach(s) \/ ForceReset \/ MakeChannels(s) \/ Detach(s) \/ CloseChannels(s)
    PROVE  IInv'
<1>1. TypeOK /\ WireInv BY DEF IInv
<1>2. /\ wire' = wire \/ wire' = << >>
      /\ UNCHANGED << pc, target, slot, closed, result, got, waiters, jammed, crashed, queued,
                      requests, answers, arrived, reader, forwarded, maps >>
  BY DEF Attach, ForceReset, MakeChannels, Detach, CloseChannels, callVars, lockVars, clientVars,
         readVars
<1>3. /\ conn' \in BOOLEAN
      /\ \/ phase' = phase /\ writeChan' = writeChan
         \/ phase[s] = "none" /\ phase' = [phase EXCEPT ![s] = "attached"] /\ writeChan' = writeChan
         \/ phase[s] = "attached" /\ phase' = [phase EXCEPT ![s] = "channels"] /\ writeChan' = s
         \/ phase[s] = "running" /\ phase' = [phase EXCEPT ![s] = "leaving"] /\ writeChan' = writeChan
         \/ phase[s] = "leaving" /\ phase' = [phase EXCEPT ![s] = "gone"] /\ writeChan' = writeChan
  BY <1>1 DEF Attach, ForceReset, MakeChannels, Detach, CloseChannels, TypeOK
<1>4. WireInv' /\ wire' \in Seq(Frames) /\ \A c : OnWire(c)' => OnWire(c)
  <2>1. CASE wire' = wire BY <1>1, <1>2, <2>1, SameWire DEF TypeOK, Frames
  <2>2. CASE wire' = << >> BY <2>2 DEF WireInv, OnWire
  <2>3. QED BY <1>2, <2>1, <2>2
<1>5. s \in 0..MaxSessions /\ s # 0 BY ApiAssumption DEF Sessions
<1>6. TypeOK'
  <2>1. /\ phase' \in [Sessions -> {"none", "attached", "channels", "running", "leaving", "gone"}]
        /\ writeChan' \in 0..MaxSessions
    BY <1>1, <1>3, <1>5 DEF TypeOK
  <2>2. QED BY <1>1, <1>2, <1>3, <1>4, <2>1 DEF TypeOK, Frames
<1>7. \A t : Closed(t) => Closed(t)' BY <1>1, <1>3 DEF Closed, TypeOK
<1>8. MapInv' BY <1>2, <1>7 DEF IInv, MapInv
<1>9. ReaderInv' /\ SlotInv' /\ StrayInv' BY <1>2 DEF IInv, ReaderInv, SlotInv, StrayInv, Holds
<1>10. RequestInv' BY <1>2 DEF IInv, RequestInv, InChannel
<1>11. SessionInv' BY <1>2, <1>4 DEF IInv, SessionInv, InChannel
<1>12. StartInv'
  <2>1. writeChan' = 0 => /\ writeChan = 0
                          /\ \A t \in Sessions : phase'[t] \in {"none", "attached"}
    BY <1>1, <1>3, <1>5 DEF IInv, StartInv, TypeOK
  <2>2. QED BY <1>2, <2>1 DEF IInv, StartInv
<1>13. QED BY <1>4, <1>6, <1>8, <1>9, <1>10, <1>11, <1>12 DEF IInv

LEMMA NextKeeps == IInv /\ [Next]_vars => IInv'
<1> SUFFICES ASSUME IInv, [Next]_vars PROVE IInv' OBVIOUS
<1>1. CASE UNCHANGED vars
  <2>1. Untouched /\ UNCHANGED << pc, target, slot, result, got, waiters, jammed, crashed >>
    BY <1>1 DEF Untouched, vars, callVars, lockVars, clientVars, readVars, sessionVars
  <2>2. /\ WireInv' /\ (\A c : OnWire(c)' <=> OnWire(c))
        /\ (\A c : InChannel(c)' <=> InChannel(c))
        /\ (\A r, c : Holds(r, c)' <=> Holds(r, c))
        /\ (\A t : Closed(t)' <=> Closed(t))
    BY <2>1, UntouchedKeeps
  <2>3. TypeOK' BY <2>1 DEF IInv, TypeOK, Untouched
  <2>4. MapInv' /\ ReaderInv' /\ SlotInv' /\ StartInv'
    BY <2>1, <2>2 DEF IInv, MapInv, ReaderInv, SlotInv, StartInv, Untouched
  <2>5. RequestInv' /\ SessionInv' /\ StrayInv'
    BY <2>1, <2>2 DEF IInv, RequestInv, SessionInv, StrayInv, Untouched
  <2>6. QED BY <2>2, <2>3, <2>4, <2>5 DEF IInv
<1>2. ASSUME NEW c \in Calls,
             CallStep(c) \/ NotConnected(c) \/ Connected(c) \/ Perform(c) \/ AnswerAgain(c)
      PROVE  IInv'
  BY <1>2, RegisterKeeps, NotConnectedKeeps, SendRequestKeeps, SendKeeps, SendPanicsKeeps,
     ReceiveKeeps, ExpireKeeps, UnregisterKeeps, PerformKeeps, AnswerAgainKeeps DEF CallStep
<1>3. ASSUME NEW r \in Readers, ReaderStep(r) PROVE IInv'
  BY <1>3, DispatchKeeps, FillKeeps, CloseKeeps, HookKeeps DEF ReaderStep
<1>4. ASSUME NEW e \in Events, Arrive(e) PROVE IInv' BY <1>4, ArriveKeeps
<1>5. ASSUME NEW q \in queued, Write(q) PROVE IInv' BY <1>5, WriteKeeps
<1>6. ASSUME NEW s \in Sessions, SessionStep(s) PROVE IInv'
  BY <1>6, MakeMapKeeps, SessionKeeps DEF SessionStep
<1>7. CASE ForceReset
  <2>1. PICK s \in Sessions : phase[s] = "none" BY <1>7 DEF ForceReset
  <2>2. QED BY <1>7, <2>1, SessionKeeps
<1>8. QED BY <1>1, <1>2, <1>3, <1>4, <1>5, <1>6, <1>7 DEF Next

-----------------------------------------------------------------------------
(* The theorems. *)

THEOREM Invariant == Spec => []IInv
<1>1. Init => IInv BY InitInvariant
<1>2. IInv /\ [Next]_vars => IInv' BY NextKeeps
<1>3. QED BY <1>1, <1>2, PTL DEF Spec

\* Every variable of the calls keeps its type, for any calls, hooks, readLoops,
\* duplicates and sessions (runtime.go:276-339).
THEOREM CallTypes == Spec => []TypeOK
<1>1. IInv => TypeOK BY DEF IInv
<1>2. QED BY <1>1, Invariant, PTL

\* A waiter is closed once, by the reader that took it; a waiter in the map belongs
\* to a call under way, or to one whose send to a channel closed since has panicked; an
\* answer goes astray only when its call has ended, when it is a duplicate, or after
\* another session has made its map (runtime.go:186-246,303-324,724-757).
THEOREM WaitersAreSound == Spec => []WaitersSound
<1>1. ASSUME IInv PROVE WaitersSound
  <2>1. \A c \in waiters : \/ pc[c] \notin {"new", "checked", "returned"}
                           \/ result[c] = "panic" /\ Closed(target[c])
    BY <1>1 DEF IInv, MapInv
  <2>2. ASSUME NEW r \in Readers, reader[r].at \in {"found", "filled"}
        PROVE  /\ reader[r].call \notin closed
               /\ \A s \in Readers \ {r} : reader[s].at \in {"found", "filled"}
                                               => reader[s].call # reader[r].call
    <3>1. reader[r].call \in Calls BY <1>1, <2>2, ReaderTypes DEF IInv
    <3>2. Holds(r, reader[r].call) BY <2>2 DEF Holds
    <3>3. QED BY <1>1, <3>1, <3>2 DEF IInv, ReaderInv, Holds
  <2>3. \A c \in forwarded : maps > 1 \/ answers[c] > 1 \/ pc[c] = "returned"
    BY <1>1 DEF IInv, StrayInv
  <2>4. QED BY <2>1, <2>2, <2>3 DEF WaitersSound
<1>2. QED BY <1>1, Invariant, PTL

\* How a call stands for its promise.
outcomes == [c \in Calls |-> Outcome(c)]

LEMMA OutcomeOf ==
    /\ \A c \in Calls : outcomes[c] = Outcome(c)
    /\ \A c : pc[c] = "new" => Outcome(c) = "new"
    /\ \A c : pc[c] = "returned" =>
              Outcome(c) = IF result[c] = "answer" THEN "answer" ELSE "error"
    /\ \A c : pc[c] \notin {"new", "returned"} => Outcome(c) = "open"
<1>1. \A c : pc[c] = "new" => Outcome(c) = "new" BY DEF Outcome
<1>2. \A c : pc[c] = "returned" => Outcome(c) = IF result[c] = "answer" THEN "answer" ELSE "error"
  BY DEF Outcome
<1>3. \A c : pc[c] \notin {"new", "returned"} => Outcome(c) = "open" BY DEF Outcome
<1>4. QED BY <1>1, <1>2, <1>3 DEF outcomes

\* A step that leaves pc and result of the other calls alone changes one outcome.
LEMMA OneOutcome ==
    ASSUME TypeOK, NEW b \in Calls, NEW to, NEW x,
           pc' = [pc EXCEPT ![b] = to], result' = result \/ result' = [result EXCEPT ![b] = x]
    PROVE  outcomes' = [outcomes EXCEPT ![b] = Outcome(b)']
<1>1. ASSUME NEW c \in Calls, c # b PROVE Outcome(c)' = Outcome(c)
  BY <1>1 DEF TypeOK, Outcome
<1>2. QED BY <1>1 DEF outcomes

\* Every step is one of the promise, or none.
LEMMA StepIsPromised ==
    ASSUME IInv, [Next]_vars
    PROVE  [Promise!Next]_<< outcomes, got, performed >>
<1> DEFINE New(c, to) == outcomes' = [outcomes EXCEPT ![c] = to]
<1>1. TypeOK BY DEF IInv
<1>2. \A c \in Calls : outcomes[c] = Outcome(c) BY OutcomeOf
<1>3. ASSUME pc' = pc, result' = result PROVE outcomes' = outcomes
  BY <1>3 DEF outcomes, Outcome
<1>4. ASSUME answers' = answers PROVE performed' = performed BY <1>4 DEF performed
<1>5. ASSUME NEW c \in Calls, Connected(c) PROVE Promise!Begin(c)
  <2>1. /\ pc[c] = "new" /\ pc' = [pc EXCEPT ![c] = "checked"] /\ result' = result
        /\ got' = got /\ answers' = answers
    BY <1>5 DEF Connected, MayStart, Goto, clientVars
  <2>2. pc'[c] = "checked" BY <1>1, <2>1 DEF TypeOK
  <2>3. Outcome(c)' = "open" BY <2>2 DEF Outcome
  <2>4. New(c, "open") BY <1>1, <2>1, <2>3, OneOutcome
  <2>5. outcomes[c] = "new" BY <1>2, <2>1, OutcomeOf
  <2>6. QED BY <1>4, <2>1, <2>4, <2>5 DEF Promise!Begin, outcomes
<1>6. ASSUME NEW c \in Calls, NEW x \in {"error", "panic"},
             /\ pc[c] # "returned" /\ pc' = [pc EXCEPT ![c] = "returned"]
             /\ result' = [result EXCEPT ![c] = x] /\ got' = got /\ answers' = answers
      PROVE  Promise!Fail(c)
  <2>1. pc'[c] = "returned" /\ result'[c] = x BY <1>1, <1>6 DEF TypeOK
  <2>2. Outcome(c)' = "error" BY <2>1 DEF Outcome
  <2>3. New(c, "error") BY <1>1, <1>6, <2>2, OneOutcome
  <2>4. outcomes[c] \in {"new", "open"} BY <1>2, <1>6, OutcomeOf
  <2>5. QED BY <1>4, <1>6, <2>3, <2>4 DEF Promise!Fail, outcomes
<1>7. ASSUME NEW c \in Calls, Receive(c) PROVE Promise!Answer(c)
  <2>1. /\ pc[c] = "waiting" /\ pc' = [pc EXCEPT ![c] = "returned"]
        /\ result' = [result EXCEPT ![c] = "answer"]
        /\ got' = [got EXCEPT ![c] = slot[c]] /\ answers' = answers
        /\ slot[c] # None \/ c \in closed
    BY <1>7 DEF Receive, Goto, clientVars
  <2>2. slot[c] = c /\ answers[c] > 0 BY <2>1 DEF IInv, SlotInv
  <2>3. pc'[c] = "returned" /\ result'[c] = "answer" BY <1>1, <2>1 DEF TypeOK
  <2>4. Outcome(c)' = "answer" BY <2>3 DEF Outcome
  <2>5. New(c, "answer") BY <1>1, <2>1, <2>4, OneOutcome
  <2>6. outcomes[c] = "open" BY <1>2, <2>1, OutcomeOf
  <2>7. c \in performed BY <2>2 DEF performed
  <2>8. QED BY <1>4, <2>1, <2>2, <2>5, <2>6, <2>7 DEF Promise!Answer, outcomes
<1>8. ASSUME NEW c \in Calls, Perform(c) PROVE Promise!Perform(c)
  <2>1. /\ c \in requests /\ answers' = [answers EXCEPT ![c] = @ + 1]
        /\ pc' = pc /\ result' = result /\ got' = got
    BY <1>8 DEF Perform, callVars
  <2>2. pc[c] # "new" BY <2>1 DEF IInv, RequestInv
  <2>3. outcomes[c] # "new" BY <1>1, <1>2, <2>2, OutcomeOf DEF TypeOK
  <2>4. performed' = performed \cup {c}
    <3>1. answers \in [Calls -> 0..2] BY <1>1 DEF TypeOK
    <3>2. answers'[c] > 0 /\ \A d \in Calls : d # c => answers'[d] = answers[d]
      BY <2>1, <3>1
    <3>3. QED BY <3>2 DEF performed
  <2>5. QED BY <1>3, <2>1, <2>3, <2>4 DEF Promise!Perform, outcomes
<1>9. ASSUME NEW c \in Calls, NEW to,
             /\ {pc[c], to} \cap {"new", "returned"} = {}
             /\ pc' = [pc EXCEPT ![c] = to]
             /\ result' = result /\ got' = got /\ answers' = answers
      PROVE  UNCHANGED << outcomes, got, performed >>
  <2>1. pc'[c] = to BY <1>1, <1>9 DEF TypeOK
  <2>2. pc'[c] \notin {"new", "returned"} BY <1>9, <2>1
  <2>3. Outcome(c)' = "open" BY <2>2 DEF Outcome
  <2>4. New(c, "open") BY <1>1, <1>9, <2>3, OneOutcome
  <2>5. pc[c] \notin {"new", "returned"} BY <1>9
  <2>6. outcomes[c] = "open" BY <1>2, <2>5, OutcomeOf
  <2>7. QED BY <1>4, <1>9, <2>4, <2>6 DEF outcomes
<1>13. ASSUME NEW c \in Calls, Register(c) \/ SendPanics(c) \/ NotConnected(c) \/ Unregister(c)
                               \/ SendRequest(c) \/ Send(c) \/ Expire(c)
       PROVE  Promise!Fail(c) \/ UNCHANGED << outcomes, got, performed >>
  <2>1. got' = got /\ answers' = answers
    BY <1>13 DEF Register, SendPanics, NotConnected, Unregister, SendRequest, Send, Expire, Fail,
                 Panic, clientVars
  <2>2. \/ /\ pc[c] # "returned" /\ pc' = [pc EXCEPT ![c] = "returned"]
           /\ \E x \in {"error", "panic"} : result' = [result EXCEPT ![c] = x]
        \/ /\ result' = result
           /\ \E to : /\ {pc[c], to} \cap {"new", "returned"} = {}
                       /\ pc' = [pc EXCEPT ![c] = to]
        \/ result' = result /\ pc' = pc
    BY <1>13 DEF Register, SendPanics, NotConnected, Unregister, SendRequest, Send, Expire, Fail,
                 Panic, Goto, MayStart
  <2>3. QED BY <1>3, <1>4, <1>6, <1>9, <2>1, <2>2
<1>10. ASSUME NEW c \in Calls, AnswerAgain(c)
       PROVE  UNCHANGED << outcomes, got, performed >>
  <2>1. /\ answers[c] = 1 /\ answers' = [answers EXCEPT ![c] = 2]
        /\ pc' = pc /\ result' = result /\ got' = got
    BY <1>10 DEF AnswerAgain, callVars
  <2>2. answers'[c] = 2 /\ \A d \in Calls : d # c => answers'[d] = answers[d]
    BY <1>1, <2>1 DEF TypeOK
  <2>3. performed' = performed BY <2>1, <2>2 DEF performed
  <2>4. QED BY <1>3, <2>1, <2>3
<1>11. ASSUME \/ \E r \in Readers : ReaderStep(r)
              \/ \E e \in Events : Arrive(e)
              \/ \E q \in queued : Write(q)
              \/ \E s \in Sessions : SessionStep(s)
              \/ ForceReset
              \/ UNCHANGED vars
       PROVE  UNCHANGED << outcomes, got, performed >>
  <2>1. pc' = pc /\ result' = result /\ got' = got /\ answers' = answers
    BY <1>11 DEF ReaderStep, dispatchAPICallback, FillWaiter, CloseWaiter, HandleUpstreamEvent,
                 doApproveGroupInvite, HookReturns, Arrive, Write, SessionStep, Attach, MakeChannels,
                 MakeMap, Detach, CloseChannels, ForceReset, vars, callVars, clientVars
  <2>2. QED BY <1>3, <1>4, <2>1
<1>12. QED
  BY <1>5, <1>7, <1>8, <1>10, <1>11, <1>13 DEF Next, CallStep, Promise!Next

\* A call ends once, with the client's answer to it or with an error: CallAPI keeps
\* its promise for any calls, hooks, readLoops and sessions (runtime.go:276-339).
THEOREM CallsImplementPromise == Spec => AnswersItsCall
<1>1. Init => Promise!Init
  BY DEF Init, Promise!Init, Outcome, performed
<1>2. IInv /\ [Next]_vars => [Promise!Next]_<< [c \in Calls |-> Outcome(c)], got, performed >>
  BY StepIsPromised DEF outcomes
<1>3. QED BY <1>1, <1>2, Invariant, PTL DEF Spec, AnswersItsCall, Promise!Spec

-----------------------------------------------------------------------------
(* Calls of hooks. *)

\* Until a second session has made its map, a call that a hook made and that has returned
\* has returned without an answer.
HookCallsTimeOut ==
    maps <= 1 =>
        \A c \in HookCalls : /\ result[c] # "answer"
                             /\ (pc[c] = "returned" => result[c] \in {"error", "panic"})

\* Until then one readLoop runs, and when a call of a hook is under way it is in that hook,
\* so that nothing was done with the channel of the call.
HookInv ==
    maps <= 1 =>
        /\ \A r, s \in Readers : Running(r) /\ Running(s) => r = s
        /\ \A r \in Readers : Running(r) => maps = 1
        /\ \A r \in Readers : reader[r] # Idle => Running(r)
        /\ \A c \in HookCalls :
              pc[c] \notin {"new", "returned"} =>
                  /\ \E r \in Readers : reader[r] = [at |-> "hook", call |-> c]
                  /\ slot[c] = None /\ c \notin closed

\* A step that changes no call of a hook and no reader.
LEMMA HookSame ==
    ASSUME HookInv, HookCallsTimeOut, UNCHANGED << slot, closed, result, reader, maps, phase >>,
           \A c \in HookCalls : pc'[c] = pc[c]
    PROVE  HookInv' /\ HookCallsTimeOut'
BY DEF HookInv, HookCallsTimeOut, Running

\* The first map comes with the first readLoop, the second ends the claim.
LEMMA HookSession ==
    ASSUME IInv, HookInv, HookCallsTimeOut, NEW s \in Sessions, SessionStep(s) \/ ForceReset
    PROVE  HookInv' /\ HookCallsTimeOut'
<1>1. TypeOK BY DEF IInv
<1>2. UNCHANGED << pc, slot, closed, result, reader >>
  BY DEF SessionStep, Attach, ForceReset, MakeChannels, MakeMap, Detach, CloseChannels, callVars,
         readVars
<1>3. CASE MakeMap(s)
  <2>1. maps' = maps + 1 /\ maps \in Nat /\ phase' = [phase EXCEPT ![s] = "running"]
    BY <1>1, <1>3 DEF MakeMap, TypeOK
  <2>2. CASE maps = 0
    <3>1. \A r \in Readers : ~ Running(r) BY <2>2 DEF HookInv
    <3>2. \A r \in Readers : Running(r)' => r = s
      BY <1>1, <2>1, <3>1 DEF Running, Readers, TypeOK
    <3>3. Running(s)' BY <1>1, <2>1 DEF Running, TypeOK
    <3>4. QED BY <1>2, <2>1, <2>2, <3>1, <3>2 DEF HookInv, HookCallsTimeOut
  <2>3. CASE maps # 0 BY <2>1, <2>3 DEF HookInv, HookCallsTimeOut
  <2>4. QED BY <2>2, <2>3
<1>4. CASE ~ MakeMap(s)
  <2>1. /\ maps' = maps
        /\ \/ phase' = phase
           \/ phase[s] = "none" /\ phase' = [phase EXCEPT ![s] = "attached"]
           \/ phase[s] = "attached" /\ phase' = [phase EXCEPT ![s] = "channels"]
           \/ phase[s] = "running" /\ phase' = [phase EXCEPT ![s] = "leaving"]
           \/ phase[s] = "leaving" /\ phase' = [phase EXCEPT ![s] = "gone"]
    BY <1>4 DEF SessionStep, Attach, ForceReset, MakeChannels, Detach, CloseChannels
  <2>2. \A r \in Readers : Running(r)' <=> Running(r)
    BY <1>1, <2>1 DEF Running, Readers, TypeOK
  <2>3. QED BY <1>2, <2>1, <2>2 DEF HookInv, HookCallsTimeOut
<1>5. QED BY <1>3, <1>4

\* No reader but that in the hook touches the channel of a call.
LEMMA HookReader ==
    ASSUME IInv, HookInv, HookCallsTimeOut, NEW r \in Readers, ReaderStep(r)
    PROVE  HookInv' /\ HookCallsTimeOut'
<1>1. TypeOK BY DEF IInv
<1>2. pc' = pc /\ result' = result /\ maps' = maps /\ phase' = phase
  BY DEF ReaderStep, dispatchAPICallback, FillWaiter, CloseWaiter, HandleUpstreamEvent,
         doApproveGroupInvite, HookReturns, callVars, sessionVars
<1>3. \A s \in Readers \ {r} : reader'[s] = reader[s]
  BY <1>1 DEF ReaderStep, dispatchAPICallback, FillWaiter, CloseWaiter, HandleUpstreamEvent,
         doApproveGroupInvite, HookReturns, TypeOK
<1>4. HookCallsTimeOut' BY <1>2 DEF HookCallsTimeOut
<1>5. HookInv'
  <2>1. SUFFICES ASSUME maps <= 1 PROVE HookInv' BY <1>2 DEF HookInv
  <2>2. Running(r)
    BY <2>1 DEF HookInv, ReaderStep, dispatchAPICallback, FillWaiter, CloseWaiter,
       HandleUpstreamEvent, doApproveGroupInvite, HookReturns, Takes, Idle
  <2>3. \A s \in Readers : Running(s)' <=> Running(s) BY <1>2 DEF Running
  <2>4. \A s \in Readers : reader'[s] # Idle => Running(s)'
    BY <1>3, <2>1, <2>2, <2>3 DEF HookInv
  <2>5. \A c \in HookCalls : pc[c] \in {"new", "returned"}
    <3>1. SUFFICES ASSUME NEW c \in HookCalls, pc[c] \notin {"new", "returned"} PROVE FALSE
      OBVIOUS
    <3>2. PICK q \in Readers : reader[q] = [at |-> "hook", call |-> c]
      BY <2>1, <3>1 DEF HookInv
    <3>3. q = r BY <2>1, <2>2, <3>2 DEF HookInv, Idle
    <3>4. QED
      BY <3>1, <3>2, <3>3 DEF ReaderStep, dispatchAPICallback, FillWaiter, CloseWaiter,
         HandleUpstreamEvent, doApproveGroupInvite, HookReturns, Takes, Idle
  <2>6. QED BY <1>2, <2>1, <2>3, <2>4, <2>5 DEF HookInv
<1>6. QED BY <1>4, <1>5

\* A call of a hook begins in its hook, and does not get an answer.
LEMMA HookCall ==
    ASSUME IInv, HookInv, HookCallsTimeOut, NEW b \in Calls,
           CallStep(b) \/ NotConnected(b) \/ Connected(b)
    PROVE  HookInv' /\ HookCallsTimeOut'
<1>1. TypeOK /\ HookCalls \subseteq Calls /\ HookCalls \cap Plain = {}
  BY ApiAssumption DEF IInv, Calls
<1>2. /\ reader' = reader /\ closed' = closed /\ maps' = maps /\ phase' = phase
  BY DEF CallStep, Register, SendRequest, Send, SendPanics, Receive, Expire, Unregister,
         NotConnected, Connected, readVars, sessionVars
<1>3. /\ \A r \in Readers : Running(r)' <=> Running(r)
      /\ \A c \in Calls \ {b} : pc'[c] = pc[c] /\ slot'[c] = slot[c] /\ result'[c] = result[c]
  BY <1>1, <1>2 DEF Running, CallStep, Register, SendRequest, Send, SendPanics, Receive, Expire,
         Unregister, NotConnected, Connected, Goto, Fail, Panic, TypeOK
<1>4. CASE b \notin HookCalls
  BY <1>1, <1>2, <1>3, <1>4 DEF HookInv, HookCallsTimeOut
<1>5. CASE b \in HookCalls
  <2>1. SUFFICES ASSUME maps <= 1 PROVE HookInv' /\ HookCallsTimeOut'
    BY <1>2 DEF HookInv, HookCallsTimeOut
  <2>2. slot[b] = None /\ b \notin closed
    <3>1. CASE pc[b] = "new"
      <4>1. QED BY <3>1, NotSent
    <3>2. CASE pc[b] # "new"
      <4>1. pc[b] # "returned"
        BY <3>2 DEF CallStep, Register, SendRequest, Send, SendPanics, Receive, Expire,
                    Unregister, NotConnected, Connected, MayStart
      <4>2. QED BY <1>5, <2>1, <3>2, <4>1 DEF HookInv
    <3>3. QED BY <3>1, <3>2
  <2>3. ~ Receive(b) BY <2>2 DEF Receive
  <2>4. slot' = slot
    BY <2>3 DEF CallStep, Register, SendRequest, Send, SendPanics, Expire, Unregister,
                NotConnected, Connected
  <2>5. \/ result'[b] \in {"error", "panic"}
        \/ result'[b] = result[b] /\ pc'[b] # "returned"
    BY <1>1, <2>3 DEF CallStep, Register, SendRequest, Send, SendPanics, Expire, Unregister,
                NotConnected, Connected, MayStart, Goto, Fail, Panic, TypeOK
  <2>6. \E r \in Readers : reader[r] = [at |-> "hook", call |-> b]
    <3>1. CASE pc[b] = "new"
      BY <1>1, <1>5, <3>1 DEF CallStep, Register, SendRequest, Send, SendPanics, Receive, Expire,
         Unregister, NotConnected, Connected, MayStart
    <3>2. CASE pc[b] # "new"
      <4>1. pc[b] # "returned"
        BY <3>2 DEF CallStep, Register, SendRequest, Send, SendPanics, Receive, Expire,
                    Unregister, NotConnected, Connected, MayStart
      <4>2. QED BY <1>5, <2>1, <3>2, <4>1 DEF HookInv
    <3>3. QED BY <3>1, <3>2
  <2>7. HookCallsTimeOut' BY <1>2, <1>3, <1>1, <2>1, <2>5 DEF HookCallsTimeOut
  <2>8. HookInv' BY <1>1, <1>2, <1>3, <2>1, <2>2, <2>4, <2>6 DEF HookInv
  <2>9. QED BY <2>7, <2>8
<1>6. QED BY <1>4, <1>5

LEMMA HookStep ==
    ASSUME IInv, HookInv, HookCallsTimeOut, [Next]_vars
    PROVE  HookInv' /\ HookCallsTimeOut'
<1>1. ASSUME \/ \E c \in Calls : Perform(c) \/ AnswerAgain(c)
             \/ \E q \in queued : Write(q)
             \/ \E e \in Events : Arrive(e)
             \/ UNCHANGED vars
      PROVE  HookInv' /\ HookCallsTimeOut'
  <2>1. UNCHANGED << pc, slot, closed, result, reader, maps, phase >>
    BY <1>1 DEF Perform, AnswerAgain, Write, Arrive, vars, callVars, readVars, sessionVars
  <2>2. QED BY <2>1, HookSame
<1>2. ASSUME ForceReset PROVE HookInv' /\ HookCallsTimeOut'
  <2>1. PICK s \in Sessions : phase[s] = "none" BY <1>2 DEF ForceReset
  <2>2. QED BY <1>2, <2>1, HookSession
<1>3. QED BY <1>1, <1>2, HookSession, HookReader, HookCall DEF Next

\* Until a second session has made its map, a call made by a hook never gets its answer,
\* whatever the client answers and however early: the goroutine that would dispatch it
\* waits for it, so that the call ends in an error or a panic (apply.go:253,266,273,
\* runtime.go:255-264).
THEOREM HookCallsFail == Spec => []HookCallsTimeOut
<1>1. Init => HookInv /\ HookCallsTimeOut
  BY DEF Init, HookInv, HookCallsTimeOut, Calls, Running, Readers
<1>2. IInv /\ HookInv /\ HookCallsTimeOut /\ [Next]_vars => HookInv' /\ HookCallsTimeOut'
  BY HookStep
<1>3. QED BY <1>1, <1>2, Invariant, PTL DEF Spec

\* The hook of an invitation is over after its first call only by a panic.
InviteTakesTwo ==
    maps <= 1 =>
        \A r \in Readers : HookReturns(r) /\ reader[r].call \in Invites \X {1} =>
                               result[reader[r].call] = "panic"

\* Until then every invitation that meets no panic is answered by handle_group_request and,
\* although the client may have performed it, by set_group_add_request (apply.go:264-285):
\* the branch that reports the success of the first is never taken.
THEOREM InvitesTakeTwo == Spec => [][InviteTakesTwo]_vars
<1>1. HookCallsTimeOut => [InviteTakesTwo]_vars
  BY DEF HookCallsTimeOut, InviteTakesTwo, HookReturns, HookCalls
<1>2. QED BY <1>1, HookCallsFail, PTL

-----------------------------------------------------------------------------
(* Without liveness: what EveryCallReturns rests on. *)

\* How far a call is from its end.
Left(p) == IF p = "new" THEN 6 ELSE
           IF p = "checked" THEN 5 ELSE
           IF p = "registered" THEN 4 ELSE
           IF p = "sending" THEN 3 ELSE
           IF p = "waiting" THEN 2 ELSE
           IF p \in {"expired", "failed"} THEN 1 ELSE 0

\* Nobody takes a call back; the client, the readers and the sessions leave it where it is,
\* and each of its own steps brings it nearer to its end, or ends the program.
CallNearer ==
    \A c \in Calls :
        /\ (pc'[c] = pc[c] \/ Left(pc'[c]) < Left(pc[c]))
        /\ (CallStep(c) => crashed' \/ Left(pc'[c]) < Left(pc[c]))

\* What a call needs for its next step: the mutex, room in its channel or its end, the
\* timer, or nothing.
MayStep(c) ==
    \/ pc[c] \in {"checked", "expired", "failed"} /\ ~ jammed
    \/ pc[c] \in {"registered", "waiting"}
    \/ pc[c] = "sending" /\ target[c] # 0 /\ (Closed(target[c]) \/ Room(target[c]))

\* A call under way may go on, unless its channel is full, or it has no waiter yet and the
\* mutex was left locked: no call waits for a channel that is nil, and none that has its
\* waiter for the mutex.
HeldInTwoPlaces ==
    \A c \in Calls : pc[c] \notin {"new", "returned"} => MayStep(c) \/ Behind(c) \/ Locked(c)

\* What EveryCallReturns rests on besides the scheduler: a call is five steps at most from
\* its end, none is taken back, and it can be held in the two places only that the property
\* names, a send without a timer and a mutex that a panic left locked
\* (runtime.go:212,724-757).
THEOREM CallsAdvance == Spec => [][CallNearer]_vars /\ []HeldInTwoPlaces
<1>1. TypeOK /\ [Next]_vars => [CallNearer]_vars
  <2> SUFFICES ASSUME TypeOK, [Next]_vars, NEW c \in Calls
               PROVE  /\ pc'[c] = pc[c] \/ Left(pc'[c]) < Left(pc[c])
                      /\ (CallStep(c) => crashed' \/ Left(pc'[c]) < Left(pc[c]))
    BY DEF CallNearer
  <2>1. DOMAIN pc = Calls BY DEF TypeOK
  <2>2. PICK p, q : p = pc[c] /\ q = pc'[c] OBVIOUS
  <2> USE DEF Goto, Fail, Panic, callVars, MayStart
  <2>3. ASSUME CallStep(c) \/ NotConnected(c) \/ Connected(c)
        PROVE  Left(q) < Left(p) \/ (q = p /\ crashed')
    <3>1. \/ p = "new" /\ q \in {"checked", "returned"}
          \/ p = "checked" /\ q \in {"registered", "returned"}
          \/ p = "registered" /\ q \in {"sending", "failed"}
          \/ p = "sending" /\ q \in {"waiting", "returned"}
          \/ p = "waiting" /\ q \in {"returned", "expired"}
          \/ p \in {"expired", "failed"} /\ q = "returned"
          \/ q = p /\ crashed'
      BY <2>1, <2>2, <2>3 DEF CallStep, Register, SendRequest, Send, SendPanics, Receive, Expire,
                              Unregister, NotConnected, Connected
    <3>2. QED BY <3>1 DEF Left
  <2>4. ASSUME NEW b \in Calls, CallStep(b) \/ NotConnected(b) \/ Connected(b), b # c PROVE q = p
    BY <2>1, <2>2, <2>4 DEF CallStep, Register, SendRequest, Send, SendPanics, Receive, Expire,
                            Unregister, NotConnected, Connected
  <2>5. ASSUME \/ \E b \in Calls : Perform(b) \/ AnswerAgain(b)
               \/ \E x \in queued : Write(x)
               \/ \E r \in Readers : ReaderStep(r)
               \/ \E e \in Events : Arrive(e)
               \/ \E s \in Sessions : SessionStep(s)
               \/ ForceReset
               \/ UNCHANGED vars
        PROVE  q = p
    BY <2>2, <2>5 DEF Perform, AnswerAgain, Write, ReaderStep, dispatchAPICallback, FillWaiter,
       CloseWaiter, HandleUpstreamEvent, doApproveGroupInvite, HookReturns, Arrive, SessionStep,
       Attach, MakeChannels, MakeMap, Detach, CloseChannels, ForceReset, vars
  <2>6. q = p \/ Left(q) < Left(p) BY <2>3, <2>4, <2>5 DEF Next
  <2>7. QED BY <2>2, <2>3, <2>6
<1>2. IInv => HeldInTwoPlaces
  BY DEF IInv, TypeOK, StartInv, HeldInTwoPlaces, MayStep, Behind, Locked
<1>3. QED BY <1>1, <1>2, CallTypes, Invariant, PTL DEF Spec
=============================================================================
