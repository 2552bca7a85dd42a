-------------------------------- MODULE ApiCall --------------------------------
(***************************************************************************)
(* API calls of the gateway to the OneBot client (core/runtime.go): CallAPI *)
(* registers a waiter under a fresh echo, sends the request and waits for  *)
(* the answer or five seconds; readLoop looks up the waiter of every frame *)
(* that carries an echo (dispatchAPICallback).                             *)
(*                                                                         *)
(* The request goes through the channel of the session: the send has no    *)
(* timer, it waits while the channel is full and panics once close has     *)
(* closed it.  A panic ends the call where something recovers it (the      *)
(* hooks, the commands, net/http), and the program where nothing does      *)
(* (refreshBotLoginInfo, notifySuperUsers).                                *)
(*                                                                         *)
(* Most callers have a goroutine of their own.  The hooks of the apply     *)
(* module do not: readLoop runs them, so that handleFriendRequestNotice    *)
(* makes its call, and doApproveGroupInvite its handle_group_request and,  *)
(* on an error, its set_group_add_request, in the goroutine that           *)
(* dispatches the answers.                                                 *)
(*                                                                         *)
(* A call and its echo have one name (nextEcho never repeats one).         *)
(***************************************************************************)
EXTENDS Integers, Sequences, FiniteSets

CONSTANTS Plain,      \* calls of goroutines of their own
          Friends,    \* friend requests; the hook makes one call, of this name
          Invites,    \* group invitations; the hook makes up to two calls
          None,
          MaxCalls,      \* bound: calls that are made
          MaxDuplicates, \* bound: requests the client answers twice
          MaxSessions,   \* bound: connections of the client
          QueueSize   \* capacity of wss.writeChan (128 in the code)

HookCalls == Friends \cup (Invites \X {1, 2})
Calls     == Plain \cup HookCalls
Events    == Friends \cup Invites
Sessions  == 1..MaxSessions
Readers   == Sessions     \* each session has its readLoop

ASSUME ApiAssumption == /\ None \notin Calls
                        /\ Plain \cap HookCalls = {}
                        /\ MaxCalls \in Nat
                        /\ MaxDuplicates \in Nat
                        /\ MaxSessions \in Nat
                        /\ QueueSize \in Nat

VARIABLES pc,         \* pc[c]: where the call is
          target,     \* target[c]: the session whose channel c is sending to; 0 is nil
          slot,       \* slot[c]: what the buffered channel of c holds
          closed,     \* calls whose channel is closed
          result,     \* result[c]: how CallAPI ended
          got,        \* got[c]: the call whose answer it returned; nil is None
          waiters,    \* the echoes in wss.apiWaiters
          jammed,     \* a panic left apiWaitersMu locked
          crashed,    \* a panic that nothing recovers ended the program
          queued,     \* requests in the channels: session and call
          requests,   \* requests on their way to the client
          answers,    \* answers[c]: answers the client has sent to c
          arrived,    \* friend requests and invitations sent
          wire,       \* frames from the client to the gateway
          reader,     \* reader[r]: what readLoop r is doing
          forwarded,  \* answers nobody waited for, forwarded to the bot apps
          conn,       \* wss.Conn is not nil
          phase,      \* phase[s]: where the handler of connection s is
          writeChan,  \* wss.writeChan: the session that made it; 0 is nil
          maps        \* sessions that have made wss.apiWaiters; none: it is nil

callVars    == << pc, target, slot, closed, result, got >>
lockVars    == << waiters, jammed >>
clientVars  == << requests, answers, arrived, wire >>
readVars    == << reader, forwarded >>
sessionVars == << conn, phase, writeChan, maps >>
vars == << callVars, lockVars, crashed, queued, clientVars, readVars, sessionVars >>

Busy  == [at : {"found", "filled"}, call : Calls]
Hooks == [at : {"hook"}, call : HookCalls]
Idle  == [at |-> "idle"]

AnswerFrames == {"answer"} \X Calls
EventFrames  == {"event"} \X Events

TypeOK ==
    /\ pc \in [Calls -> {"new", "checked", "registered", "sending", "waiting",
                         "expired", "failed", "returned"}]
    /\ target \in [Calls -> 0..MaxSessions]
    /\ slot \in [Calls -> Calls \cup {None}]
    /\ closed \subseteq Calls
    /\ result \in [Calls -> {"none", "answer", "error", "panic"}]
    /\ got \in [Calls -> Calls \cup {None}]
    /\ waiters \subseteq Calls
    /\ jammed \in BOOLEAN /\ crashed \in BOOLEAN
    /\ queued \subseteq Sessions \X Calls
    /\ requests \subseteq Calls
    /\ answers \in [Calls -> 0..2]
    /\ arrived \subseteq Events
    /\ wire \in Seq(AnswerFrames \cup EventFrames)
    /\ reader \in [Readers -> Busy \cup Hooks \cup {Idle}]
    /\ forwarded \subseteq Calls
    /\ conn \in BOOLEAN
    /\ phase \in [Sessions -> {"none", "attached", "channels", "running", "leaving", "gone"}]
    /\ writeChan \in 0..MaxSessions
    /\ maps \in Nat

Init ==
    /\ pc = [c \in Calls |-> "new"]
    /\ target = [c \in Calls |-> 0]
    /\ slot = [c \in Calls |-> None]
    /\ closed = {}
    /\ result = [c \in Calls |-> "none"]
    /\ got = [c \in Calls |-> None]
    /\ waiters = {} /\ jammed = FALSE /\ crashed = FALSE
    /\ queued = {} /\ requests = {}
    /\ answers = [c \in Calls |-> 0]
    /\ arrived = {} /\ wire = << >>
    /\ reader = [r \in Readers |-> Idle]
    /\ forwarded = {}
    /\ conn = FALSE
    /\ phase = [s \in Sessions |-> "none"]
    /\ writeChan = 0 /\ maps = 0

Goto(c, to) == pc' = [pc EXCEPT ![c] = to]

Fail(c) == /\ Goto(c, "returned")
           /\ result' = [result EXCEPT ![c] = "error"]
           /\ UNCHANGED got

\* A panic ends the call, or, in a goroutine that recovers none, the program.
Panic(c) == \/ /\ Goto(c, "returned")
               /\ result' = [result EXCEPT ![c] = "panic"]
               /\ UNCHANGED << got, crashed >>
            \/ /\ c \in Plain
               /\ crashed' = TRUE
               /\ UNCHANGED << pc, result, got >>

\* The channel of session s is closed; it has room for one more request.
Closed(s) == s \in Sessions /\ phase[s] = "gone"
Room(s)   == Cardinality({q \in queued : q[1] = s}) < QueueSize

-----------------------------------------------------------------------------
(* CallAPI. *)

\* The goroutine of the call is there: its own, or a readLoop in the hook.
MayStart(c) == /\ pc[c] = "new"
               /\ Cardinality({d \in Calls : pc[d] # "new"}) < MaxCalls
               /\ c \in Plain \/ \E r \in Readers : reader[r] = [at |-> "hook", call |-> c]

\* Without a connection the call fails at once.
NotConnected(c) ==
    /\ MayStart(c)
    /\ ~ conn
    /\ Fail(c)
    /\ UNCHANGED << target, slot, closed, lockVars, crashed, queued, clientVars, readVars, sessionVars >>

Connected(c) ==
    /\ MayStart(c)
    /\ conn
    /\ Goto(c, "checked")
    /\ UNCHANGED << target, slot, closed, result, got, lockVars, crashed, queued, clientVars,
                    readVars, sessionVars >>

\* The waiter goes into the map; before the first session has made the map, the
\* assignment panics between Lock and Unlock.
Register(c) ==
    /\ pc[c] = "checked"
    /\ ~ jammed
    /\ \/ /\ maps > 0
          /\ waiters' = waiters \cup {c}
          /\ Goto(c, "registered")
          /\ UNCHANGED << result, got, jammed, crashed >>
       \/ /\ maps = 0
          /\ jammed' = TRUE
          /\ Panic(c)
          /\ UNCHANGED waiters
    /\ UNCHANGED << target, slot, closed, queued, clientVars, readVars, sessionVars >>

\* WriteMessage tests Conn again and reads the channel it will send to.
SendRequest(c) ==
    /\ pc[c] = "registered"
    /\ \/ conn /\ target' = [target EXCEPT ![c] = writeChan] /\ Goto(c, "sending")
       \/ ~ conn /\ Goto(c, "failed") /\ UNCHANGED target
    /\ UNCHANGED << slot, closed, result, got, lockVars, crashed, queued, clientVars,
                    readVars, sessionVars >>

\* The send goes through when there is room, in an open channel.
Send(c) ==
    /\ pc[c] = "sending"
    /\ target[c] # 0 /\ ~ Closed(target[c]) /\ Room(target[c])
    /\ queued' = queued \cup {<< target[c], c >>}
    /\ target' = [target EXCEPT ![c] = 0]
    /\ Goto(c, "waiting")
    /\ UNCHANGED << slot, closed, result, got, lockVars, crashed, clientVars,
                    readVars, sessionVars >>

\* A send to a closed channel panics, at once or after it has waited for room; the
\* waiter stays in the map.
SendPanics(c) ==
    /\ pc[c] = "sending"
    /\ Closed(target[c])
    /\ Panic(c)
    /\ UNCHANGED << target, slot, closed, lockVars, queued, clientVars, readVars, sessionVars >>

\* resp := <-waiter; a channel that is closed and empty yields nil.
Receive(c) ==
    /\ pc[c] = "waiting"
    /\ slot[c] # None \/ c \in closed
    /\ Goto(c, "returned")
    /\ result' = [result EXCEPT ![c] = "answer"]
    /\ got' = [got EXCEPT ![c] = slot[c]]
    /\ slot' = [slot EXCEPT ![c] = None]
    /\ UNCHANGED << target, closed, lockVars, crashed, queued, clientVars, readVars, sessionVars >>

\* Mutant: no timer.
ExpireNever(c) == FALSE

\* time.After fires.
Expire(c) ==
    /\ pc[c] = "waiting"
    /\ Goto(c, "expired")
    /\ UNCHANGED << target, slot, closed, result, got, lockVars, crashed, queued, clientVars,
                    readVars, sessionVars >>

\* The waiter of a call that failed or timed out is removed.
Unregister(c) ==
    /\ pc[c] \in {"expired", "failed"}
    /\ ~ jammed
    /\ waiters' = waiters \ {c}
    /\ Fail(c)
    /\ UNCHANGED << target, slot, closed, jammed, crashed, queued, clientVars, readVars, sessionVars >>

-----------------------------------------------------------------------------
(* writeLoop and the client. *)

\* writeLoop takes a request and writes it to the connection of the moment (one that
\* is lost is never performed); when there is none the nil Conn panics, and nothing
\* recovers.
Write(q) ==
    /\ q \in queued
    /\ queued' = queued \ {q}
    /\ \/ conn /\ requests' = requests \cup {q[2]} /\ UNCHANGED crashed
       \/ ~ conn /\ crashed' = TRUE /\ UNCHANGED requests
    /\ UNCHANGED << callVars, lockVars, answers, arrived, wire, readVars, sessionVars >>

\* The client performs a request and answers it.
Perform(c) ==
    /\ c \in requests
    /\ requests' = requests \ {c}
    /\ answers' = [answers EXCEPT ![c] = @ + 1]
    /\ wire' = Append(wire, << "answer", c >>)
    /\ UNCHANGED << callVars, lockVars, crashed, queued, arrived, readVars, sessionVars >>

\* It answers twice.
AnswerAgain(c) ==
    /\ answers[c] = 1
    /\ Cardinality({d \in Calls : answers[d] = 2}) < MaxDuplicates
    /\ answers' = [answers EXCEPT ![c] = 2]
    /\ wire' = Append(wire, << "answer", c >>)
    /\ UNCHANGED << callVars, lockVars, crashed, queued, requests, arrived, readVars, sessionVars >>

\* A friend request, or a private message with an invitation, of somebody on
\* the whitelist.
Arrive(e) ==
    /\ maps > 0
    /\ e \in Events \ arrived
    /\ arrived' = arrived \cup {e}
    /\ wire' = Append(wire, << "event", e >>)
    /\ UNCHANGED << callVars, lockVars, crashed, queued, requests, answers, readVars, sessionVars >>

-----------------------------------------------------------------------------
(* readLoop. *)

\* It runs from the moment its session has its map, and may be late to end.
Running(r) == phase[r] \in {"running", "leaving", "gone"}
Takes(r)   == Running(r) /\ reader[r] = Idle /\ wire # << >>

\* Mutant: the answer goes to any call that waits.
dispatchToAnyone(r) ==
    /\ Takes(r) /\ Head(wire)[1] = "answer"
    /\ \E c \in waiters :
          /\ waiters' = waiters \ {c}
          /\ reader' = [reader EXCEPT ![r] = [at |-> "found", call |-> c]]
    /\ wire' = Tail(wire)
    /\ UNCHANGED << callVars, jammed, crashed, queued, requests, answers, arrived, forwarded, sessionVars >>

\* Mutant: the waiter stays in the map when it is found.
dispatchWithoutDelete(r) ==
    /\ Takes(r) /\ Head(wire)[1] = "answer"
    /\ Head(wire)[2] \in waiters
    /\ reader' = [reader EXCEPT ![r] = [at |-> "found", call |-> Head(wire)[2]]]
    /\ wire' = Tail(wire)
    /\ UNCHANGED << callVars, lockVars, crashed, queued, requests, answers, arrived, forwarded,
                    sessionVars >>

\* dispatchAPICallback: under the mutex, the waiter is looked up and deleted.
\* An answer without one goes the way of an event, to every bot app.
dispatchAPICallback(r) ==
    /\ Takes(r) /\ Head(wire)[1] = "answer"
    /\ ~ jammed
    /\ LET c == Head(wire)[2]
       IN \/ /\ c \in waiters
             /\ waiters' = waiters \ {c}
             /\ reader' = [reader EXCEPT ![r] = [at |-> "found", call |-> c]]
             /\ UNCHANGED forwarded
          \/ /\ c \notin waiters
             /\ forwarded' = forwarded \cup {c}
             /\ UNCHANGED << waiters, reader >>
    /\ wire' = Tail(wire)
    /\ UNCHANGED << callVars, jammed, crashed, queued, requests, answers, arrived, sessionVars >>

\* waiter <- payload, unless the buffer is full; nobody looks at that of a call that
\* has returned.
FillWaiter(r) ==
    /\ reader[r].at = "found"
    /\ LET c == reader[r].call
       IN /\ slot' = [slot EXCEPT ![c] = IF slot[c] = None /\ pc[c] # "returned" THEN c ELSE slot[c]]
          /\ reader' = [reader EXCEPT ![r] = [at |-> "filled", call |-> c]]
    /\ UNCHANGED << pc, target, closed, result, got, lockVars, crashed, queued, clientVars,
                    forwarded, sessionVars >>

CloseWaiter(r) ==
    /\ reader[r].at = "filled"
    /\ closed' = closed \cup {reader[r].call}
    /\ reader' = [reader EXCEPT ![r] = Idle]
    /\ UNCHANGED << pc, target, slot, result, got, lockVars, crashed, queued, clientVars,
                    forwarded, sessionVars >>

\* The upstream hook begins: handle_friend_request, or handle_group_request.
HandleUpstreamEvent(r) ==
    /\ Takes(r) /\ Head(wire)[1] = "event"
    /\ LET e == Head(wire)[2]
       IN reader' = [reader EXCEPT ![r] =
                        [at |-> "hook", call |-> IF e \in Friends THEN e ELSE << e, 1 >>]]
    /\ wire' = Tail(wire)
    /\ UNCHANGED << callVars, lockVars, crashed, queued, requests, answers, arrived, forwarded,
                    sessionVars >>

\* Mutant: an invitation is tried again as long as there is an error.
RetryInvite(r) ==
    /\ reader[r].at = "hook"
    /\ LET c == reader[r].call
       IN /\ pc[c] = "returned"
          /\ c \in Invites \X {1, 2} /\ result[c] = "error"
          /\ reader' = [reader EXCEPT ![r] = [at |-> "hook", call |-> << c[1], c[2] + 1 >>]]
    /\ UNCHANGED << callVars, lockVars, crashed, queued, clientVars, forwarded, sessionVars >>

\* After an error, doApproveGroupInvite tries set_group_add_request.
doApproveGroupInvite(r) ==
    /\ reader[r].at = "hook"
    /\ LET c == reader[r].call
       IN /\ pc[c] = "returned"
          /\ c \in Invites \X {1} /\ result[c] = "error"
          /\ reader' = [reader EXCEPT ![r] = [at |-> "hook", call |-> << c[1], 2 >>]]
    /\ UNCHANGED << callVars, lockVars, crashed, queued, clientVars, forwarded, sessionVars >>

\* Otherwise the hook is over, by a panic too, and readLoop takes the next frame.
HookReturns(r) ==
    /\ reader[r].at = "hook"
    /\ LET c == reader[r].call
       IN /\ pc[c] = "returned"
          /\ ~ (c \in Invites \X {1} /\ result[c] = "error")
    /\ reader' = [reader EXCEPT ![r] = Idle]
    /\ UNCHANGED << callVars, lockVars, crashed, queued, clientVars, forwarded, sessionVars >>

-----------------------------------------------------------------------------
(* Sessions. *)

\* handleLocal upgrades a connection once Conn is nil, and sets it.
Attach(s) ==
    /\ phase[s] = "none"
    /\ ~ conn
    /\ conn' = TRUE
    /\ phase' = [phase EXCEPT ![s] = "attached"]
    /\ UNCHANGED << callVars, lockVars, crashed, queued, clientVars, readVars, writeChan, maps >>

\* When it has waited five seconds it sets Conn to nil itself.
ForceReset ==
    /\ \E s \in Sessions : phase[s] = "none"
    /\ conn
    /\ conn' = FALSE
    /\ UNCHANGED << callVars, lockVars, crashed, queued, clientVars, readVars, phase, writeChan, maps >>

\* WsServerHandler makes the channels,
MakeChannels(s) ==
    /\ phase[s] = "attached"
    /\ writeChan' = s
    /\ phase' = [phase EXCEPT ![s] = "channels"]
    /\ UNCHANGED << callVars, lockVars, crashed, queued, clientVars, readVars, conn, maps >>

\* then a new map, which forgets every waiter.
MakeMap(s) ==
    /\ phase[s] = "channels"
    /\ waiters' = {}
    /\ maps' = maps + 1
    /\ phase' = [phase EXCEPT ![s] = "running"]
    /\ UNCHANGED << callVars, jammed, crashed, queued, clientVars, readVars, conn, writeChan >>

\* close: Conn is nil, and the frames of the connection are gone, or still to be read,
Detach(s) ==
    /\ phase[s] = "running"
    /\ conn' = FALSE
    /\ wire' \in {wire, << >>}
    /\ phase' = [phase EXCEPT ![s] = "leaving"]
    /\ UNCHANGED << callVars, lockVars, crashed, queued, requests, answers, arrived, readVars,
                    writeChan, maps >>

\* and the channel is closed.
CloseChannels(s) ==
    /\ phase[s] = "leaving"
    /\ phase' = [phase EXCEPT ![s] = "gone"]
    /\ UNCHANGED << callVars, lockVars, crashed, queued, clientVars, readVars, conn, writeChan, maps >>

-----------------------------------------------------------------------------

CallStep(c) ==
    \/ Register(c)
    \/ SendRequest(c)
    \/ Send(c)
    \/ SendPanics(c)
    \/ Receive(c)
    \/ Expire(c)
    \/ Unregister(c)

ReaderStep(r) ==
    \/ dispatchAPICallback(r)
    \/ FillWaiter(r)
    \/ CloseWaiter(r)
    \/ HandleUpstreamEvent(r)
    \/ doApproveGroupInvite(r)
    \/ HookReturns(r)

SessionStep(s) ==
    \/ Attach(s)
    \/ MakeChannels(s)
    \/ MakeMap(s)
    \/ Detach(s)
    \/ CloseChannels(s)

Next ==
    /\ ~ crashed
    /\ \/ \E c \in Calls : \/ CallStep(c) \/ NotConnected(c) \/ Connected(c)
                           \/ Perform(c) \/ AnswerAgain(c)
       \/ \E q \in queued : Write(q)
       \/ \E r \in Readers : ReaderStep(r)
       \/ \E e \in Events : Arrive(e)
       \/ \E s \in Sessions : SessionStep(s)
       \/ ForceReset

Spec == Init /\ [][Next]_vars

\* Goroutines that call run on and timers fire, while the program runs; writeLoop may
\* stand in a write for ever, the client need not answer, and a session need not end.
FairSpec == /\ Spec
            /\ \A c \in Calls : WF_vars(~ crashed /\ CallStep(c))
            /\ \A r \in Readers : WF_vars(~ crashed /\ ReaderStep(r))

-----------------------------------------------------------------------------
(* Properties. *)

\* A call ends once, with the answer to itself, which the client sent after it
\* performed the request, or with an error or a panic: no answer of another call,
\* none twice, no nil from a channel closed early, whatever is late, doubled, or
\* crosses into another session.
Outcome(c) == CASE pc[c] = "new" -> "new"
                [] pc[c] = "returned" -> IF result[c] = "answer" THEN "answer" ELSE "error"
                [] OTHER -> "open"

performed == {c \in Calls : answers[c] > 0}

Promise == INSTANCE ApiPromise
               WITH outcome <- [c \in Calls |-> Outcome(c)], answer <- got
AnswersItsCall == Promise!Spec

\* A waiter is closed once, by the reader that took it out of the map: a second
\* close would panic in readLoop and end the program (runtime.go:311-324).  What
\* stays in the map belongs to a call that is under way, or is left there by a send
\* that panicked, for which the session must have closed its channel.  And an answer
\* goes astray to the bot apps only when its call has ended, when it is a duplicate,
\* or when another session has made its map.
WaitersSound ==
    /\ \A c \in waiters : \/ pc[c] \notin {"new", "checked", "returned"}
                          \/ result[c] = "panic" /\ Closed(target[c])
    /\ \A r \in Readers :
           reader[r].at \in {"found", "filled"} =>
               /\ reader[r].call \notin closed
               /\ \A s \in Readers \ {r} : reader[s].at \in {"found", "filled"}
                                               => reader[s].call # reader[r].call
    /\ \A c \in forwarded : maps > 1 \/ answers[c] > 1 \/ pc[c] = "returned"

\* The two places where a call can stand for ever: a send to a full channel that its
\* session never closes (runtime.go:212), and, before it has its waiter, the mutex, when
\* an earlier call found no map and left it locked (739-741).
Behind(c) == pc[c] = "sending" /\ ~ Closed(target[c]) /\ ~ Room(target[c])
Locked(c) == pc[c] = "checked" /\ jammed

\* A call returns, whether or not the client answers and sessions change: none is under
\* way for ever, unless it stands for ever in one of the two, or the program ends.
EveryCallReturns ==
    \A c \in Calls : \/ []<>(pc[c] \in {"new", "returned"} \/ crashed)
                    \/ <>[](Behind(c) \/ Locked(c))

=============================================================================
