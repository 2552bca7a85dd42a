---------------------------- MODULE UpstreamSession ----------------------------
(***************************************************************************)
(* The session of the gateway with the OneBot client (QQ side):            *)
(* handleLocal in main.go accepts a WebSocket request and takes the place  *)
(* of the connection before it; WsServerHandler, readLoop, writeLoop,      *)
(* commandWorker and close in core/runtime.go serve it.  They share the    *)
(* fields Conn, writeChan and commandQueue of the one WsServer, without a  *)
(* lock.                                                                   *)
(*                                                                         *)
(* A handler, its connection, its context, its channels and its goroutines *)
(* have one name h.  A frame << c, n, kind >> is the n-th of connection c, *)
(* an "event" for the bot apps or a "command" that matches a route.        *)
(*                                                                         *)
(* Allow says what may happen around the code:                             *)
(*   "overlap"  a request arrives while another is being accepted          *)
(*   "slow"     an old handler needs more than the five seconds for which  *)
(*              handleLocal waits (readLoop is in a hook, readChan full)   *)
(*   "late"     the goroutine of readLoop starts after its session ended   *)
(*   "write"    actions are sent to the client                             *)
(*                                                                         *)
(* Once a context is cancelled, the select of each loop may still take     *)
(* what is in its channel or end the goroutine.  A goroutine that has      *)
(* ended and one that takes no step are the same here: the end is not an   *)
(* action, and fairness stops with the context.                            *)
(***************************************************************************)
EXTENDS Integers, Sequences

CONSTANTS Handlers,   \* requests of the OneBot client, one handler each
          Writers,    \* goroutines that send actions to the client
          None,       \* nil
          Allow,      \* what may happen, see above
          Depth,      \* capacity of readChan, writeChan, commandQueue: 128 in the code
          Kinds,      \* bound: the kinds of frames, "event" and "command"
          MaxFrames,  \* bound: frames the client sends on a connection
          MaxWrites   \* bound: actions sent

ASSUME SessionAssumption == /\ None \notin Handlers \cup (Handlers \X {"handler", "readLoop"})
                            /\ Handlers \cap {"idle", "checked", "blocked"} = {}
                            /\ Allow \subseteq {"overlap", "slow", "late", "write"}
                            /\ Depth \in Nat \ {0}
                            /\ Kinds \subseteq {"event", "command"}
                            /\ MaxFrames \in Nat
                            /\ MaxWrites \in Nat

VARIABLES Conn,          \* wss.Conn: the handler whose connection it is
          writeChan,     \* wss.writeChan: the handler whose channel it is
          commandQueue,  \* wss.commandQueue
          open,          \* connections whose socket is open
          pc,            \* pc[h]: where handleLocal / WsServerHandler is
          target,        \* target[h]: the connection it reads, or closes
          hand,          \* hand[h]: the frame it has read and not queued
          taken,         \* taken[c]: frames read from connection c
          readChan,      \* readChan[h]: frames between handler and readLoop
          reader,        \* reader[h]: readLoop of h
          overtaken,     \* history: sessions that began while another was dropping its queue
          tasks,         \* tasks[q]: commands in queue q
          log,           \* log[c]: frames of c a readLoop has processed, in order
          executed,      \* executed[f]: how often command f was executed
          out,           \* out[h]: actions in its writeChan
          at,            \* at[w]: where a writer is
          writes,        \* actions sent so far (bounded by MaxWrites)
          crashed        \* a goroutine panicked and nothing recovered it

connVars  == << Conn, writeChan, open, pc, target, hand, taken, overtaken >>
workVars  == << readChan, reader, tasks, commandQueue, log, executed >>
writeVars == << out, at, writes, crashed >>
vars      == << connVars, workVars, writeVars >>

\* A queue is made by WsServerHandler or by readLoop; its worker has the
\* context of h.
Queues == Handlers \X {"handler", "readLoop"}

Frames == Handlers \X (1..MaxFrames) \X Kinds

Accepting == {"evict", "wait", "upgrade", "assign", "setup", "make"}
Reading   == {"fetch", "blocked", "push"}
Closing   == {"close", "drop", "queue", "hangup", "chans"}

\* The context of h is cancelled; its channels are closed.
Cancelled(h)  == pc[h] \in (Closing \ {"close"}) \cup {"done"}
ChanClosed(h) == pc[h] = "done"

TypeOK ==
    /\ Conn \in Handlers \cup {None}
    /\ writeChan \in Handlers \cup {None}
    /\ commandQueue \in Queues \cup {None}
    /\ open \subseteq Handlers
    /\ pc \in [Handlers -> {"new", "refused", "done"} \cup Accepting \cup Reading \cup Closing]
    /\ target \in [Handlers -> Handlers \cup {None}]
    /\ hand \in [Handlers -> Frames \cup {None}]
    /\ taken \in [Handlers -> 0..MaxFrames]
    /\ readChan \in [Handlers -> Seq(Frames)]
    /\ \A h \in Handlers : Len(readChan[h]) <= Depth
    /\ reader \in [Handlers -> {"none", "start", "make", "run", "send"}]
    /\ overtaken \subseteq Handlers
    /\ tasks \in [Queues -> Seq(Frames)]
    /\ \A q \in Queues : Len(tasks[q]) <= Depth
    /\ log \in [Handlers -> Seq(1..MaxFrames)]
    /\ executed \in [Frames -> Nat]
    /\ out \in [Handlers -> 0..Depth]
    /\ at \in [Writers -> {"idle", "checked", "blocked"} \cup Handlers]
    /\ writes \in 0..MaxWrites
    /\ crashed \in BOOLEAN

Init ==
    /\ Conn = None /\ writeChan = None /\ commandQueue = None
    /\ open = {}
    /\ pc = [h \in Handlers |-> "new"]
    /\ target = [h \in Handlers |-> None]
    /\ hand = [h \in Handlers |-> None]
    /\ taken = [h \in Handlers |-> 0]
    /\ readChan = [h \in Handlers |-> << >>]
    /\ reader = [h \in Handlers |-> "none"]
    /\ overtaken = {}
    /\ tasks = [q \in Queues |-> << >>]
    /\ log = [h \in Handlers |-> << >>]
    /\ executed = [f \in Frames |-> 0]
    /\ out = [h \in Handlers |-> 0]
    /\ at = [w \in Writers |-> "idle"]
    /\ writes = 0
    /\ crashed = FALSE

Goto(h, to) == pc' = [pc EXCEPT ![h] = to]

-----------------------------------------------------------------------------
(* handleLocal: accept a connection in place of the one before. *)

Connect(h) ==
    /\ pc[h] = "new"
    /\ "overlap" \in Allow \/ \A g \in Handlers : pc[g] \notin Accepting
    /\ Goto(h, IF Conn = None THEN "upgrade" ELSE "evict")
    /\ UNCHANGED << Conn, writeChan, open, target, hand, taken, overtaken, workVars, writeVars >>

\* Mutant: the old connection is waited for and not closed.
EvictWithoutClose(h) ==
    /\ pc[h] = "evict"
    /\ Goto(h, IF Conn = None THEN "refused" ELSE "wait")
    /\ UNCHANGED << Conn, writeChan, open, target, hand, taken, overtaken, workVars, writeVars >>

\* wss.Conn.Close(); if the old handler has set Conn to nil since the test, the
\* call panics, net/http recovers it and the request is refused.
Evict(h) ==
    /\ pc[h] = "evict"
    /\ open' = open \ {Conn}
    /\ Goto(h, IF Conn = None THEN "refused" ELSE "wait")
    /\ UNCHANGED << Conn, writeChan, target, hand, taken, overtaken, workVars, writeVars >>

OldIsGone(h) ==
    /\ pc[h] = "wait"
    /\ Conn = None
    /\ Goto(h, "upgrade")
    /\ UNCHANGED << Conn, writeChan, open, target, hand, taken, overtaken, workVars, writeVars >>

ForceReset(h) ==
    /\ "slow" \in Allow
    /\ pc[h] = "wait"
    /\ Conn # None
    /\ Conn' = None
    /\ Goto(h, "upgrade")
    /\ UNCHANGED << writeChan, open, target, hand, taken, overtaken, workVars, writeVars >>

Upgrade(h) ==
    /\ pc[h] = "upgrade"
    /\ \/ open' = open \cup {h} /\ Goto(h, "assign")
       \/ open' = open /\ Goto(h, "refused")
    /\ UNCHANGED << Conn, writeChan, target, hand, taken, overtaken, workVars, writeVars >>

Assign(h) ==
    /\ pc[h] = "assign"
    /\ Conn' = h
    /\ Goto(h, "setup")
    /\ UNCHANGED << writeChan, open, target, hand, taken, overtaken, workVars, writeVars >>

-----------------------------------------------------------------------------
(* WsServerHandler: the session. *)

\* Some handler has cleared Conn in close, and not yet commandQueue.
Dropping == \E g \in Handlers : pc[g] = "queue"

\* The goroutines of the session start once its queue is there.
Begin(h) == Goto(h, "fetch") /\ reader' = [reader EXCEPT ![h] = "start"]

\* initCommandDispatcher tests commandQueue here and makes a queue in MakeQueue.
Setup(h) ==
    /\ pc[h] = "setup"
    /\ writeChan' = h
    /\ \/ commandQueue # None /\ Begin(h)
       \/ commandQueue = None /\ Goto(h, "make") /\ UNCHANGED reader
    /\ overtaken' = IF Dropping THEN overtaken \cup {h} ELSE overtaken
    /\ UNCHANGED << Conn, open, target, hand, taken,
                    readChan, tasks, commandQueue, log, executed, writeVars >>

MakeQueue(h) ==
    /\ pc[h] = "make"
    /\ commandQueue' = << h, "handler" >>
    /\ Begin(h)
    /\ UNCHANGED << Conn, writeChan, open, target, hand, taken, overtaken,
                    readChan, tasks, log, executed, writeVars >>

\* The receiver of wss.Conn.ReadMessage() is read anew in every iteration; nil
\* panics, and the deferred close runs all the same.
Fetch(h) ==
    /\ pc[h] = "fetch"
    /\ target' = [target EXCEPT ![h] = Conn]
    /\ Goto(h, IF Conn = None THEN "close" ELSE "blocked")
    /\ UNCHANGED << Conn, writeChan, open, hand, taken, overtaken, workVars, writeVars >>

ReadMessage(h) ==
    /\ pc[h] = "blocked"
    /\ target[h] \in open
    /\ taken[target[h]] < MaxFrames
    /\ taken' = [taken EXCEPT ![target[h]] = @ + 1]
    /\ \E kind \in Kinds :
          hand' = [hand EXCEPT ![h] = << target[h], taken[target[h]] + 1, kind >>]
    /\ Goto(h, "push")
    /\ UNCHANGED << Conn, writeChan, open, target, overtaken, workVars, writeVars >>

ReadError(h) ==
    /\ pc[h] = "blocked"
    /\ target[h] \notin open
    /\ Goto(h, "close")
    /\ UNCHANGED << Conn, writeChan, open, target, hand, taken, overtaken, workVars, writeVars >>

\* Mutant: a full channel drops its oldest frame.
PushOverOldest(h) ==
    /\ pc[h] = "push"
    /\ readChan' = [readChan EXCEPT ![h] = Append(IF Len(@) < Depth THEN @ ELSE Tail(@), hand[h])]
    /\ hand' = [hand EXCEPT ![h] = None]
    /\ target' = [target EXCEPT ![h] = None]
    /\ Goto(h, "fetch")
    /\ UNCHANGED << Conn, writeChan, open, taken, overtaken,
                    reader, tasks, commandQueue, log, executed, writeVars >>

\* Mutant: the send does not wait for room.
PushBeyond(h) ==
    /\ pc[h] = "push"
    /\ readChan' = [readChan EXCEPT ![h] = Append(@, hand[h])]
    /\ hand' = [hand EXCEPT ![h] = None]
    /\ target' = [target EXCEPT ![h] = None]
    /\ Goto(h, "fetch")
    /\ UNCHANGED << Conn, writeChan, open, taken, overtaken,
                    reader, tasks, commandQueue, log, executed, writeVars >>

\* readChan <- frame, blocking while it is full.
Push(h) ==
    /\ pc[h] = "push"
    /\ Len(readChan[h]) < Depth
    /\ readChan' = [readChan EXCEPT ![h] = Append(@, hand[h])]
    /\ hand' = [hand EXCEPT ![h] = None]
    /\ target' = [target EXCEPT ![h] = None]
    /\ Goto(h, "fetch")
    /\ UNCHANGED << Conn, writeChan, open, taken, overtaken,
                    reader, tasks, commandQueue, log, executed, writeVars >>

\* close, in five steps.  First: cancel the context and take Conn.
CloseCancel(h) ==
    /\ pc[h] = "close"
    /\ "late" \in Allow \/ reader[h] \notin {"start", "make"}
    /\ target' = [target EXCEPT ![h] = Conn]
    /\ Goto(h, "drop")
    /\ UNCHANGED << Conn, writeChan, open, hand, taken, overtaken, workVars, writeVars >>

\* Mutant: close does not clear Conn.
CloseDropKeepsConn(h) ==
    /\ pc[h] = "drop"
    /\ Goto(h, "queue")
    /\ UNCHANGED << Conn, writeChan, open, target, hand, taken, overtaken, workVars, writeVars >>

\* wss.Conn = nil: from here on handleLocal lets the next handler in.
CloseDrop(h) ==
    /\ pc[h] = "drop"
    /\ Conn' = None
    /\ Goto(h, "queue")
    /\ UNCHANGED << writeChan, open, target, hand, taken, overtaken, workVars, writeVars >>

\* Mutant: close leaves the queue in place.
DropQueueKeeps(h) ==
    /\ pc[h] = "queue"
    /\ Goto(h, "hangup")
    /\ UNCHANGED << Conn, writeChan, open, target, hand, taken, overtaken, workVars, writeVars >>

\* wss.commandQueue = nil, the next session's queue too.
DropQueue(h) ==
    /\ pc[h] = "queue"
    /\ commandQueue' = None
    /\ Goto(h, "hangup")
    /\ UNCHANGED << Conn, writeChan, open, target, hand, taken, overtaken,
                    readChan, reader, tasks, log, executed, writeVars >>

\* conn.Close(), of what Conn was.
HangUp(h) ==
    /\ pc[h] = "hangup"
    /\ open' = open \ {target[h]}
    /\ target' = [target EXCEPT ![h] = None]
    /\ Goto(h, "chans")
    /\ UNCHANGED << Conn, writeChan, hand, taken, overtaken, workVars, writeVars >>

CloseChans(h) ==
    /\ pc[h] = "chans"
    /\ Goto(h, "done")
    /\ UNCHANGED << Conn, writeChan, open, target, hand, taken, overtaken, workVars, writeVars >>

\* The client, or the network, ends a connection.
ClientCloses(c) ==
    /\ c \in open
    /\ open' = open \ {c}
    /\ UNCHANGED << Conn, writeChan, pc, target, hand, taken, overtaken, workVars, writeVars >>

-----------------------------------------------------------------------------
(* readLoop and commandWorker. *)

\* initCommandDispatcher again, which also here tests and then makes a queue.
StartReadLoop(h) ==
    /\ reader[h] = "start"
    /\ reader' = [reader EXCEPT ![h] = IF commandQueue = None THEN "make" ELSE "run"]
    /\ UNCHANGED << connVars, readChan, tasks, commandQueue, log, executed, writeVars >>

ReaderMakesQueue(h) ==
    /\ reader[h] = "make"
    /\ commandQueue' = << h, "readLoop" >>
    /\ reader' = [reader EXCEPT ![h] = "run"]
    /\ UNCHANGED << connVars, readChan, tasks, log, executed, writeVars >>

Execute(f) == executed' = [executed EXCEPT ![f] = @ + 1]

\* The readLoop of h is done with the frame it took from its channel.
Processed(h) ==
    /\ readChan[h] # << >>
    /\ LET f == Head(readChan[h]) IN log' = [log EXCEPT ![f[1]] = Append(@, f[2])]
    /\ readChan' = [readChan EXCEPT ![h] = Tail(@)]

\* An event goes to the bot apps; without a queue the readLoop executes a command itself.
ProcessFrame(h) ==
    /\ reader[h] = "run"
    /\ Processed(h)
    /\ LET f == Head(readChan[h])
       IN \/ f[3] = "event" /\ UNCHANGED executed
          \/ f[3] = "command" /\ commandQueue = None /\ Execute(f)
    /\ UNCHANGED << connVars, reader, tasks, commandQueue, writeVars >>

\* There is a queue for the command.
FindQueue(h) ==
    /\ reader[h] = "run"
    /\ readChan[h] # << >> /\ Head(readChan[h])[3] = "command"
    /\ commandQueue # None
    /\ reader' = [reader EXCEPT ![h] = "send"]
    /\ UNCHANGED << connVars, readChan, tasks, commandQueue, log, executed, writeVars >>

\* Mutant: the command is executed inline and queued as well.
enqueueMatchedCommandTwice(f) ==
    /\ Execute(f)
    /\ IF commandQueue = None THEN UNCHANGED tasks
       ELSE tasks' = [tasks EXCEPT ![commandQueue] = Append(@, f)]

\* commandQueue is read again for the send.  If it is full, or nil by now, the command
\* is dropped with a busy reply.
enqueueMatchedCommand(f) ==
    /\ IF commandQueue # None /\ Len(tasks[commandQueue]) < Depth
       THEN tasks' = [tasks EXCEPT ![commandQueue] = Append(@, f)]
       ELSE UNCHANGED tasks
    /\ UNCHANGED executed

EnqueueCommand(h) ==
    /\ reader[h] = "send"
    /\ Processed(h)
    /\ enqueueMatchedCommand(Head(readChan[h]))
    /\ reader' = [reader EXCEPT ![h] = "run"]
    /\ UNCHANGED << connVars, commandQueue, writeVars >>

commandWorker(q) ==
    /\ tasks[q] # << >>
    /\ Execute(Head(tasks[q]))
    /\ tasks' = [tasks EXCEPT ![q] = Tail(@)]
    /\ UNCHANGED << connVars, readChan, reader, commandQueue, log, writeVars >>

-----------------------------------------------------------------------------
(* WriteMessage and writeLoop: from bot apps, replies and API calls to the client. *)

\* The test of Conn; without one WriteMessage returns an error.
CheckConn(w) ==
    /\ "write" \in Allow
    /\ at[w] = "idle"
    /\ writes < MaxWrites
    /\ Conn # None
    /\ writes' = writes + 1
    /\ at' = [at EXCEPT ![w] = "checked"]
    /\ UNCHANGED << connVars, workVars, out, crashed >>

\* The field writeChan is read; a send to nil blocks for ever.
PickChan(w) ==
    /\ at[w] = "checked"
    /\ at' = [at EXCEPT ![w] = IF writeChan = None THEN "blocked" ELSE writeChan]
    /\ UNCHANGED << connVars, workVars, out, writes, crashed >>

\* The send; on a closed channel it panics, outside of any recover.
Send(w) ==
    /\ at[w] \in Handlers
    /\ \/ /\ ChanClosed(at[w])
          /\ crashed' = TRUE
          /\ UNCHANGED << out, at >>
       \/ /\ ~ ChanClosed(at[w])
          /\ out[at[w]] < Depth
          /\ out' = [out EXCEPT ![at[w]] = @ + 1]
          /\ at' = [at EXCEPT ![w] = "idle"]
          /\ UNCHANGED crashed
    /\ UNCHANGED << connVars, workVars, writes >>

\* writeLoop of h writes to wss.Conn as it is now; nil panics.
writeLoop(h) ==
    /\ out[h] > 0
    /\ out' = [out EXCEPT ![h] = @ - 1]
    /\ crashed' = (Conn = None)
    /\ UNCHANGED << connVars, workVars, at, writes >>

-----------------------------------------------------------------------------

HandlerStep(h) ==
    \/ Evict(h)
    \/ OldIsGone(h)
    \/ ForceReset(h)
    \/ Upgrade(h)
    \/ Assign(h)
    \/ Setup(h)
    \/ MakeQueue(h)
    \/ Fetch(h)
    \/ ReadError(h)
    \/ Push(h)
    \/ CloseCancel(h)
    \/ CloseDrop(h)
    \/ DropQueue(h)
    \/ HangUp(h)
    \/ CloseChans(h)

ReaderStep(h) ==
    \/ StartReadLoop(h) \/ ReaderMakesQueue(h)
    \/ ProcessFrame(h) \/ FindQueue(h) \/ EnqueueCommand(h)

ClientStep(h) == Connect(h) \/ ReadMessage(h) \/ ClientCloses(h)

WriterStep(w) == CheckConn(w) \/ PickChan(w) \/ Send(w)

Next ==
    /\ ~ crashed
    /\ \/ \E h \in Handlers :
             ClientStep(h) \/ HandlerStep(h) \/ ReaderStep(h) \/ writeLoop(h)
       \/ \E q \in Queues : commandWorker(q)
       \/ \E w \in Writers : WriterStep(w)

Spec == Init /\ [][Next]_vars

\* Handlers run, readLoop and the workers while their context lives.  Nothing
\* is assumed of the client.
FairSpec ==
    /\ Spec
    /\ \A h \in Handlers : /\ WF_vars(HandlerStep(h))
                           /\ WF_vars(~ Cancelled(h) /\ ReaderStep(h))
    /\ \A q \in Queues : WF_vars(~ Cancelled(q[1]) /\ commandWorker(q))

-----------------------------------------------------------------------------
(* Properties. *)

\* main.go:126, "an old connection still exists, closing it in order to accept
\* the new one": a handler reads and closes its own connection and no other,
\* although it reaches every connection through the shared field wss.Conn.
OwnConnection ==
    \A h \in Handlers :
        pc[h] \in {"blocked", "push", "drop", "queue", "hangup"} => target[h] \in {h, None}

\* A session that reads its connection has, besides, a command queue whose worker is
\* its own.  If it began while another was between wss.Conn = nil and wss.commandQueue =
\* nil (runtime.go:238-239), it may run on the queue of that one, and lose its queue,
\* but only until that one is past the second assignment: from then on it has its own
\* queue or none, and never that of a worker whose context is cancelled.
OwnSession ==
    /\ OwnConnection
    /\ \A h \in Handlers : pc[h] \in Reading =>
          \/ commandQueue = << h, "handler" >>
          \/ h \in overtaken /\ (Dropping \/ commandQueue \in {None, << h, "readLoop" >>})

\* The frames of a connection are processed in order, without a gap.
Pipe == INSTANCE UpstreamPipe
InOrder == Pipe!Spec

\* However sessions overlap, no frame is processed twice, no command is executed
\* twice, and what is executed has been processed.
ProcessedOnce ==
    /\ \A c \in Handlers : \A i, j \in DOMAIN log[c] : log[c][i] = log[c][j] => i = j
    /\ \A f \in Frames :
          executed[f] > 0 => executed[f] = 1 /\ \E i \in DOMAIN log[f[1]] : log[f[1]][i] = f[2]

\* The handler of a new connection does not need the five seconds: the old one,
\* its connection closed under it, lets go of wss.Conn, unless a panic has ended
\* the gateway.
TakeoverEnds == \A h \in Handlers : pc[h] = "wait" ~> pc[h] # "wait" \/ crashed

\* When every connection is gone for good the gateway comes to know it, and
\* refuses to send (runtime.go:209), unless a panic has ended it.
DisconnectSeen == <>[](open = {}) => <>[](Conn = None \/ crashed)

=============================================================================
