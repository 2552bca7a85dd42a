-------------------------------- MODULE BotApps --------------------------------
(***************************************************************************)
(* The bot apps behind the gateway: one goroutine WsClientHandler per      *)
(* configured app (core/runtime.go) dials it, registers a WsClient in the  *)
(* list wss.WsClients, serves it, and after a disconnect schedules a       *)
(* notice, removes the client and dials again.  readLoop ranges over the   *)
(* list to forward an event, to each client in a goroutine of its own; a   *)
(* change of the Bot ID copies the list and closes its connections.        *)
(*                                                                         *)
(* The list is a Go slice: a backing array in the heap, a length, and no   *)
(* lock.  append and the removal read the slice, change the array in place *)
(* (or a copy when it is full) and store the slice; the loop of readLoop   *)
(* reads the slice once and then a place of the array at a time.           *)
(*                                                                         *)
(* Edits may overlap, and what one of them writes is then lost; reading    *)
(* and storing the three words of the slice, and moving or copying the     *)
(* pointers of its clients, is one step each even then.                    *)
(***************************************************************************)
EXTENDS Integers, Sequences, FiniteSets

CONSTANTS Apps,        \* configured bot apps, with distinct names
          Ids,         \* Bot IDs
          None,
          Depth,       \* capacity of a client's writeChan: 128 in the code
          MaxRedials,  \* bound: connections made beyond the first to each app
          MaxEvents,   \* bound: events from the OneBot client
          MaxChanges   \* bound: times the Bot ID is set

ASSUME AppsAssumption == /\ IsFiniteSet(Apps)
                         /\ None \notin Ids
                         /\ Depth \in Nat \ {0}
                         /\ {MaxRedials, MaxEvents, MaxChanges} \subseteq Nat

\* The client, and the connection, of the k-th successful dial of app a.
Clients == Apps \X (1..(MaxRedials + 1))

VARIABLES BotID,      \* wss.BotID; "" is None
          changing,   \* the ID about to be stored, its connections reset
          changes,    \* how often it was set (bounded by MaxChanges)
          overtaken,  \* apps whose dial began under an ID that was replaced
          pc,         \* pc[a]: where WsClientHandler of a is
          dials,      \* dials[a]: connections made to a
          selfId,     \* selfId[a]: the ID sent with the last dial
          up,         \* clients whose socket is open
          heap,       \* backing arrays of the list
          slice,      \* wss.WsClients: [arr: index in heap, len]
          seen,       \* seen[a]: the slice a's handler read and edits, the place found in it
          raced,      \* two edits of the list have overlapped
          sent,       \* events that readLoop has begun to forward
          range,      \* its loop: [arr, len: the slice it read, next: the place it comes to]
          disturbed,  \* << client, event >>: moved, or put in, within reach of the event's loop
          since,      \* since[c]: sent when c was put into the list
          inflight,   \* forwarding goroutines: << client, event, place it was read from >>
          out,        \* out[c]: writeChan
          got,        \* got[c][n]: how often app got event n over c
          timers,     \* apps whose disconnect notice waits for its delay
          told        \* apps whose present outage was told

idVars     == << BotID, changing, changes, overtaken >>
listVars   == << heap, slice, raced >>
rangeVars  == << range, disturbed >>
eventVars  == << sent, since, inflight, out, got >>
noticeVars == << timers, told >>
vars == << idVars, pc, dials, selfId, up, listVars, seen, rangeVars, eventVars, noticeVars >>

TypeOK ==
    /\ BotID \in Ids \cup {None} /\ changing \in Ids \cup {None}
    /\ changes \in 0..MaxChanges
    /\ overtaken \subseteq Apps
    /\ pc \in [Apps -> {"wait", "dial", "add", "append", "announce", "serve",
                        "remove", "shift", "shorten", "pause"}]
    /\ dials \in [Apps -> 0..(MaxRedials + 1)]
    /\ selfId \in [Apps -> Ids \cup {None}]
    /\ up \subseteq Clients
    /\ heap \in Seq(Seq(Clients \cup {None}))
    /\ slice \in [arr : 1..Len(heap), len : Nat]
    /\ slice.len <= Len(heap[slice.arr])
    /\ raced \in BOOLEAN
    /\ seen \in [Apps -> [arr : 1..Len(heap), len : Nat, place : Nat]]
    /\ sent \in 0..MaxEvents
    /\ range \in [arr : 1..Len(heap), len : Nat, next : Nat \ {0}]
    /\ disturbed \subseteq Clients \X (1..MaxEvents)
    /\ since \in [Clients -> 0..MaxEvents]
    /\ inflight \subseteq Clients \X (1..MaxEvents) \X Nat
    /\ out \in [Clients -> Seq(1..MaxEvents)]
    /\ \A c \in Clients : Len(out[c]) <= Depth
    /\ got \in [Clients -> [1..MaxEvents -> Nat]]
    /\ timers \subseteq Apps /\ told \subseteq Apps

\* No edit is under way.
Nothing == [arr |-> 1, len |-> 0, place |-> 0]

\* No loop is under way.
NoRange == [arr |-> 1, len |-> 0, next |-> 1]

Init ==
    /\ BotID = None /\ changing = None /\ changes = 0 /\ overtaken = {}
    /\ pc = [a \in Apps |-> "wait"]
    /\ dials = [a \in Apps |-> 0]
    /\ selfId = [a \in Apps |-> None]
    /\ up = {}
    /\ heap = << << >> >>
    /\ slice = [arr |-> 1, len |-> 0] /\ raced = FALSE
    /\ seen = [a \in Apps |-> Nothing]
    /\ sent = 0
    /\ range = NoRange /\ disturbed = {}
    /\ since = [c \in Clients |-> 0]
    /\ inflight = {}
    /\ out = [c \in Clients |-> << >>]
    /\ got = [c \in Clients |-> [n \in 1..MaxEvents |-> 0]]
    /\ timers = {} /\ told = {}

Goto(a, to) == pc' = [pc EXCEPT ![a] = to]

\* The loop of a's handler starts over; what it held is gone.
StartOver(a) ==
    /\ Goto(a, "wait")
    /\ selfId' = [selfId EXCEPT ![a] = None]
    /\ overtaken' = overtaken \ {a}
    /\ UNCHANGED << BotID, changing, changes >>

\* The client of a's present connection.
Client(a) == << a, dials[a] >>

\* The list: what the slice shows of its array.
Listed    == SubSeq(heap[slice.arr], 1, slice.len)
PlacesOf(a) == {i \in DOMAIN Listed : Listed[i][1] = a}

\* The loop of readLoop has a place of an array before it; where it has a client so.
Reach(x, i) == x = range.arr /\ i \in range.next..range.len
Ahead(c)    == {i \in range.next..range.len : heap[range.arr][i] = c}

\* The handler of a reads the slice, having found its client at a place; another
\* may be between reading the slice and storing it.
Read(a, place) ==
    /\ seen' = [seen EXCEPT ![a] = [arr |-> slice.arr, len |-> slice.len, place |-> place]]
    /\ raced' = (raced \/ \E b \in Apps \ {a} : pc[b] \in {"append", "shift", "shorten"})
    /\ UNCHANGED << heap, slice >>

-----------------------------------------------------------------------------
(* WsClientHandler: connect. *)

ReadBotID(a) ==
    /\ pc[a] = "wait"
    /\ BotID # None
    /\ selfId' = [selfId EXCEPT ![a] = BotID]
    /\ overtaken' = IF changing = None THEN overtaken ELSE overtaken \cup {a}
    /\ Goto(a, "dial")
    /\ UNCHANGED << BotID, changing, changes, dials, up, listVars, seen, rangeVars,
                    eventVars, noticeVars >>

\* Dial and the connect event that greets the app.
Dial(a) ==
    /\ pc[a] = "dial" /\ dials[a] <= MaxRedials
    /\ \/ dials[a] = 0
       \/ Cardinality({c \in Clients : 1 < c[2] /\ c[2] <= dials[c[1]]}) < MaxRedials
    /\ dials' = [dials EXCEPT ![a] = @ + 1]
    /\ up' = up \cup {<< a, dials[a] + 1 >>}
    /\ Goto(a, "add")
    /\ UNCHANGED << idVars, selfId, listVars, seen, rangeVars, eventVars, noticeVars >>

\* Either fails; after a pause the handler starts over.
DialFails(a) ==
    /\ pc[a] = "dial"
    /\ StartOver(a)
    /\ UNCHANGED << dials, up, listVars, seen, rangeVars, eventVars, noticeVars >>

\* AddWsClient: a client of that name is refused.
AddWsClient(a) ==
    /\ pc[a] = "add"
    /\ \/ /\ PlacesOf(a) = {}
          /\ Read(a, 0)
          /\ Goto(a, "append")
          /\ UNCHANGED << idVars, selfId, up >>
       \/ /\ PlacesOf(a) # {}
          /\ up' = up \ {Client(a)}
          /\ StartOver(a)
          /\ UNCHANGED << seen, listVars >>
    /\ UNCHANGED << dials, rangeVars, eventVars, noticeVars >>

\* Mutant: the slice grows beyond its array.
StoreBeyond(a) ==
    /\ pc[a] = "append"
    /\ heap' = [heap EXCEPT ![seen[a].arr] =
                   [i \in DOMAIN @ |-> IF i = seen[a].len + 1 THEN Client(a) ELSE @[i]]]
    /\ slice' = [arr |-> seen[a].arr, len |-> seen[a].len + 1]
    /\ since' = [since EXCEPT ![Client(a)] = sent]
    /\ seen' = [seen EXCEPT ![a] = Nothing]
    /\ Goto(a, "announce")
    /\ UNCHANGED << idVars, dials, selfId, up, raced, rangeVars, sent, inflight, out, got,
                    noticeVars >>

\* append: in place while there is room, else in a copy of twice the size.
StoreAppended(a) ==
    /\ pc[a] = "append"
    /\ LET s   == seen[a]
           cap == Len(heap[s.arr])
       IN \/ /\ s.len < cap
             /\ heap' = [heap EXCEPT ![s.arr] =
                            [i \in DOMAIN @ |-> IF i = s.len + 1 THEN Client(a) ELSE @[i]]]
             /\ slice' = [arr |-> s.arr, len |-> s.len + 1]
             /\ disturbed' = IF Reach(s.arr, s.len + 1) THEN disturbed \cup {<< Client(a), sent >>}
                             ELSE disturbed
          \/ /\ s.len = cap
             /\ heap' = Append(heap, [i \in 1..(IF cap = 0 THEN 1 ELSE 2 * cap) |->
                            IF i <= cap THEN heap[s.arr][i]
                            ELSE IF i = cap + 1 THEN Client(a) ELSE None])
             /\ slice' = [arr |-> Len(heap) + 1, len |-> s.len + 1]
             /\ UNCHANGED disturbed
    /\ since' = [since EXCEPT ![Client(a)] = sent]
    /\ seen' = [seen EXCEPT ![a] = Nothing]
    /\ Goto(a, "announce")
    /\ UNCHANGED << idVars, dials, selfId, up, raced, range, sent, inflight, out, got,
                    noticeVars >>

\* Mutant: a reconnection does not cancel the notice.
AnnounceKeepsTimer(a) ==
    /\ pc[a] = "announce"
    /\ told' = told \ {a}
    /\ Goto(a, "serve")
    /\ UNCHANGED << idVars, dials, selfId, up, listVars, seen, rangeVars, eventVars, timers >>

\* readLoop and writeLoop start; a notice not yet due is cancelled, and the
\* recovery is told.
Announce(a) ==
    /\ pc[a] = "announce"
    /\ timers' = timers \ {a}
    /\ told' = told \ {a}
    /\ Goto(a, "serve")
    /\ UNCHANGED << idVars, dials, selfId, up, listVars, seen, rangeVars, eventVars >>

-----------------------------------------------------------------------------
(* WsClientHandler: disconnect. *)

\* ReadMessage fails: the notice is scheduled, one before it cancelled.
Disconnect(a) ==
    /\ pc[a] = "serve"
    /\ Client(a) \notin up
    /\ timers' = timers \cup {a}
    /\ Goto(a, "remove")
    /\ UNCHANGED << idVars, dials, selfId, up, listVars, seen, rangeVars, eventVars,
                    told >>

\* RemoveWsClient looks for the client by its name.
RemoveWsClient(a) ==
    /\ pc[a] = "remove"
    /\ \/ /\ \E i \in PlacesOf(a) : (\A j \in PlacesOf(a) : i <= j) /\ Read(a, i)
          /\ Goto(a, "shift")
       \/ /\ PlacesOf(a) = {}
          /\ Goto(a, "pause")
          /\ UNCHANGED << seen, listVars >>
    /\ UNCHANGED << idVars, dials, selfId, up, rangeVars, eventVars, noticeVars >>

\* Mutant: the rest moves down to the place after the removed one.
ShiftTooLittle(a) ==
    /\ pc[a] = "shift"
    /\ LET s == seen[a]
       IN heap' = [heap EXCEPT ![s.arr] =
                      [i \in DOMAIN @ |-> IF s.place < i /\ i < s.len THEN @[i + 1] ELSE @[i]]]
    /\ Goto(a, "shorten")
    /\ UNCHANGED << idVars, dials, selfId, up, slice, raced, seen, rangeVars, eventVars, noticeVars >>

\* append(l[:i], l[i+1:]...): the rest moves down, in the array itself ...
Shift(a) ==
    /\ pc[a] = "shift"
    /\ LET s     == seen[a]
           moved == {i \in (s.place + 1)..s.len : Reach(s.arr, i) \/ Reach(s.arr, i - 1)}
       IN /\ heap' = [heap EXCEPT ![s.arr] =
                         [i \in DOMAIN @ |-> IF s.place <= i /\ i < s.len THEN @[i + 1] ELSE @[i]]]
          /\ disturbed' = disturbed \cup {<< heap[s.arr][i], sent >> : i \in moved}
    /\ Goto(a, "shorten")
    /\ UNCHANGED << idVars, dials, selfId, up, slice, raced, seen, range, eventVars, noticeVars >>

\* ... then the slice is stored, a place shorter.
Shorten(a) ==
    /\ pc[a] = "shorten"
    /\ slice' = [arr |-> seen[a].arr, len |-> seen[a].len - 1]
    /\ seen' = [seen EXCEPT ![a] = Nothing]
    /\ Goto(a, "pause")
    /\ UNCHANGED << idVars, dials, selfId, up, heap, raced, rangeVars, eventVars, noticeVars >>

\* After five seconds, in which the loops and goroutines that forward to the client
\* end and its queue is emptied, close ends its loops and closes its channels: the
\* client is gone, and its record of events with it.
CloseClient(a) ==
    /\ pc[a] = "pause"
    /\ out[Client(a)] = << >>
    /\ \A f \in inflight : f[1] # Client(a)
    /\ Ahead(Client(a)) = {}
    /\ got' = [got EXCEPT ![Client(a)] = [n \in 1..MaxEvents |-> 0]]
    /\ since' = [since EXCEPT ![Client(a)] = 0]
    /\ StartOver(a)
    /\ UNCHANGED << dials, up, listVars, seen, rangeVars, sent, inflight, out,
                    noticeVars >>

\* The app, or the network, ends a connection.
SocketCloses(c) ==
    /\ c \in up
    /\ up' = up \ {c}
    /\ UNCHANGED << idVars, pc, dials, selfId, listVars, seen, rangeVars, eventVars, noticeVars >>

-----------------------------------------------------------------------------
(* The delayed notice (scheduleBotAppDisconnectNotify). *)

\* The delay is over, first or along with the cancellation, and the notice goes
\* out; the sending itself is not ordered with that of the recovery.
NoticeDue(a) ==
    /\ a \in timers
    /\ timers' = timers \ {a}
    /\ told' = told \cup {a}
    /\ UNCHANGED << idVars, pc, dials, selfId, up, listVars, seen, rangeVars, eventVars >>

-----------------------------------------------------------------------------
(* Events: readLoop, WriteMessage, writeLoop. *)

\* readLoop begins to forward an event and reads the slice; one about to be
\* shortened shows its last client twice.
Forward ==
    /\ sent < MaxEvents
    /\ range = NoRange
    /\ sent' = sent + 1
    /\ range' = IF slice.len = 0 THEN NoRange
                ELSE [arr |-> slice.arr, len |-> slice.len, next |-> 1]
    /\ disturbed' = IF slice.len > 0 /\ \E b \in Apps : pc[b] = "shorten"
                    THEN disturbed \cup {<< Listed[slice.len], sent + 1 >>}
                    ELSE disturbed
    /\ UNCHANGED << idVars, pc, dials, selfId, up, listVars, seen, since, inflight, out, got,
                    noticeVars >>

\* Mutant: the loop over the clients ends with the first that is told.
ForwardToFirst ==
    /\ range # NoRange
    /\ inflight' = inflight \cup {<< heap[range.arr][range.next], sent, range.next >>}
    /\ range' = NoRange
    /\ UNCHANGED << idVars, pc, dials, selfId, up, listVars, seen, disturbed, sent, since, out, got,
                    noticeVars >>

\* It comes to a place and starts a goroutine for the client it finds there.
ForwardToNext ==
    /\ range # NoRange
    /\ inflight' = inflight \cup {<< heap[range.arr][range.next], sent, range.next >>}
    /\ range' = IF range.next = range.len THEN NoRange ELSE [range EXCEPT !.next = @ + 1]
    /\ UNCHANGED << idVars, pc, dials, selfId, up, listVars, seen, disturbed, sent, since, out, got,
                    noticeVars >>

\* WsClient.WriteMessage waits for room.
WriteMessage(f) ==
    /\ f \in inflight
    /\ inflight' = inflight \ {f}
    /\ Len(out[f[1]]) < Depth
    /\ out' = [out EXCEPT ![f[1]] = Append(@, f[2])]
    /\ UNCHANGED << idVars, pc, dials, selfId, up, listVars, seen, rangeVars, sent, since, got,
                    noticeVars >>

\* writeLoop: without a socket the write fails and the event is gone.
writeLoop(c) ==
    /\ out[c] # << >>
    /\ got' = [got EXCEPT ![c][Head(out[c])] = IF c \in up THEN @ + 1 ELSE @]
    /\ out' = [out EXCEPT ![c] = Tail(@)]
    /\ UNCHANGED << idVars, pc, dials, selfId, up, listVars, seen, rangeVars, sent, since,
                    inflight, noticeVars >>

-----------------------------------------------------------------------------
(* The Bot ID (handleLocal, applyLoginInfo). *)

\* Mutant: a change of the ID leaves the connections alone.
ChangeWithoutReset(id) ==
    /\ changing = None
    /\ id # BotID
    /\ changes < MaxChanges
    /\ changes' = changes + 1
    /\ changing' = id
    /\ overtaken' = overtaken \cup {a \in Apps : pc[a] \in {"dial", "add", "append"}}
    /\ UNCHANGED << BotID, pc, dials, selfId, up, listVars, seen, rangeVars, eventVars, noticeVars >>

\* DisconnectAllClients, if there was another ID before ...
ChangeBotID(id) ==
    /\ changing = None
    /\ id # BotID
    /\ changes < MaxChanges
    /\ changes' = changes + 1
    /\ changing' = id
    /\ up' = IF BotID = None THEN up ELSE up \ {Listed[i] : i \in DOMAIN Listed}
    /\ overtaken' = overtaken \cup {a \in Apps : pc[a] \in {"dial", "add", "append"}}
    /\ UNCHANGED << BotID, pc, dials, selfId, listVars, seen, rangeVars, eventVars, noticeVars >>

\* ... then the assignment.
StoreBotID ==
    /\ changing # None
    /\ BotID' = changing
    /\ changing' = None
    /\ UNCHANGED << changes, overtaken, pc, dials, selfId, up, listVars, seen, rangeVars,
                    eventVars, noticeVars >>

-----------------------------------------------------------------------------

HandlerStep(a) ==
    \/ ReadBotID(a)
    \/ Dial(a)
    \/ DialFails(a)
    \/ AddWsClient(a)
    \/ StoreAppended(a)
    \/ Announce(a)
    \/ Disconnect(a)
    \/ RemoveWsClient(a)
    \/ Shift(a)
    \/ Shorten(a)
    \/ CloseClient(a)

Next ==
    \/ \E a \in Apps : HandlerStep(a) \/ NoticeDue(a)
    \/ \E c \in Clients : SocketCloses(c) \/ writeLoop(c)
    \/ \E f \in inflight : WriteMessage(f)
    \/ Forward
    \/ ForwardToNext
    \/ \E id \in Ids : ChangeBotID(id)
    \/ StoreBotID

Spec == Init /\ [][Next]_vars

-----------------------------------------------------------------------------
(* Properties. *)

\* The list as the handlers mean it: between the move and the store of the shorter
\* slice, without the place that is left over.
Kept    == IF \E b \in Apps : pc[b] = "shorten" THEN slice.len - 1 ELSE slice.len
Members == {Listed[i] : i \in 1..Kept}

\* README.md:7, events go "to all bot apps": the list holds every app that is
\* served, once, and nobody else, although each handler edits it in place;
\* unless two edits have overlapped, after which an app may be lost from the list
\* or a client that is gone stay in it (runtime.go:216-232).
EveryAppListed ==
    ~ raced => \A a \in Apps :
        LET places == {i \in 1..Kept : Listed[i][1] = a}
        IN CASE pc[a] \in {"announce", "serve", "remove", "shift"} ->
                    Cardinality(places) = 1 /\ \A i \in places : Listed[i] = Client(a)
             [] OTHER -> places = {}

\* How many copies of event n are on their way to client c, or there.
Copies(c, n) ==
    got[c][n] + Cardinality({i \in DOMAIN out[c] : out[c][i] = n})
              + Cardinality({f \in inflight : f[1] = c /\ f[2] = n})

\* Every event that came while an app was in the list is queued for it, or got
\* there, once, as soon as the loop has come to it and as long as its socket is open;
\* never twice, and no event from before (runtime.go:288-294, 1046-1052, 1090-1123).
\* The clients that a removal moves, or an append puts in, within reach of the
\* event's loop, are the only ones that it may skip, tell twice, or tell too early
\* (runtime.go:229, 222, 288); others are told once even then.
ForwardedOnce ==
    ~ raced => \A c \in Clients, n \in 1..MaxEvents : << c, n >> \notin disturbed =>
        /\ Copies(c, n) <= 1
        /\ n <= since[c] => Copies(c, n) = 0
        /\ c \in Members /\ c \in up /\ since[c] < n /\ n <= sent
               => Copies(c, n) = 1 \/ (n = sent /\ Ahead(c) # {})

\* A change of the Bot ID reaches every app but those that were dialling when
\* it happened: they keep the old ID until they disconnect (main.go:157-162,
\* runtime.go:776-788, 888-897).
OldIdOnlyIfOvertaken ==
    ~ raced => \A a \in Apps :
        /\ pc[a] \in {"announce", "serve"}
        /\ Client(a) \in up
        /\ changing = None
        /\ selfId[a] # BotID
        => a \in overtaken

\* No alarm is pending for an app that is back (runtime.go:946-950); and that of
\* an outage is not forgotten while the app is away, however often its handler
\* tries again: it waits or was told (runtime.go:877-886, 960-968, 982-994).
NoticeIffAway ==
    /\ \A a \in timers : pc[a] # "serve"
    /\ \A a \in Apps :
           dials[a] > 0 /\ pc[a] \in {"remove", "shift", "shorten", "pause", "wait", "dial"}
               => a \in timers \cup told
=============================================================================
