------------------------------ MODULE DeckService ------------------------------
(***************************************************************************)
(* The deck recommendation service of lunabot: an event loop (serve.py), a *)
(* process per worker (worker.py) and the two clients in the bot (deck.py),*)
(* recommendations and the periodic upload of game data.                   *)
(*                                                                         *)
(*   event loop   puts a task into the queue of a worker and has a thread  *)
(*                of the executor get the next result of that worker;      *)
(*   worker       takes tasks in order, one at a time, and answers each;   *)
(*   after 60 s   the loop gives the wait up and replaces both queues.     *)
(*                                                                         *)
(* A result does not say which task it answers.  A recommendation has its  *)
(* worker to itself (available_workers), but cache_userdata and            *)
(* refresh_data go to all workers, so that several threads may wait for    *)
(* results of one queue.  The worker keeps the queues it was started with: *)
(* what is put into their replacements nobody reads.                       *)
(*                                                                         *)
(* A batch of algorithms is as many clients with the same data.  The game  *)
(* data is one item (masterdata and musicmetas are treated alike) of one   *)
(* region; versions are numbered, 0 standing for none.                     *)
(***************************************************************************)
EXTENDS Integers, Sequences, FiniteSets, SequencesExt

CONSTANTS Workers,     \* the worker processes; the executor has as many threads
          Clients,     \* recommendations asked for, one round each
          Data,        \* Data[c]: the user data of client c
          None,
          Restored,    \* versions the files may have at the start
          CacheNum,    \* USERDATA_CACHE_NUM
          MaxVersion,  \* bound: versions of the game data that appear
          MaxRounds,   \* bound: rounds of the upload that find a difference
          MaxSlow,     \* bound: waits given up although their answer is still to come
          MaxEvents    \* bound: requests, rounds and such waits together

ASSUME DeckAssumption == /\ IsFiniteSet(Workers) /\ Workers # {}
                         /\ Restored \subseteq 0..MaxVersion
                         /\ CacheNum \in Nat \ {0}
                         /\ {MaxVersion, MaxRounds, MaxSlow, MaxEvents} \subseteq Nat
                         /\ None \notin Workers \cup Clients
                         /\ Clients \cap 1..MaxRounds = {}

VARIABLES files,    \* versions the files of the service hold: two while it writes
          db,       \* version its database names
          upd,      \* the round of the upload, and the handler of /update_data
          pc,       \* pc[c]: where the request of client c is
          hash,     \* hash[c]: the user data its recommendation is to use
          call,     \* call[k]: a task put into a queue and the wait for its result
          avail,    \* available_workers
          lost,     \* workers whose queues were replaced
          getters,  \* the executor: getters in the order given to it
          taskQ,    \* taskQ[w]: the queue worker w reads
          resQ,     \* resQ[w]: the queue it writes to
          busy,     \* busy[w]: the task it executes
          ver,      \* ver[w]: version it believes to have loaded
          content,  \* content[w]: versions of what it has loaded
          cache,    \* cache[w]: userdata_cache
          slow      \* waits given up so far although their answer was still to come

dataVars   == << files, db, upd >>
callVars   == << call, getters, lost >>
clientVars == << pc, hash >>
workerVars == << busy, ver, content, cache >>
vars == << dataVars, clientVars, callVars, workerVars, avail, taskQ, resQ, slow >>

Rounds == 1..MaxRounds

\* A call: who makes it, the method of the worker, the worker.
Calls == (Clients \X {"cache", "recommend"} \X Workers) \cup (Rounds \X {"refresh"} \X Workers)
Of(r, op) == {<< r, op, w >> : w \in Workers}
At(k) == k[3]

Waiting == {k \in Calls : call[k].st = "waiting"}

Results == [call : Calls, ok : BOOLEAN]
Idle    == [call |-> None, at |-> "idle", seen |-> 0]
NoCall  == [st |-> "new", live |-> FALSE, floor |-> 0, shared |-> FALSE, got |-> None]

TypeOK ==
    /\ db \in 0..MaxVersion
    /\ files \in SUBSET (0..MaxVersion)
    /\ upd \in [pc : {"idle", "upload", "write", "refresh"}, round : 0..MaxRounds,
                ver : 0..MaxVersion, data : 0..MaxVersion]
    /\ pc \in [Clients -> {"idle", "cache", "acquire", "recommend", "done", "failed"}]
    /\ hash \in [Clients -> {Data[c] : c \in Clients} \cup {None}]
    /\ call \in [Calls -> [st : {"new", "waiting", "answered", "timeout"}, live : BOOLEAN,
                           floor : 0..MaxVersion, shared : BOOLEAN, got : Results \cup {None}]]
    /\ avail \subseteq Workers /\ lost \subseteq Workers
    /\ getters \in Seq(Calls)
    /\ taskQ \in [Workers -> Seq(Calls)] /\ resQ \in [Workers -> Seq(Results)]
    /\ busy \in [Workers -> [call : Calls \cup {None}, seen : 0..MaxVersion,
                             at : {"idle", "load", "compute"}]]
    /\ ver \in [Workers -> 0..MaxVersion]
    /\ content \in [Workers -> SUBSET (0..MaxVersion)]
    /\ cache \in [Workers -> Seq({Data[c] : c \in Clients})]
    /\ \A w \in Workers : Len(cache[w]) <= CacheNum
    /\ slow \in 0..MaxSlow

\* init_workers; the files are those of an earlier run of the service, if any.
Init ==
    /\ db \in Restored /\ files = {db}
    /\ upd = [pc |-> "idle", round |-> 0, ver |-> 0, data |-> 0]
    /\ pc = [c \in Clients |-> "idle"] /\ hash = [c \in Clients |-> None]
    /\ call = [k \in Calls |-> NoCall]
    /\ avail = Workers /\ lost = {}
    /\ getters = << >>
    /\ taskQ = [w \in Workers |-> << >>] /\ resQ = [w \in Workers |-> << >>]
    /\ busy = [w \in Workers |-> Idle]
    /\ ver = [w \in Workers |-> 0] /\ content = [w \in Workers |-> {}]
    /\ cache = [w \in Workers |-> << >>]
    /\ slow = 0

\* update_data does not await anything: while it writes, the event loop does
\* nothing else.
LoopFree == upd.pc # "write"

\* The bound on all that the environment does.
MayHappen == Cardinality({c \in Clients : pc[c] # "idle"}) + upd.round + slow < MaxEvents

-----------------------------------------------------------------------------
(* The event loop: tasks, getters, time-outs. *)

\* The calls S, at most one per worker, are made: the task is put and the getter
\* given to the executor without an await in between.  floor and shared are for
\* the properties: the version of the database at the time, and whether another
\* call waits for a result of the same worker.
Submit(S) ==
    /\ call' = [k \in Calls |->
                   IF k \in S
                   THEN [st |-> "waiting", live |-> At(k) \notin lost,
                         floor |-> IF k[2] = "recommend" THEN db ELSE 0,
                         shared |-> \E j \in Waiting : At(j) = At(k), got |-> None]
                   ELSE [call[k] EXCEPT !.shared =
                             @ \/ (call[k].st = "waiting" /\ \E j \in S : At(j) = At(k))]]
    /\ taskQ' = [w \in Workers |->
                    taskQ[w] \o SetToSeq({k \in S : At(k) = w /\ w \notin lost})]
    /\ getters' = getters \o SetToSeq(S)
    /\ UNCHANGED lost

\* The getters in a thread: there is one for each worker.
Running == ToSet(SubSeq(getters, 1, Min({Len(getters), Cardinality(Workers)})))
Without(k) == RemoveFirst(getters, k)

\* A getter blocks in get of the queue there was when the call was made.  Which
\* of several gets a result is up to the lock of the queue.  Nobody wants the
\* result of a wait that was given up.
Get(k) ==
    /\ call[k].live
    /\ resQ[At(k)] # << >>
    /\ k \in Running
    /\ resQ' = [resQ EXCEPT ![At(k)] = Tail(@)]
    /\ getters' = Without(k)
    /\ call' = IF call[k].st = "waiting"
               THEN [call EXCEPT ![k] = [@ EXCEPT !.st = "answered", !.got = Head(resQ[At(k)])]]
               ELSE call
    /\ UNCHANGED << dataVars, clientVars, workerVars, lost, avail, taskQ, slow >>

\* The worker computes a recommendation.
Computes(w) == busy[w].at = "compute" /\ busy[w].call[2] = "recommend"

\* A getter that never returns: its queue has no worker, or all threads wait in
\* such queues.
Stuck(k) ==
    \/ ~ call[k].live
    \/ /\ k \notin Running
       /\ \A j \in Running : ~ call[j].live

\* The 60 s count from the call, whatever its worker does meanwhile: any wait may
\* be over before its result is there, for a task that takes long, for tasks
\* before it, or for a getter that has no thread although its worker has answered.
GivesUp(k) ==
    /\ call[k].st = "waiting"
    /\ LoopFree
    /\ \/ Stuck(k) /\ UNCHANGED slow
       \/ MayHappen /\ slow < MaxSlow /\ slow' = slow + 1
    /\ call' = [call EXCEPT ![k].st = "timeout"]
    /\ getters' = IF k \in Running THEN getters ELSE Without(k)

\* Mutant: the queues stay.
TimeoutKeepsQueues(k) ==
    /\ GivesUp(k)
    /\ UNCHANGED << dataVars, clientVars, workerVars, avail, taskQ, resQ, lost >>

\* wait_for gives up: a getter not started is cancelled, one in a thread stays
\* there.  Both queues are replaced.
Timeout(k) ==
    /\ GivesUp(k)
    /\ lost' = lost \cup {At(k)}
    /\ UNCHANGED << dataVars, clientVars, workerVars, avail, taskQ, resQ >>

-----------------------------------------------------------------------------
(* A recommendation: /cache_userdata, then /recommend. *)

FirstWorker == CHOOSE w \in Workers : TRUE

Answered(k) == call[k].st = "answered"

\* A result that is no success is one that gather returns with the others.
Refused(S) == \E k \in S : Answered(k) /\ ~ call[k].got.ok

\* Mutant: a wait given up returns nothing, and is no failure.
FailedByAnswer(S) == Refused(S)

\* A wait given up raises an exception, which ends gather at once.
Failed(S) == \E k \in S : call[k].st = "timeout"

\* Mutant: the data goes to one worker, as a recommendation does.
CacheOnFirst(c) ==
    /\ LoopFree
    /\ pc[c] = "idle"
    /\ MayHappen
    /\ pc' = [pc EXCEPT ![c] = "cache"]
    /\ call' = [k \in Calls |->
                   IF k \in Of(c, "cache") \ {<< c, "cache", FirstWorker >>}
                   THEN [call[k] EXCEPT !.st = "answered",
                                        !.got = [call |-> k, ok |-> TRUE]]
                   ELSE IF k = << c, "cache", FirstWorker >>
                   THEN [NoCall EXCEPT !.st = "waiting", !.live = FirstWorker \notin lost]
                   ELSE call[k]]
    /\ taskQ' = [taskQ EXCEPT ![FirstWorker] =
                    IF FirstWorker \in lost THEN @ ELSE Append(@, << c, "cache", FirstWorker >>)]
    /\ getters' = Append(getters, << c, "cache", FirstWorker >>)
    /\ UNCHANGED << dataVars, workerVars, hash, lost, avail, resQ, slow >>

\* The user data is sent to every worker.
CacheUserdata(c) ==
    /\ LoopFree
    /\ pc[c] = "idle"
    /\ MayHappen
    /\ pc' = [pc EXCEPT ![c] = "cache"]
    /\ Submit(Of(c, "cache"))
    /\ UNCHANGED << dataVars, workerVars, hash, avail, resQ, slow >>

\* The calls S are over; one that still waits goes on by itself.
Forget(S) ==
    /\ call' = [k \in Calls |-> IF k \in S /\ call[k].st # "waiting"
                                THEN [NoCall EXCEPT !.live = call[k].live] ELSE call[k]]
    /\ UNCHANGED << getters, lost >>

\* gather ends with all answers or with the first exception.  The hash in the
\* answer of the first worker names the data from now on; an answer to something
\* else has none.
CacheEnds(c) ==
    /\ LoopFree
    /\ pc[c] = "cache"
    /\ LET S     == Of(c, "cache")
           first == call[<< c, "cache", FirstWorker >>].got
       IN /\ \/ /\ \/ Failed(S)
                   \/ /\ \A k \in S : Answered(k)
                      /\ Refused(S) \/ first.call[2] # "cache"
                /\ pc' = [pc EXCEPT ![c] = "failed"]
                /\ UNCHANGED hash
             \/ /\ \A k \in S : Answered(k)
                /\ ~ Refused(S) /\ first.call[2] = "cache"
                /\ pc' = [pc EXCEPT ![c] = "acquire"]
                /\ hash' = [hash EXCEPT ![c] = Data[first.call[1]]]
          /\ Forget(S)
    /\ UNCHANGED << dataVars, workerVars, avail, taskQ, resQ, slow >>

\* __aenter__, and the call.
Recommend(c, w) ==
    /\ LoopFree
    /\ pc[c] = "acquire"
    /\ w \in avail
    /\ avail' = avail \ {w}
    /\ pc' = [pc EXCEPT ![c] = "recommend"]
    /\ Submit({<< c, "recommend", w >>})
    /\ UNCHANGED << dataVars, workerVars, hash, resQ, slow >>

\* The call is over: the worker is free again (__aexit__), whatever came of it.
\* An answer to a cache_userdata or refresh_data has no result in it.
Outcome(k) ==
    IF Answered(k) /\ call[k].got.ok /\ call[k].got.call[2] = "recommend" THEN "done" ELSE "failed"

RecommendEnds(c, w) ==
    LET k == << c, "recommend", w >>
    IN /\ LoopFree
       /\ pc[c] = "recommend"
       /\ call[k].st \in {"answered", "timeout"}
       /\ avail' = avail \cup {w}
       /\ pc' = [pc EXCEPT ![c] = Outcome(k)]
       /\ Forget({k})
       /\ UNCHANGED << dataVars, workerVars, hash, taskQ, resQ, slow >>

-----------------------------------------------------------------------------
(* Game data: deckrec_update_data in the bot, update_data in the service. *)

\* A round: the version of new game data alone is sent; the service lacks the data
\* and says so.  The interval between rounds is longer than any wait.
Probe ==
    /\ upd.pc = "idle"
    /\ upd.round < MaxRounds
    /\ MayHappen
    /\ \A k \in Waiting : k[2] # "refresh"
    /\ \E v \in db + 1 .. MaxVersion :
           upd' = [upd EXCEPT !.pc = "upload", !.round = @ + 1, !.ver = v]
    /\ UNCHANGED << files, db, clientVars, callVars, workerVars, avail, taskQ, resQ, slow >>

\* Mutant: the database is written before the files.
DumpBeforeWrite ==
    /\ upd.pc = "upload"
    /\ \E v \in upd.ver .. MaxVersion :
           /\ \A f \in files : f <= v
           /\ upd' = [upd EXCEPT !.pc = "write", !.data = v]
           /\ files' = files \cup {v}
    /\ db' = upd.ver
    /\ UNCHANGED << clientVars, callVars, workerVars, avail, taskQ, resQ, slow >>

\* The data is read and sent, as new as it is by now, under the version of the
\* probe; the files are replaced one after the other.
BeginWrite ==
    /\ upd.pc = "upload"
    /\ \E v \in upd.ver .. MaxVersion :
           /\ \A f \in files : f <= v
           /\ upd' = [upd EXCEPT !.pc = "write", !.data = v]
           /\ files' = files \cup {v}
    /\ UNCHANGED << db, clientVars, callVars, workerVars, avail, taskQ, resQ, slow >>

\* A write fails, and the handler with it.
WriteFails ==
    /\ upd.pc = "write"
    /\ upd' = [upd EXCEPT !.pc = "idle"]
    /\ UNCHANGED << files, db, clientVars, callVars, workerVars, avail, taskQ, resQ, slow >>

\* The last file is written, the database follows, and all workers are told.
EndWrite ==
    /\ upd.pc = "write"
    /\ files' = {upd.data}
    /\ db' = upd.ver
    /\ upd' = [upd EXCEPT !.pc = "refresh"]
    /\ Submit(Of(upd.round, "refresh"))
    /\ UNCHANGED << clientVars, workerVars, avail, resQ, slow >>

RefreshEnds ==
    /\ upd.pc = "refresh"
    /\ LET S == Of(upd.round, "refresh") IN Failed(S) \/ \A k \in S : Answered(k)
    /\ upd' = [upd EXCEPT !.pc = "idle"]
    /\ Forget(Of(upd.round, "refresh"))
    /\ UNCHANGED << files, db, clientVars, workerVars, avail, taskQ, resQ, slow >>

-----------------------------------------------------------------------------
(* The worker processes. *)

\* The worker takes its next task, a call of method op, and answers it in the end.
Takes(w, op) ==
    /\ busy[w] = Idle
    /\ taskQ[w] # << >>
    /\ Head(taskQ[w])[2] = op
    /\ taskQ' = [taskQ EXCEPT ![w] = Tail(@)]
Answer(w, k, ok) == resQ' = [resQ EXCEPT ![w] = Append(@, [call |-> k, ok |-> ok])]

\* Mutant: the limit is tested before the new entry is there.
EvictLate(s, b) ==
    LET t == IF Len(s) > CacheNum THEN Tail(s) ELSE s IN Append(t, b)

\* The oldest entries go when there are more than USERDATA_CACHE_NUM.
Evict(s, b) ==
    LET t == Append(s, b) IN IF Len(t) > CacheNum THEN Tail(t) ELSE t

\* What is there stays where it is.
cache_userdata(w) ==
    /\ Takes(w, "cache")
    /\ LET b == Data[Head(taskQ[w])[1]]
       IN cache' = IF Contains(cache[w], b) THEN cache ELSE [cache EXCEPT ![w] = Evict(@, b)]
    /\ Answer(w, Head(taskQ[w]), TRUE)
    /\ UNCHANGED << dataVars, clientVars, callVars, busy, ver, content, avail, slow >>

\* _update_data: the version in the database is read; if it is not the one last
\* loaded, or after refresh_data has forgotten it, the files are loaded.
BeginLoad(w) ==
    /\ Takes(w, "refresh") \/ (Takes(w, "recommend") /\ ver[w] # db)
    /\ busy' = [busy EXCEPT ![w] = [call |-> Head(taskQ[w]), at |-> "load", seen |-> db]]
    /\ content' = [content EXCEPT ![w] = files]
    /\ UNCHANGED << dataVars, clientVars, callVars, ver, cache, avail, resQ, slow >>

SkipLoad(w) ==
    /\ Takes(w, "recommend")
    /\ ver[w] = db
    /\ busy' = [busy EXCEPT ![w] = [call |-> Head(taskQ[w]), at |-> "compute", seen |-> 0]]
    /\ UNCHANGED << dataVars, clientVars, callVars, ver, content, cache, avail, resQ, slow >>

\* Files replaced meanwhile may be among those read.
EndLoad(w) ==
    /\ busy[w].at = "load"
    /\ busy' = [busy EXCEPT ![w].at = "compute"]
    /\ content' = [content EXCEPT ![w] = @ \cup files]
    /\ ver' = [ver EXCEPT ![w] = busy[w].seen]
    /\ UNCHANGED << dataVars, clientVars, callVars, cache, avail, taskQ, resQ, slow >>

\* The data cannot be loaded: the answer is an error.  The version last loaded stays,
\* or is forgotten if refresh_data has forgotten it: the next task loads again.
LoadFails(w) ==
    /\ busy[w].at = "load"
    /\ Answer(w, busy[w].call, FALSE)
    /\ busy' = [busy EXCEPT ![w] = Idle]
    /\ ver' = IF busy[w].call[2] = "refresh" THEN [ver EXCEPT ![w] = 0] ELSE ver
    /\ UNCHANGED << dataVars, clientVars, callVars, content, cache, avail, taskQ, slow >>

\* refresh_data is done; recommend computes, unless it lacks the game data or
\* the user data.
Finish(w) ==
    /\ busy[w].at = "compute"
    /\ LET k == busy[w].call
       IN Answer(w, k, k[2] = "refresh" \/ (ver[w] # 0 /\ Contains(cache[w], hash[k[1]])))
    /\ busy' = [busy EXCEPT ![w] = Idle]
    /\ UNCHANGED << dataVars, clientVars, callVars, ver, content, cache, avail, taskQ, slow >>

-----------------------------------------------------------------------------

ClientStep(c) ==
    \/ CacheEnds(c)
    \/ \E w \in Workers : Recommend(c, w) \/ RecommendEnds(c, w)

UploadStep == BeginWrite \/ EndWrite \/ RefreshEnds

WorkerStep(w) ==
    \/ cache_userdata(w)
    \/ BeginLoad(w)
    \/ SkipLoad(w)
    \/ EndLoad(w)
    \/ LoadFails(w)
    \/ Finish(w)

\* What the event loop, the threads and the processes do by themselves.
Progress ==
    \/ \E c \in Clients : ClientStep(c)
    \/ UploadStep
    \/ \E k \in Calls : Get(k) \/ (Timeout(k) /\ slow' = slow)
    \/ \E w \in Workers : WorkerStep(w)

Next ==
    \/ Progress
    \/ \E c \in Clients : CacheUserdata(c)
    \/ Probe \/ WriteFails
    \/ \E k \in Calls : Timeout(k)

Spec == Init /\ [][Next]_vars

-----------------------------------------------------------------------------
(* Properties. *)

\* A recommendation asked for when the database named version v is not computed
\* from older data: files replaced one by one under the eyes of the workers, the
\* database after them, the refresh of workers that may be busy or loading, a write
\* that fails half way and a load that fails (serve.py:24-68, worker.py:76-114).
ComputesFresh ==
    \A w \in Workers :
        Computes(w) => \A v \in content[w] : v >= call[busy[w].call].floor

\* A worker that has not the user data it was told to cache has CacheNum others
\* instead: no route of a request, a refresh or a time-out loses it.
CachedOrEvicted ==
    \A w \in Workers :
        Computes(w) => \/ Contains(cache[w], hash[busy[w].call[1]])
                       \/ Len(cache[w]) = CacheNum

\* A call that was alone in waiting for its worker all the time got the answer to
\* itself: nothing left by a call before it, answered, given up or cancelled, is
\* taken for its result (worker.py:286-298).
OwnUnlessShared ==
    \A k \in Calls : Answered(k) /\ ~ call[k].shared => call[k].got.call = k

\* ENABLED Progress, in terms of the guards.
Over(S) == Failed(S) \/ \A k \in S : Answered(k)
ClientCanGoOn(c) ==
    \/ pc[c] = "cache" /\ Over(Of(c, "cache"))
    \/ pc[c] = "acquire" /\ avail # {}
    \/ /\ pc[c] = "recommend"
       /\ \E w \in Workers : call[<< c, "recommend", w >>].st \in {"answered", "timeout"}
CanGoOn ==
    \/ \E w \in Workers : busy[w].at # "idle" \/ taskQ[w] # << >>
    \/ \E k \in Running : call[k].live /\ resQ[At(k)] # << >>
    \/ LoopFree /\ \E k \in Waiting : Stuck(k)
    \/ LoopFree /\ \E c \in Clients : ClientCanGoOn(c)
    \/ upd.pc \in {"upload", "write"}
    \/ upd.pc = "refresh" /\ Over(Of(upd.round, "refresh"))

\* No request is stuck, whatever workers and threads are lost: when nothing can go
\* on by itself, every request has ended.  (All that goes on ends, for a call is
\* answered or given up once: that nothing is stuck is that every request ends.)
GoesOnOrEnded == CanGoOn \/ \A c \in Clients : pc[c] \in {"idle", "done", "failed"}
NoRequestStuck == (CanGoOn <=> ENABLED Progress) /\ GoesOnOrEnded

=============================================================================
