-------------------------- MODULE UploadBackendProofs --------------------------
(***************************************************************************)
(* Theorems about UploadBackend for any threads, uploads, chunks and rows. *)
(***************************************************************************)
EXTENDS UploadBackend, TLAPS

-----------------------------------------------------------------------------
(* The inductive invariant. *)

\* A thread that works has an upload; one that collects chunks has the lock, and
\* with a complete upload it has all chunks.
LockInv ==
    \A h \in Handlers :
        /\ handler[h].pc # "idle" => handler[h].upload \in Uploads
        /\ handler[h].pc \in {"saving", "saved", "assembled"} =>
               lock = h /\ handler[h].upload \in Chunked
        /\ handler[h].pc = "assembled" => Chunks \subseteq parts[handler[h].upload]

\* A chunk in the directory is one that came, or was left, since the upload was last
\* taken.
DeliveryInv ==
    \A u \in Chunked, i \in Chunks :
        /\ taken[u] <= received[u][i] + left[u][i]
        /\ i \in parts[u] => taken[u] < received[u][i] + left[u][i]

\* Nothing that came is lost before the upload is taken, a complete upload is in the
\* hands of the thread that has the lock, a chunk not all there is the one that thread
\* writes, and no thread has read one.
CompleteInv ==
    \A u \in Chunked \ hurt :
        /\ taken[u] = 0 => \A i \in Chunks : received[u][i] > 0 => i \in parts[u]
        /\ Chunks \subseteq parts[u] /\ taken[u] = 0 => lock # None /\ handler[lock].upload = u
        /\ \A i \in cut[u] : /\ lock # None /\ handler[lock].pc = "saving"
                             /\ handler[lock].upload = u /\ handler[lock].chunk = i
        /\ \A h \in Handlers : handler[h].upload = u => ~ handler[h].torn

\* One thread has the file, and it has all rows.
FileInv ==
    ~ mixed =>
        /\ \A g, h \in Handlers : HasFile(g) /\ HasFile(h) => g = h
        /\ \A h \in Handlers : HasFile(h) => /\ handler[h].file \in File
                                             /\ known \subseteq RowsOf(handler[h].file)
        /\ \A h \in Handlers : At(h, "writing") => ~ handler[h].clash

IInv == TypeOK /\ LockInv /\ DeliveryInv /\ CompleteInv /\ FileInv /\ RowsKept

\* The first chunk: an upload has one.
LEMMA SomeChunk == 0 \in Chunks
BY UploadAssumption DEF Chunks

LEMMA InitInvariant == Init => IInv
<1> SUFFICES ASSUME Init PROVE IInv OBVIOUS
<1> USE UploadAssumption
<1>1. Idle \in Request /\ Idle.pc = "idle" /\ ~ Idle.torn
  BY SomeChunk DEF Idle, Working, Request, Steps
<1>2. TypeOK
  <2>1. handler \in [Handlers -> Request] BY <1>1 DEF Init
  <2>2. mixed \in BOOLEAN BY DEF Init
  <2>3. taken \in [Uploads -> Nat] BY DEF Init
  <2>4. parts \in [Chunked -> SUBSET Chunks] /\ cut \in [Chunked -> SUBSET Chunks] BY DEF Init
  <2>5. received \in [Chunked -> [Chunks -> 0..MaxDeliveries]] BY DEF Init
  <2>6. left \in [Chunked -> [Chunks -> Nat]] BY DEF Init
  <2>7. failures \in 0..MaxFailures /\ crashes \in 0..MaxCrashes BY DEF Init
  <2>8. QED BY <2>1, <2>2, <2>3, <2>4, <2>5, <2>6, <2>7 DEF Init, TypeOK
<1>3. LockInv BY <1>1 DEF Init, LockInv
<1>4. DeliveryInv BY DEF Init, DeliveryInv, Uploads
<1>5. CompleteInv BY <1>1, SomeChunk DEF Init, CompleteInv
<1>6. FileInv BY <1>1 DEF Init, FileInv, HasFile, At
<1>7. RowsKept BY DEF Init, RowsKept
<1>8. QED BY <1>2, <1>3, <1>4, <1>5, <1>6, <1>7 DEF IInv

-----------------------------------------------------------------------------
(* What a step does to the threads. *)

\* A thread gets a new request, or ends the one it has.
LEMMA NewRequest ==
    ASSUME TypeOK, NEW h \in Handlers, NEW r \in Request, handler' = [handler EXCEPT ![h] = r]
    PROVE  /\ handler' \in [Handlers -> Request]
           /\ handler'[h] = r
           /\ \A g \in Handlers \ {h} : handler'[g] = handler[g]
BY DEF TypeOK

\* A thread goes on with the request it has.
LEMMA GoesOn ==
    ASSUME TypeOK, NEW h \in Handlers, NEW pc \in Steps, Goto(h, pc)
    PROVE  /\ handler' \in [Handlers -> Request]
           /\ handler'[h].pc = pc
           /\ handler'[h].upload = handler[h].upload
           /\ handler'[h].torn <=> handler[h].torn
           /\ \A g \in Handlers \ {h} : handler'[g] = handler[g]
BY ZenonT(30) DEF TypeOK, Goto, Request

\* The requests threads have.
LEMMA Requests ==
    ASSUME NEW u \in Uploads \cup {None}, NEW i \in Chunks, NEW f \in File \cup {None},
           NEW p \in Steps
    PROVE  /\ Working(p, u, i, f) \in Request
           /\ Working(p, u, i, f).pc = p
           /\ Working(p, u, i, f).upload = u
           /\ Working(p, u, i, f).chunk = i
           /\ Working(p, u, i, f).file = f
           /\ ~ Working(p, u, i, f).torn
           /\ ~ Working(p, u, i, f).clash
BY DEF Working, Request

\* Between requests.
LEMMA IdleRequest == Idle \in Request /\ Idle.pc = "idle" /\ Idle.upload = None /\ ~ Idle.torn
BY Requests, SomeChunk DEF Idle, Steps

\* What is read and merged.
LEMMA MergedType ==
    ASSUME NEW u \in Uploads, NEW f \in File \cup {None}
    PROVE  /\ Merged(u, f) \in File
           /\ f # None => RowsOf(f) \subseteq RowsOf(Merged(u, f))
<1>1. Merged(u, f) \in File
  <2>1. [k \in Keys |-> IF k \in Rows[u] THEN u ELSE IF f = None THEN None ELSE f.rows[k]]
        \in [Keys -> Uploads \cup {None}]
    BY DEF File
  <2>2. QED BY <2>1 DEF Merged, File
<1>2. ASSUME f # None PROVE RowsOf(f) \subseteq RowsOf(Merged(u, f))
  BY <1>2, UploadAssumption DEF RowsOf, Merged
<1>3. QED BY <1>1, <1>2

\* A thread that has read the file.
LEMMA HasRead ==
    ASSUME TypeOK, NEW h \in Handlers, normalize_upload_payload(h),
           handler[h].upload \in Uploads
    PROVE  /\ handler' \in [Handlers -> Request]
           /\ handler'[h].pc = "merged" /\ ~ handler'[h].clash /\ ~ handler'[h].torn
           /\ handler'[h].upload = handler[h].upload
           /\ handler'[h].file = Merged(handler[h].upload, disk)
           /\ \A g \in Handlers \ {h} : handler'[g] = handler[g]
<1> DEFINE m == Merged(handler[h].upload, disk)
<1>1. disk \in File \cup {None} BY DEF TypeOK, normalize_upload_payload
<1>2. m \in File BY <1>1, MergedType
<1>3. handler' = [handler EXCEPT ![h] = Working("merged", handler[h].upload, 0, m)]
  BY DEF normalize_upload_payload
<1> HIDE DEF m
<1> DEFINE r == Working("merged", handler[h].upload, 0, m)
<1>4. handler[h].upload \in Uploads \cup {None} BY DEF TypeOK, Request
<1>5. /\ r \in Request /\ r.pc = "merged" /\ r.upload = handler[h].upload
      /\ r.file = m /\ ~ r.clash /\ ~ r.torn
  BY <1>2, <1>4, Requests, SomeChunk DEF Steps
<1> HIDE DEF r
<1>6. /\ handler' \in [Handlers -> Request]
      /\ handler'[h] = r
      /\ \A g \in Handlers \ {h} : handler'[g] = handler[g]
  BY <1>3, <1>5, NewRequest DEF r
<1>7. QED BY <1>5, <1>6 DEF m

\* Opening the file marks the writers there are.
LEMMA HasOpened ==
    ASSUME TypeOK, NEW h \in Handlers, OpenForWriting(h)
    PROVE  /\ handler' \in [Handlers -> Request]
           /\ handler'[h].pc = "writing"
           /\ handler'[h].clash = (Writing # {})
           /\ \A g \in Handlers : /\ handler'[g].upload = handler[g].upload
                                  /\ handler'[g].chunk = handler[g].chunk
                                  /\ handler'[g].torn <=> handler[g].torn
                                  /\ handler'[g].file = handler[g].file
                                  /\ g # h => handler'[g].pc = handler[g].pc
                                  /\ g # h /\ handler[g].pc # "writing" =>
                                         handler'[g].clash = handler[g].clash
<1> DEFINE r == [handler[h] EXCEPT !.pc = "writing", !.clash = Writing # {}]
<1>1. handler' = [g \in Handlers |->
                     IF g = h THEN r
                     ELSE IF g \in Writing THEN [handler[g] EXCEPT !.clash = TRUE]
                     ELSE handler[g]]
  BY DEF OpenForWriting
<1>2. \A g \in Handlers : handler[g] \in Request BY DEF TypeOK
<1>3. PICK p, c : p = [handler[h] EXCEPT !.pc = "writing"] /\ c = (Writing # {}) OBVIOUS
<1>4. /\ p \in Request /\ p.pc = "writing"
      /\ p.upload = handler[h].upload /\ p.file = handler[h].file
      /\ p.chunk = handler[h].chunk /\ p.torn = handler[h].torn
  BY <1>2, <1>3 DEF Request, Steps
<1>5. c \in BOOLEAN BY <1>3
<1>6. r = [p EXCEPT !.clash = c] BY <1>3
<1>7. /\ r \in Request /\ r.pc = "writing" /\ r.clash = c
      /\ r.upload = p.upload /\ r.file = p.file /\ r.chunk = p.chunk /\ r.torn = p.torn
  <2> HIDE DEF r
  <2>1. QED BY <1>4, <1>5, <1>6 DEF Request
<1>8. \A g \in Handlers :
          /\ [handler[g] EXCEPT !.clash = TRUE] \in Request
          /\ [handler[g] EXCEPT !.clash = TRUE].pc = handler[g].pc
          /\ [handler[g] EXCEPT !.clash = TRUE].upload = handler[g].upload
          /\ [handler[g] EXCEPT !.clash = TRUE].chunk = handler[g].chunk
          /\ [handler[g] EXCEPT !.clash = TRUE].torn = handler[g].torn
          /\ [handler[g] EXCEPT !.clash = TRUE].file = handler[g].file
  BY <1>2 DEF Request
<1> HIDE DEF r
<1>9. handler' \in [Handlers -> Request] BY <1>1, <1>2, <1>7, <1>8
<1>10. handler'[h] = r BY <1>1
<1>11. \A g \in Handlers \ {h} :
          handler'[g] = IF g \in Writing THEN [handler[g] EXCEPT !.clash = TRUE] ELSE handler[g]
  BY <1>1
<1>12. /\ handler'[h].pc = "writing" /\ handler'[h].clash = (Writing # {})
       /\ handler'[h].upload = handler[h].upload /\ handler'[h].file = handler[h].file
       /\ handler'[h].chunk = handler[h].chunk /\ handler'[h].torn = handler[h].torn
  BY <1>3, <1>4, <1>7, <1>10
<1>13. ASSUME NEW g \in Handlers \ {h}
       PROVE  /\ handler'[g].upload = handler[g].upload /\ handler'[g].file = handler[g].file
              /\ handler'[g].chunk = handler[g].chunk /\ handler'[g].torn = handler[g].torn
              /\ handler'[g].pc = handler[g].pc
              /\ handler[g].pc # "writing" => handler'[g].clash = handler[g].clash
  BY <1>8, <1>11 DEF Writing, At
<1>14. QED BY <1>9, <1>12, <1>13

\* Thread h gets to pc with upload u; of the other threads at most the marks of
\* writers change.
Moves(h, pc, u) ==
    /\ handler' \in [Handlers -> Request]
    /\ handler'[h].pc = pc
    /\ handler'[h].upload = u
    /\ \A g \in Handlers \ {h} : /\ handler'[g].pc = handler[g].pc
                                 /\ handler'[g].upload = handler[g].upload
                                 /\ handler'[g].chunk = handler[g].chunk
                                 /\ handler'[g].torn <=> handler[g].torn
                                 /\ handler'[g].file = handler[g].file

\* No more of what it has read is cut off.
Keeps(h) == handler'[h].torn => handler[h].torn /\ handler'[h].upload = handler[h].upload

\* The steps that end a request.
Stops(h) ==
    \/ \E u \in Chunked, i \in Chunks : NotOpened(h, u, i)
    \/ ChunkFails(h) \/ Incomplete(h) \/ ReadFails(h) \/ ProcessFails(h)
    \/ save_json_payload(h) \/ WriteFails(h)

\* Where each step takes its thread.
LEMMA StepMoves ==
    ASSUME TypeOK, LockInv, NEW h \in Handlers
    PROVE  /\ \A u \in Chunked, i \in Chunks : _save_ios_chunk(h, u, i) =>
                  Moves(h, "saving", u) /\ Keeps(h) /\ handler'[h].chunk = i
           /\ \A u \in Whole : upload(h, u) => Moves(h, "normalize", u) /\ Keeps(h)
           /\ Stops(h) => Moves(h, "idle", None) /\ Keeps(h)
           /\ Saved(h) => Moves(h, "saved", handler[h].upload) /\ Keeps(h)
           /\ _assemble_ios_chunks(h) =>
                  /\ Moves(h, "assembled", handler[h].upload)
                  /\ handler'[h].torn <=> cut[handler[h].upload] # {}
           /\ _cleanup_ios_session(h) => Moves(h, "normalize", handler[h].upload) /\ Keeps(h)
           /\ normalize_upload_payload(h) => Moves(h, "merged", handler[h].upload) /\ Keeps(h)
           /\ OpenForWriting(h) => Moves(h, "writing", handler[h].upload) /\ Keeps(h)
<1>1. ASSUME NEW u \in Uploads, NEW i \in Chunks, NEW pc \in Steps,
             handler' = [handler EXCEPT ![h] = Working(pc, u, i, None)]
      PROVE  Moves(h, pc, u) /\ Keeps(h) /\ handler'[h].chunk = i
  <2> DEFINE r == Working(pc, u, i, None)
  <2>1. r \in Request /\ r.pc = pc /\ r.upload = u /\ r.chunk = i /\ ~ r.torn BY Requests
  <2> HIDE DEF r
  <2>2. handler' = [handler EXCEPT ![h] = r] BY <1>1 DEF r
  <2>3. QED BY <2>1, <2>2, NewRequest DEF Moves, Keeps
<1>2. ASSUME handler' = [handler EXCEPT ![h] = Idle] PROVE Moves(h, "idle", None) /\ Keeps(h)
  BY <1>2, IdleRequest, NewRequest DEF Moves, Keeps
<1>3. ASSUME NEW u \in Chunked, NEW i \in Chunks, _save_ios_chunk(h, u, i)
      PROVE  Moves(h, "saving", u) /\ Keeps(h) /\ handler'[h].chunk = i
  BY <1>1, <1>3 DEF _save_ios_chunk, Opened, Uploads, Steps
<1>4. ASSUME NEW u \in Whole, upload(h, u) PROVE Moves(h, "normalize", u) /\ Keeps(h)
  BY <1>1, <1>4, SomeChunk DEF upload, Uploads, Steps
<1>5. ASSUME Stops(h) PROVE Moves(h, "idle", None) /\ Keeps(h)
  BY <1>2, <1>5 DEF Stops, NotOpened, ChunkFails, Incomplete, ReadFails, ProcessFails,
                    save_json_payload, WriteFails, Fails, Ends
<1>6. ASSUME _assemble_ios_chunks(h)
      PROVE  /\ Moves(h, "assembled", handler[h].upload)
             /\ handler'[h].torn <=> cut[handler[h].upload] # {}
  <2>1. PICK q : q = [handler[h] EXCEPT !.pc = "assembled"] OBVIOUS
  <2>2. q \in Request /\ q.pc = "assembled" /\ q.upload = handler[h].upload
    <3>1. handler[h] \in Request BY DEF TypeOK
    <3>2. QED BY <2>1, <3>1 DEF Request, Steps
  <2> DEFINE c == cut[handler[h].upload] # {}
             r == [q EXCEPT !.torn = c]
  <2>3. r \in Request /\ r.pc = "assembled" /\ r.upload = q.upload /\ (r.torn <=> c)
    <3>1. c \in BOOLEAN OBVIOUS
    <3> HIDE DEF c
    <3>2. QED BY <2>2, <3>1 DEF Request
  <2> HIDE DEF c, r
  <2>4. handler' = [handler EXCEPT ![h] = r] BY <1>6, <2>1 DEF _assemble_ios_chunks, c, r
  <2>5. /\ handler' \in [Handlers -> Request] /\ handler'[h] = r
        /\ \A g \in Handlers \ {h} : handler'[g] = handler[g]
    BY <2>3, <2>4, NewRequest
  <2>6. handler'[h].torn <=> cut[handler[h].upload] # {} BY <2>3, <2>5 DEF c
  <2>7. QED BY <2>2, <2>3, <2>5, <2>6 DEF Moves
<1>7. ASSUME NEW pc \in Steps, Goto(h, pc) PROVE Moves(h, pc, handler[h].upload) /\ Keeps(h)
  BY <1>7, GoesOn DEF Moves, Keeps
<1>8. ASSUME _cleanup_ios_session(h) PROVE Moves(h, "normalize", handler[h].upload) /\ Keeps(h)
  BY <1>7, <1>8 DEF _cleanup_ios_session, Steps
<1>9. ASSUME Saved(h) PROVE Moves(h, "saved", handler[h].upload) /\ Keeps(h)
  BY <1>7, <1>9 DEF Saved, Steps
<1>10. ASSUME normalize_upload_payload(h) PROVE Moves(h, "merged", handler[h].upload) /\ Keeps(h)
  <2>1. handler[h].upload \in Uploads
    BY <1>10 DEF normalize_upload_payload, At, LockInv
  <2>2. QED BY <1>10, <2>1, HasRead DEF Moves, Keeps
<1>11. ASSUME OpenForWriting(h) PROVE Moves(h, "writing", handler[h].upload) /\ Keeps(h)
  BY <1>11, HasOpened DEF Moves, Keeps
<1>12. QED BY <1>3, <1>4, <1>5, <1>6, <1>8, <1>9, <1>10, <1>11

-----------------------------------------------------------------------------
(* Types. *)

LEMMA FileTypes ==
    ASSUME TypeOK, LockInv, FileInv, NEW h \in Handlers, Step(h)
    PROVE  disk' \in File \cup {None, Broken} /\ known' \subseteq Keys
<1>1. ASSUME save_json_payload(h) PROVE disk' \in File \cup {None, Broken} /\ known' \subseteq Keys
  <2>1. handler[h].file \in File \cup {None} BY DEF TypeOK, Request
  <2>2. PICK f \in {handler[h].file} \cup (IF handler[h].clash THEN {Broken} ELSE {}) :
            /\ disk' = f
            /\ known' = IF f = Broken THEN known ELSE known \cup RowsOf(f)
    BY <1>1 DEF save_json_payload
  <2>3. f \in File \cup {None, Broken} BY <2>1, <2>2
  <2>4. RowsOf(f) \subseteq Keys BY DEF RowsOf
  <2>5. QED BY <2>2, <2>3, <2>4 DEF TypeOK
<1>2. ASSUME ~ save_json_payload(h) PROVE disk' \in {disk, Broken} /\ known' = known
  BY <1>2 DEF Step, _save_ios_chunk, Opened, NotOpened, Saved, ChunkFails, Incomplete,
              _assemble_ios_chunks, _cleanup_ios_session, upload, normalize_upload_payload,
              ReadFails, ProcessFails, OpenForWriting, WriteFails, fileVars
<1>3. QED BY <1>1, <1>2 DEF TypeOK

LEMMA CountTypes ==
    ASSUME TypeOK, LockInv, NEW h \in Handlers, Step(h)
    PROVE  /\ parts' \in [Chunked -> SUBSET Chunks] /\ cut' \in [Chunked -> SUBSET Chunks]
           /\ received' \in [Chunked -> [Chunks -> 0..MaxDeliveries]]
           /\ left' \in [Chunked -> [Chunks -> Nat]]
           /\ taken' \in [Uploads -> Nat] /\ hurt' \subseteq Chunked
           /\ failures' \in 0..MaxFailures /\ crashes' \in 0..MaxCrashes
<1> USE UploadAssumption
<1>1. ASSUME NEW u \in Chunked, NEW i \in Chunks, received[u][i] < MaxDeliveries,
             received' = [received EXCEPT ![u][i] = @ + 1]
      PROVE  received' \in [Chunked -> [Chunks -> 0..MaxDeliveries]]
  <2>1. received[u] \in [Chunks -> 0..MaxDeliveries] BY DEF TypeOK
  <2>2. [received[u] EXCEPT ![i] = @ + 1] \in [Chunks -> 0..MaxDeliveries] BY <1>1, <2>1
  <2>3. received' = [received EXCEPT ![u] = [received[u] EXCEPT ![i] = @ + 1]] BY <1>1
  <2>4. QED BY <2>2, <2>3 DEF TypeOK
<1>2. ASSUME NEW u \in Chunked, NEW i \in Chunks, _save_ios_chunk(h, u, i)
      PROVE  /\ received' \in [Chunked -> [Chunks -> 0..MaxDeliveries]]
             /\ parts' \in [Chunked -> SUBSET Chunks] /\ cut' \in [Chunked -> SUBSET Chunks]
             /\ UNCHANGED << left, taken, hurt, failures, crashes >>
  BY <1>1, <1>2 DEF TypeOK, _save_ios_chunk, Opened
<1>3. ASSUME NEW u \in Chunked, NEW i \in Chunks, NotOpened(h, u, i)
      PROVE  /\ received' \in [Chunked -> [Chunks -> 0..MaxDeliveries]]
             /\ hurt' \subseteq Chunked /\ failures' \in 0..MaxFailures
             /\ UNCHANGED << parts, cut, left, taken, crashes >>
  BY <1>1, <1>3 DEF TypeOK, NotOpened, Fails
<1>4. ASSUME Saved(h)
      PROVE  /\ cut' \in [Chunked -> SUBSET Chunks]
             /\ UNCHANGED << parts, received, left, taken, hurt, failures, crashes >>
  BY <1>4 DEF TypeOK, Saved
<1>5. ASSUME ChunkFails(h)
      PROVE  /\ hurt' \subseteq Chunked /\ failures' \in 0..MaxFailures
             /\ UNCHANGED << parts, cut, received, left, taken, crashes >>
  BY <1>5 DEF TypeOK, ChunkFails, Fails, LockInv, At
<1>6. ASSUME NEW u \in Whole, upload(h, u)
      PROVE  /\ taken' \in [Uploads -> Nat]
             /\ UNCHANGED << parts, cut, received, left, hurt, failures, crashes >>
  BY <1>6 DEF TypeOK, upload, Uploads
<1>7. ASSUME _cleanup_ios_session(h)
      PROVE  /\ parts' \in [Chunked -> SUBSET Chunks] /\ cut' \in [Chunked -> SUBSET Chunks]
             /\ left' \in [Chunked -> [Chunks -> Nat]] /\ taken' \in [Uploads -> Nat]
             /\ failures' \in 0..MaxFailures
             /\ UNCHANGED << received, hurt, crashes >>
  <2>1. handler[h].upload \in Chunked BY <1>7 DEF LockInv, _cleanup_ios_session, At
  <2>2. PICK u \in Chunked : u = handler[h].upload BY <2>1
  <2>3. PICK kept \in SUBSET parts[u] :
            /\ failures' = failures \/ (failures < MaxFailures /\ failures' = failures + 1)
            /\ parts' = [parts EXCEPT ![u] = kept] /\ cut' = [cut EXCEPT ![u] = @ \cap kept]
            /\ left' = [left EXCEPT ![u] = Counted(@, kept)]
    BY <1>7, <2>2 DEF _cleanup_ios_session
  <2>4. kept \in SUBSET Chunks /\ failures' \in 0..MaxFailures BY <2>3 DEF TypeOK
  <2>5. Counted(left[u], kept) \in [Chunks -> Nat]
    <3>1. \A i \in Chunks : left[u][i] \in Nat BY DEF TypeOK
    <3>2. QED BY <3>1 DEF Counted
  <2>6. left' \in [Chunked -> [Chunks -> Nat]] BY <2>3, <2>5 DEF TypeOK
  <2>7. taken' \in [Uploads -> Nat] /\ UNCHANGED << received, hurt, crashes >>
    BY <1>7, <2>1 DEF TypeOK, _cleanup_ios_session, Uploads
  <2>8. QED BY <2>3, <2>4, <2>6, <2>7 DEF TypeOK
<1>8. ASSUME ProcessFails(h) \/ WriteFails(h)
      PROVE  /\ failures' \in 0..MaxFailures
             /\ UNCHANGED << parts, cut, received, left, taken, hurt, crashes >>
  BY <1>8 DEF TypeOK, ProcessFails, WriteFails, Fails, chunkVars
<1>9. ASSUME \/ Incomplete(h) \/ _assemble_ios_chunks(h) \/ normalize_upload_payload(h)
             \/ ReadFails(h) \/ OpenForWriting(h) \/ save_json_payload(h)
      PROVE  UNCHANGED << parts, cut, received, left, taken, hurt, failures, crashes >>
  BY <1>9 DEF Incomplete, _assemble_ios_chunks, normalize_upload_payload, ReadFails,
              OpenForWriting, save_json_payload, chunkVars
<1>10. QED BY <1>2, <1>3, <1>4, <1>5, <1>6, <1>7, <1>8, <1>9 DEF Step, TypeOK

\* The upload in the lock, if any.
LEMMA InLockIs ==
    ASSUME LockInv
    PROVE  /\ InLock \subseteq Chunked
           /\ \A h \in Handlers : handler[h].pc \in {"saving", "saved", "assembled"} =>
                  handler[h].upload \in InLock
BY DEF LockInv, InLock

\* A crash may remove files of chunks.
LEMMA Crashes ==
    ASSUME TypeOK, Crash
    PROVE  /\ parts' \in [Chunked -> SUBSET Chunks] /\ cut' \in [Chunked -> SUBSET Chunks]
           /\ \A u \in Chunked : /\ parts'[u] \subseteq parts[u] /\ cut'[u] \subseteq cut[u]
                                 /\ u \notin Removing => parts'[u] = parts[u]
<1>1. PICK gone :
          /\ parts' = [u \in Chunked |-> IF u \in Removing THEN parts[u] \ gone ELSE parts[u]]
          /\ cut' = [u \in Chunked |-> IF u \in Removing THEN cut[u] \ gone ELSE cut[u]]
  BY DEF Crash
<1>2. \A u \in Chunked : parts[u] \subseteq Chunks /\ cut[u] \subseteq Chunks BY DEF TypeOK
<1>3. QED BY <1>1, <1>2

LEMMA TypeStep == ASSUME IInv, [Next]_vars PROVE TypeOK'
<1> USE UploadAssumption
<1>1. ASSUME NEW h \in Handlers, Step(h) PROVE TypeOK'
  <2>1. handler' \in [Handlers -> Request]
    BY <1>1, StepMoves DEF IInv, Step, Stops, Moves
  <2>2. mixed' \in BOOLEAN
    <3>1. UNCHANGED mixed \/ mixed' = TRUE \/ mixed' = (mixed \/ Others(h) # {})
      BY <1>1 DEF Step, save_json_payload, _save_ios_chunk, Opened, NotOpened, Saved, ChunkFails, Incomplete,
           _assemble_ios_chunks, _cleanup_ios_session, upload, normalize_upload_payload,
           ReadFails, ProcessFails, OpenForWriting, WriteFails, fileVars
    <3>2. QED BY <3>1, Zenon DEF IInv, TypeOK
  <2>3. /\ lock' \in Handlers \cup {None}
        /\ lock' # None => handler'[lock'].pc \in {"saving", "saved", "assembled"}
    <3>1. CASE \E u \in Chunked, i \in Chunks : _save_ios_chunk(h, u, i)
      BY <1>1, <3>1, StepMoves DEF IInv, Moves, _save_ios_chunk
    <3>2. CASE Incomplete(h) \/ ChunkFails(h) \/ _cleanup_ios_session(h)
      BY <3>2 DEF Incomplete, ChunkFails, _cleanup_ios_session
    <3>3. CASE Saved(h) \/ _assemble_ios_chunks(h)
      <4>1. lock' = lock BY <3>3 DEF Saved, _assemble_ios_chunks
      <4>2. PICK pc \in {"saved", "assembled"} : Moves(h, pc, handler[h].upload)
        BY <3>3, StepMoves DEF IInv
      <4>3. QED BY <4>1, <4>2 DEF IInv, TypeOK, Moves
    <3>4. CASE \E u \in Chunked, i \in Chunks : NotOpened(h, u, i)
      BY <3>4 DEF NotOpened
    <3>5. CASE \/ \E u \in Whole : upload(h, u)
               \/ normalize_upload_payload(h) \/ ReadFails(h) \/ ProcessFails(h)
               \/ OpenForWriting(h) \/ save_json_payload(h) \/ WriteFails(h)
      <4>1. lock' = lock /\ handler[h].pc \notin {"saving", "saved", "assembled"}
        BY <3>5 DEF upload, normalize_upload_payload, ReadFails, ProcessFails,
                    OpenForWriting, save_json_payload, WriteFails, At
      <4>2. \A g \in Handlers \ {h} : handler'[g].pc = handler[g].pc
        BY <3>5, StepMoves DEF IInv, Moves, Stops
      <4>3. QED BY <4>1, <4>2 DEF IInv, TypeOK
    <3>6. QED BY <1>1, <3>1, <3>2, <3>3, <3>4, <3>5 DEF Step
  <2>4. QED BY <1>1, <2>1, <2>2, <2>3, FileTypes, CountTypes DEF IInv, TypeOK
<1>2. CASE Crash
  <2>1. handler' \in [Handlers -> Request] BY <1>2, IdleRequest DEF Crash
  <2>2. mixed' \in BOOLEAN
    <3>1. mixed' = (mixed \/ Writing # {}) BY <1>2 DEF Crash
    <3>2. QED BY <3>1, Zenon
  <2>3. parts' \in [Chunked -> SUBSET Chunks] /\ cut' \in [Chunked -> SUBSET Chunks]
    BY <1>2, Crashes DEF IInv
  <2>4. hurt' \subseteq Chunked /\ crashes' \in 0..MaxCrashes
    BY <1>2, InLockIs DEF IInv, TypeOK, Crash
  <2>5. QED BY <1>2, <2>1, <2>2, <2>3, <2>4 DEF IInv, TypeOK, Crash
<1>3. CASE UNCHANGED vars BY <1>3 DEF IInv, TypeOK, vars, chunkVars, fileVars
<1>4. QED BY <1>1, <1>2, <1>3 DEF Next

-----------------------------------------------------------------------------
(* The lock and the chunks. *)

LEMMA LockStep == ASSUME IInv, TypeOK', [Next]_vars PROVE LockInv'
<1> USE UploadAssumption DEF IInv
<1> DEFINE Holding == {"saving", "saved", "assembled"}
<1>1. ASSUME NEW h \in Handlers, NEW u \in Chunked, NEW i \in Chunks, _save_ios_chunk(h, u, i)
      PROVE  LockInv'
  <2>1. Moves(h, "saving", u) BY <1>1, StepMoves
  <2>2. lock = None /\ lock' = h BY <1>1 DEF _save_ios_chunk
  <2>3. \A g \in Handlers \ {h} : handler[g].pc \notin Holding BY <2>2 DEF LockInv
  <2>4. QED BY <2>1, <2>2, <2>3 DEF LockInv, Moves, Uploads
<1>2. ASSUME NEW h \in Handlers, NEW u \in Whole, upload(h, u) PROVE LockInv'
  <2>1. Moves(h, "normalize", u) BY <1>2, StepMoves
  <2>2. UNCHANGED << lock, parts >> BY <1>2 DEF upload
  <2>3. QED BY <2>1, <2>2 DEF LockInv, Moves, Uploads
<1>3. ASSUME NEW h \in Handlers, Stops(h) PROVE LockInv'
  <2>1. Moves(h, "idle", None) BY <1>3, StepMoves
  <2>2. parts' = parts
    BY <1>3 DEF Stops, NotOpened, ChunkFails, Incomplete, ReadFails, ProcessFails,
                save_json_payload, WriteFails, chunkVars
  <2>3. lock' = lock \/ (lock' = None /\ handler[h].pc \in Holding)
    BY <1>3 DEF Stops, NotOpened, ChunkFails, Incomplete, ReadFails, ProcessFails,
                save_json_payload, WriteFails, At
  <2>4. \A g \in Handlers \ {h} : handler[g].pc \in Holding => lock' = lock
    BY <2>3 DEF LockInv
  <2>5. QED BY <2>1, <2>2, <2>4 DEF LockInv, Moves
<1>4. ASSUME NEW h \in Handlers, Saved(h) PROVE LockInv'
  <2>1. Moves(h, "saved", handler[h].upload) BY <1>4, StepMoves
  <2>2. UNCHANGED << lock, parts >> /\ handler[h].pc = "saving" BY <1>4 DEF Saved, At
  <2>3. QED BY <2>1, <2>2 DEF LockInv, Moves
<1>5. ASSUME NEW h \in Handlers, _assemble_ios_chunks(h) PROVE LockInv'
  <2>1. Moves(h, "assembled", handler[h].upload) BY <1>5, StepMoves
  <2>2. /\ UNCHANGED << lock, parts >> /\ handler[h].pc = "saved"
        /\ Chunks \subseteq parts[handler[h].upload]
    BY <1>5 DEF _assemble_ios_chunks, _has_all_ios_chunks, At, chunkVars
  <2>3. QED BY <2>1, <2>2 DEF LockInv, Moves
<1>6. ASSUME NEW h \in Handlers, _cleanup_ios_session(h) PROVE LockInv'
  <2>1. Moves(h, "normalize", handler[h].upload) BY <1>6, StepMoves
  <2>2. lock = h /\ handler[h].upload \in Uploads
    BY <1>6 DEF _cleanup_ios_session, At, LockInv
  <2>3. \A g \in Handlers \ {h} : handler[g].pc \notin Holding BY <2>2 DEF LockInv
  <2>4. QED BY <2>1, <2>2, <2>3 DEF LockInv, Moves
<1>7. ASSUME NEW h \in Handlers, normalize_upload_payload(h) PROVE LockInv'
  <2>1. Moves(h, "merged", handler[h].upload) BY <1>7, StepMoves
  <2>2. UNCHANGED << lock, parts >> /\ handler[h].pc = "normalize"
    BY <1>7 DEF normalize_upload_payload, At, chunkVars
  <2>3. QED BY <2>1, <2>2 DEF LockInv, Moves
<1>8. ASSUME NEW h \in Handlers, OpenForWriting(h) PROVE LockInv'
  <2>1. Moves(h, "writing", handler[h].upload) BY <1>8, StepMoves
  <2>2. UNCHANGED << lock, parts >> /\ handler[h].pc = "merged"
    BY <1>8 DEF OpenForWriting, At, chunkVars
  <2>3. QED BY <2>1, <2>2 DEF LockInv, Moves
<1>9. CASE Crash BY <1>9, IdleRequest DEF Crash, LockInv
<1>10. CASE UNCHANGED vars BY <1>10 DEF LockInv, vars, chunkVars
<1>11. QED BY <1>1, <1>2, <1>3, <1>4, <1>5, <1>6, <1>7, <1>8, <1>9, <1>10 DEF Next, Step, Stops

\* Steps of a thread that has neither the lock nor a chunk.
Elsewhere(h) ==
    \/ \E u \in Whole : upload(h, u)
    \/ normalize_upload_payload(h) \/ ReadFails(h) \/ ProcessFails(h)
    \/ OpenForWriting(h) \/ save_json_payload(h) \/ WriteFails(h)

\* They leave the chunks as they are.
LEMMA ElsewhereIs ==
    ASSUME TypeOK, LockInv, NEW h \in Handlers, Elsewhere(h)
    PROVE  /\ UNCHANGED << parts, cut, received, left, hurt, lock >>
           /\ \A u \in Chunked : taken'[u] = taken[u]
           /\ handler[h].pc \notin {"saving", "saved", "assembled"}
           /\ Keeps(h)
           /\ \A g \in Handlers \ {h} : /\ handler'[g].pc = handler[g].pc
                                        /\ handler'[g].upload = handler[g].upload
                                        /\ handler'[g].chunk = handler[g].chunk
                                        /\ handler'[g].torn <=> handler[g].torn
<1>1. ASSUME NEW u \in Whole, upload(h, u)
      PROVE  /\ UNCHANGED << parts, cut, received, left, hurt, lock >>
             /\ \A c \in Chunked : taken'[c] = taken[c]
             /\ handler[h].pc \notin {"saving", "saved", "assembled"}
  BY <1>1, UploadAssumption DEF upload, TypeOK, Uploads, At
<1>2. ASSUME ~ \E u \in Whole : upload(h, u)
      PROVE  /\ UNCHANGED << parts, cut, received, left, hurt, lock, taken >>
             /\ handler[h].pc \notin {"saving", "saved", "assembled"}
  BY <1>2 DEF Elsewhere, normalize_upload_payload, ReadFails, ProcessFails, OpenForWriting,
              save_json_payload, WriteFails, chunkVars, At
<1>3. /\ Keeps(h)
      /\ \E pc, u : Moves(h, pc, u)
  BY StepMoves DEF Elsewhere, Stops
<1>4. QED BY <1>1, <1>2, <1>3 DEF Moves

LEMMA DeliveryStep == ASSUME IInv, TypeOK', [Next]_vars PROVE DeliveryInv'
<1> USE UploadAssumption DEF IInv
<1>1. \A v \in Chunked, j \in Chunks :
          taken[v] \in Nat /\ received[v][j] \in Nat /\ left[v][j] \in Nat
  BY DEF TypeOK, Uploads
<1>2. ASSUME NEW h \in Handlers, NEW u \in Chunked, NEW i \in Chunks,
             _save_ios_chunk(h, u, i) \/ NotOpened(h, u, i)
      PROVE  DeliveryInv'
  <2>1. /\ taken' = taken /\ left' = left
        /\ received' = [received EXCEPT ![u][i] = @ + 1]
        /\ parts' = [parts EXCEPT ![u] = @ \cup {i}] \/ parts' = parts
    BY <1>2 DEF _save_ios_chunk, Opened, NotOpened
  <2>2. \A v \in Chunked, j \in Chunks :
            received'[v][j] = IF v = u /\ j = i THEN received[v][j] + 1 ELSE received[v][j]
    BY <2>1 DEF TypeOK
  <2>3. \A v \in Chunked, j \in Chunks : j \in parts'[v] => j \in parts[v] \/ (v = u /\ j = i)
    BY <2>1 DEF TypeOK
  <2>4. QED BY <1>1, <2>1, <2>2, <2>3 DEF DeliveryInv
<1>3. ASSUME NEW h \in Handlers, _cleanup_ios_session(h) PROVE DeliveryInv'
  <2>1. PICK u \in Chunked : u = handler[h].upload /\ Chunks \subseteq parts[u]
    BY <1>3 DEF _cleanup_ios_session, At, LockInv
  <2>2. PICK kept \in SUBSET parts[u] :
            /\ parts' = [parts EXCEPT ![u] = kept]
            /\ left' = [left EXCEPT ![u] = Counted(@, kept)]
    BY <1>3, <2>1 DEF _cleanup_ios_session
  <2>3. received' = received /\ taken' = [taken EXCEPT ![u] = @ + 1]
    BY <1>3, <2>1 DEF _cleanup_ios_session
  <2>4. \A v \in Chunked : /\ taken'[v] = IF v = u THEN taken[v] + 1 ELSE taken[v]
                           /\ parts'[v] = IF v = u THEN kept ELSE parts[v]
    BY <2>2, <2>3 DEF TypeOK, Uploads
  <2>5. \A v \in Chunked, j \in Chunks :
            left'[v][j] = IF v = u /\ j \in kept THEN left[v][j] + 1 ELSE left[v][j]
    <3>1. \A v \in Chunked : left'[v] = IF v = u THEN Counted(left[u], kept) ELSE left[v]
      BY <2>2 DEF TypeOK
    <3>2. QED BY <3>1 DEF Counted
  <2>6. ASSUME NEW v \in Chunked, NEW j \in Chunks
        PROVE  /\ taken'[v] <= received'[v][j] + left'[v][j]
               /\ j \in parts'[v] => taken'[v] < received'[v][j] + left'[v][j]
    <3>1. CASE v = u
      <4>1. taken[v] < received[v][j] + left[v][j] BY <2>1, <3>1 DEF DeliveryInv
      <4>2. QED BY <1>1, <2>3, <2>4, <2>5, <3>1, <4>1
    <3>2. CASE v # u
      <4>1. taken'[v] = taken[v] /\ left'[v][j] = left[v][j] /\ parts'[v] = parts[v]
        BY <2>4, <2>5, <3>2
      <4>2. QED BY <2>3, <4>1 DEF DeliveryInv
    <3>3. QED BY <3>1, <3>2
  <2>7. QED BY <2>6 DEF DeliveryInv
<1>4. ASSUME NEW h \in Handlers,
             Saved(h) \/ ChunkFails(h) \/ Incomplete(h) \/ _assemble_ios_chunks(h)
      PROVE  DeliveryInv'
  <2>1. UNCHANGED << parts, received, left, taken >>
    BY <1>4 DEF Saved, ChunkFails, Incomplete, _assemble_ios_chunks, chunkVars
  <2>2. QED BY <2>1 DEF DeliveryInv
<1>5. ASSUME NEW h \in Handlers, Elsewhere(h) PROVE DeliveryInv'
  BY <1>5, ElsewhereIs DEF DeliveryInv
<1>6. CASE Crash
  <2>1. UNCHANGED << received, left, taken >> BY <1>6 DEF Crash
  <2>2. QED BY <1>6, <2>1, Crashes DEF DeliveryInv
<1>7. CASE UNCHANGED vars BY <1>7 DEF vars, chunkVars, DeliveryInv
<1>8. QED BY <1>2, <1>3, <1>4, <1>5, <1>6, <1>7 DEF Next, Step, Elsewhere

\* The part of CompleteInv about one upload, whatever the others do.
Complete(u) ==
    /\ taken[u] = 0 => \A i \in Chunks : received[u][i] > 0 => i \in parts[u]
    /\ Chunks \subseteq parts[u] /\ taken[u] = 0 => lock # None /\ handler[lock].upload = u
    /\ \A i \in cut[u] : /\ lock # None /\ handler[lock].pc = "saving"
                         /\ handler[lock].upload = u /\ handler[lock].chunk = i
    /\ \A h \in Handlers : handler[h].upload = u => ~ handler[h].torn

LEMMA CompleteStep == ASSUME IInv, TypeOK', [Next]_vars PROVE CompleteInv'
<1> USE UploadAssumption DEF IInv
<1> SUFFICES ASSUME NEW v \in Chunked, v \notin hurt' PROVE Complete(v)'
  BY DEF CompleteInv, Complete
<1>1. hurt \subseteq hurt'
  <2>1. ASSUME NEW h \in Handlers, NEW u \in Chunked, NEW i \in Chunks,
               _save_ios_chunk(h, u, i) \/ NotOpened(h, u, i)
        PROVE  hurt \subseteq hurt'
    BY <2>1 DEF _save_ios_chunk, Opened, NotOpened
  <2>2. ASSUME NEW h \in Handlers, Saved(h) \/ Incomplete(h) \/ _assemble_ios_chunks(h)
                                   \/ _cleanup_ios_session(h)
        PROVE  hurt \subseteq hurt'
    BY <2>2 DEF Saved, Incomplete, _assemble_ios_chunks, _cleanup_ios_session, chunkVars
  <2>3. ASSUME NEW h \in Handlers, ChunkFails(h) PROVE hurt \subseteq hurt'
    BY <2>3 DEF ChunkFails
  <2>4. ASSUME NEW h \in Handlers, NEW u \in Whole, upload(h, u) PROVE hurt \subseteq hurt'
    BY <2>4 DEF upload
  <2>5. ASSUME NEW h \in Handlers,
               normalize_upload_payload(h) \/ ReadFails(h) \/ ProcessFails(h)
               \/ OpenForWriting(h) \/ save_json_payload(h) \/ WriteFails(h)
        PROVE  hurt \subseteq hurt'
    BY <2>5 DEF normalize_upload_payload, ReadFails, ProcessFails, OpenForWriting,
                save_json_payload, WriteFails, chunkVars
  <2>6. CASE Crash BY <2>6 DEF Crash
  <2>7. CASE UNCHANGED vars BY <2>7 DEF vars, chunkVars
  <2>8. QED BY <2>1, <2>2, <2>3, <2>4, <2>5, <2>6, <2>7 DEF Next, Step
<1>2. Complete(v) BY <1>1 DEF CompleteInv, Complete
\* A step of a thread that does not make more of a capture torn.
<1>3. ASSUME NEW h \in Handlers, Keeps(h),
             \A g \in Handlers \ {h} : /\ handler'[g].upload = handler[g].upload
                                       /\ handler'[g].torn <=> handler[g].torn
      PROVE  \A g \in Handlers : handler'[g].upload = v => ~ handler'[g].torn
  BY <1>2, <1>3 DEF Complete, Keeps
<1>4. ASSUME NEW h \in Handlers, NEW u \in Chunked, NEW i \in Chunks, _save_ios_chunk(h, u, i)
      PROVE  Complete(v)'
  <2>1. /\ taken' = taken /\ lock = None /\ lock' = h
        /\ received' = [received EXCEPT ![u][i] = @ + 1]
        /\ parts' = [parts EXCEPT ![u] = @ \cup {i}]
        /\ cut' = [cut EXCEPT ![u] = @ \cup {i}]
    BY <1>4 DEF _save_ios_chunk, Opened
  <2>2. Moves(h, "saving", u) /\ Keeps(h) /\ handler'[h].chunk = i BY <1>4, StepMoves
  <2>3. \A g \in Handlers : handler'[g].upload = v => ~ handler'[g].torn
    BY <1>3, <2>2 DEF Moves
  <2>4. cut[v] = {} BY <1>2, <2>1 DEF Complete
  <2>5. \A j \in Chunks : /\ v # u \/ j # i => received'[v][j] = received[v][j]
                          /\ j \in parts[v] \/ (v = u /\ j = i) => j \in parts'[v]
    BY <2>1 DEF TypeOK
  <2>6. v # u => parts'[v] = parts[v] BY <2>1 DEF TypeOK
  <2>7. \A j \in cut'[v] : v = u /\ j = i BY <2>1, <2>4 DEF TypeOK
  <2>8. taken'[v] = 0 => \A j \in Chunks : received'[v][j] > 0 => j \in parts'[v]
    BY <1>2, <2>1, <2>5 DEF Complete
  <2>9. Chunks \subseteq parts'[v] /\ taken'[v] = 0 => v = u
    BY <1>2, <2>1, <2>6 DEF Complete
  <2>10. lock' # None /\ handler'[lock'].pc = "saving" /\ handler'[lock'].upload = u
         /\ handler'[lock'].chunk = i
    BY <2>1, <2>2 DEF Moves, Uploads
  <2>11. QED BY <2>3, <2>7, <2>8, <2>9, <2>10 DEF Complete
<1>5. ASSUME NEW h \in Handlers, NEW u \in Chunked, NEW i \in Chunks, NotOpened(h, u, i)
      PROVE  Complete(v)'
  <2>1. /\ UNCHANGED << parts, cut, taken, lock >> /\ lock = None /\ hurt' = hurt \cup {u}
        /\ received' = [received EXCEPT ![u][i] = @ + 1]
    BY <1>5 DEF NotOpened
  <2>2. Stops(h) BY <1>5 DEF Stops
  <2>3. Moves(h, "idle", None) /\ Keeps(h) BY <2>2, StepMoves
  <2>4. \A g \in Handlers : handler'[g].upload = v => ~ handler'[g].torn
    BY <1>3, <2>3 DEF Moves
  <2>5. v # u BY <2>1
  <2>6. \A j \in Chunks : received'[v][j] = received[v][j] BY <2>1, <2>5 DEF TypeOK
  <2>7. QED BY <1>2, <2>1, <2>4, <2>6 DEF Complete
<1>6. ASSUME NEW h \in Handlers, Saved(h) PROVE Complete(v)'
  <2>1. PICK u \in Chunked : u = handler[h].upload /\ lock = h /\ handler[h].pc = "saving"
    BY <1>6 DEF Saved, At, LockInv
  <2>2. /\ UNCHANGED << parts, received, taken, lock >>
        /\ cut' = [cut EXCEPT ![u] = @ \ {handler[h].chunk}]
    BY <1>6, <2>1 DEF Saved
  <2>3. Moves(h, "saved", u) /\ Keeps(h) BY <1>6, <2>1, StepMoves
  <2>4. \A g \in Handlers : handler'[g].upload = v => ~ handler'[g].torn
    BY <1>3, <2>3 DEF Moves
  <2>5. cut[v] \subseteq {handler[h].chunk} /\ (v # u => cut[v] = {})
    BY <1>2, <2>1 DEF Complete
  <2>6. cut'[v] = {} BY <2>2, <2>5 DEF TypeOK
  <2>7. Chunks \subseteq parts'[v] /\ taken'[v] = 0 => lock' # None /\ handler'[lock'].upload = v
    BY <1>2, <2>1, <2>2, <2>3 DEF Complete, Moves
  <2>8. QED BY <1>2, <2>2, <2>4, <2>6, <2>7 DEF Complete
<1>7. ASSUME NEW h \in Handlers, ChunkFails(h) PROVE Complete(v)'
  <2>1. PICK u \in Chunked : u = handler[h].upload /\ lock = h
    BY <1>7 DEF ChunkFails, At, LockInv
  <2>2. UNCHANGED << parts, cut, received, taken >> /\ hurt' = hurt \cup {u}
    BY <1>7, <2>1 DEF ChunkFails
  <2>3. v # u BY <2>2
  <2>4. Stops(h) BY <1>7 DEF Stops
  <2>5. Moves(h, "idle", None) /\ Keeps(h) BY <2>4, StepMoves
  <2>6. \A g \in Handlers : handler'[g].upload = v => ~ handler'[g].torn
    BY <1>3, <2>5 DEF Moves
  <2>7. cut[v] = {} /\ ~ (Chunks \subseteq parts[v] /\ taken[v] = 0)
    BY <1>2, <2>1, <2>3 DEF Complete
  <2>8. QED BY <1>2, <2>2, <2>6, <2>7 DEF Complete
<1>8. ASSUME NEW h \in Handlers, Incomplete(h) PROVE Complete(v)'
  <2>1. /\ lock = h /\ handler[h].pc = "saved"
        /\ ~ (Chunks \subseteq parts[handler[h].upload])
    BY <1>8 DEF Incomplete, At, LockInv, _has_all_ios_chunks
  <2>2. UNCHANGED << parts, cut, received, taken >> BY <1>8 DEF Incomplete, chunkVars
  <2>3. Stops(h) BY <1>8 DEF Stops
  <2>4. Moves(h, "idle", None) /\ Keeps(h) BY <2>3, StepMoves
  <2>5. \A g \in Handlers : handler'[g].upload = v => ~ handler'[g].torn
    BY <1>3, <2>4 DEF Moves
  <2>6. cut[v] = {} /\ ~ (Chunks \subseteq parts[v] /\ taken[v] = 0)
    BY <1>2, <2>1 DEF Complete
  <2>7. QED BY <1>2, <2>2, <2>5, <2>6 DEF Complete
<1>9. ASSUME NEW h \in Handlers, _assemble_ios_chunks(h) PROVE Complete(v)'
  <2>1. lock = h /\ handler[h].pc = "saved" BY <1>9 DEF _assemble_ios_chunks, At, LockInv
  <2>2. UNCHANGED << parts, cut, received, taken, lock >>
    BY <1>9 DEF _assemble_ios_chunks, chunkVars
  <2>3. /\ Moves(h, "assembled", handler[h].upload)
        /\ handler'[h].torn <=> cut[handler[h].upload] # {}
    BY <1>9, StepMoves
  <2>4. cut[v] = {} BY <1>2, <2>1 DEF Complete
  <2>5. \A g \in Handlers : handler'[g].upload = v => ~ handler'[g].torn
    BY <1>2, <2>3, <2>4 DEF Moves, Complete
  <2>6. Chunks \subseteq parts'[v] /\ taken'[v] = 0 => lock' # None /\ handler'[lock'].upload = v
    BY <1>2, <2>1, <2>2, <2>3 DEF Complete, Moves
  <2>7. QED BY <1>2, <2>2, <2>4, <2>5, <2>6 DEF Complete
<1>10. ASSUME NEW h \in Handlers, _cleanup_ios_session(h) PROVE Complete(v)'
  <2>1. PICK u \in Chunked : u = handler[h].upload /\ lock = h /\ handler[h].pc = "assembled"
    BY <1>10 DEF _cleanup_ios_session, At, LockInv
  <2>2. PICK kept \in SUBSET parts[u] :
            /\ parts' = [parts EXCEPT ![u] = kept] /\ cut' = [cut EXCEPT ![u] = @ \cap kept]
    BY <1>10, <2>1 DEF _cleanup_ios_session
  <2>3. received' = received /\ taken' = [taken EXCEPT ![u] = @ + 1]
    BY <1>10, <2>1 DEF _cleanup_ios_session
  <2>4. Moves(h, "normalize", u) /\ Keeps(h) BY <1>10, <2>1, StepMoves
  <2>5. \A g \in Handlers : handler'[g].upload = v => ~ handler'[g].torn
    BY <1>3, <2>4 DEF Moves
  <2>6. cut[v] = {} BY <1>2, <2>1 DEF Complete
  <2>7. cut'[v] = {} BY <2>2, <2>6 DEF TypeOK
  <2>8. taken[u] \in Nat /\ taken'[u] = taken[u] + 1 BY <2>3 DEF TypeOK, Uploads
  <2>9. CASE v = u
    <3>1. taken'[v] # 0 BY <2>8, <2>9
    <3>2. QED BY <2>5, <2>7, <3>1 DEF Complete
  <2>10. CASE v # u
    <3>1. taken'[v] = taken[v] /\ parts'[v] = parts[v] BY <2>2, <2>3, <2>10 DEF TypeOK, Uploads
    <3>2. ~ (Chunks \subseteq parts[v] /\ taken[v] = 0) BY <1>2, <2>1, <2>10 DEF Complete
    <3>3. QED BY <1>2, <2>3, <2>5, <2>7, <3>1, <3>2 DEF Complete
  <2>11. QED BY <2>9, <2>10
<1>11. ASSUME NEW h \in Handlers, Elsewhere(h) PROVE Complete(v)'
  <2>1. UNCHANGED << parts, cut, received, lock >> /\ taken'[v] = taken[v]
    BY <1>11, ElsewhereIs
  <2>2. /\ handler[h].pc \notin {"saving", "saved", "assembled"} /\ Keeps(h)
        /\ \A g \in Handlers \ {h} : /\ handler'[g].pc = handler[g].pc
                                     /\ handler'[g].upload = handler[g].upload
                                     /\ handler'[g].chunk = handler[g].chunk
                                     /\ handler'[g].torn <=> handler[g].torn
    BY <1>11, ElsewhereIs
  <2>3. \A g \in Handlers : handler'[g].upload = v => ~ handler'[g].torn
    BY <1>3, <2>2
  <2>4. lock # None => /\ handler'[lock].pc = handler[lock].pc
                       /\ handler'[lock].upload = handler[lock].upload
                       /\ handler'[lock].chunk = handler[lock].chunk
    <3>1. lock # None => lock \in Handlers /\ handler[lock].pc \in {"saving", "saved", "assembled"}
      BY DEF TypeOK
    <3>2. QED BY <2>2, <3>1
  <2>5. QED BY <1>2, <2>1, <2>3, <2>4 DEF Complete
<1>12. CASE Crash
  <2>1. /\ UNCHANGED << received, taken >> /\ lock' = None /\ hurt' = hurt \cup InLock
        /\ handler' = [h \in Handlers |-> Idle]
    BY <1>12 DEF Crash
  <2>2. v \notin InLock BY <2>1
  <2>3. lock # None => handler[lock].upload # v
    <3>1. lock # None => lock \in Handlers /\ handler[lock].pc \in {"saving", "saved", "assembled"}
      BY DEF TypeOK
    <3>2. QED BY <2>2, <3>1, InLockIs
  <2>4. v \notin Removing BY <2>2 DEF Removing, InLock, At
  <2>5. cut[v] = {} /\ ~ (Chunks \subseteq parts[v] /\ taken[v] = 0)
    BY <1>2, <2>3 DEF Complete
  <2>6. parts'[v] = parts[v] /\ cut'[v] = {} BY <1>12, <2>4, <2>5, Crashes
  <2>7. \A h \in Handlers : ~ handler'[h].torn BY <2>1, IdleRequest
  <2>8. QED BY <1>2, <2>1, <2>5, <2>6, <2>7 DEF Complete
<1>13. CASE UNCHANGED vars BY <1>2, <1>13 DEF vars, chunkVars, Complete
<1>14. QED
  BY <1>4, <1>5, <1>6, <1>7, <1>8, <1>9, <1>10, <1>11, <1>12, <1>13 DEF Next, Step, Elsewhere

-----------------------------------------------------------------------------
(* The file. *)

\* A step that leaves the file and its threads alone.
LEMMA FileUnchanged ==
    ASSUME FileInv, RowsKept, UNCHANGED << disk, known, mixed >>,
           NEW h \in Handlers, NEW pc \in Steps \ {"merged", "writing"}, NEW u,
           Moves(h, pc, u), handler[h].pc \notin {"merged", "writing"},
           \A g \in Handlers \ {h} : handler'[g].clash = handler[g].clash
    PROVE  FileInv' /\ RowsKept'
<1>1. \A g \in Handlers : HasFile(g)' = HasFile(g) /\ At(g, "writing")' = At(g, "writing")
  BY DEF Moves, HasFile, At
<1>2. \A g \in Handlers : HasFile(g) => handler'[g].file = handler[g].file /\ handler'[g].clash = handler[g].clash
  BY DEF Moves, HasFile, At
<1>3. Writing' = Writing BY <1>1 DEF Writing
<1>4. \A f : RowsOf(f)' = RowsOf(f) BY DEF RowsOf
<1>5. \A g \in Handlers : At(g, "writing") => HasFile(g) BY DEF HasFile, At
<1>6. FileInv' BY <1>1, <1>2, <1>4, <1>5 DEF FileInv, HasFile, At
<1>7. RowsKept' BY <1>3, <1>4 DEF RowsKept
<1>8. QED BY <1>6, <1>7

LEMMA FileStep == ASSUME IInv, TypeOK', [Next]_vars PROVE FileInv' /\ RowsKept'
<1> USE UploadAssumption DEF IInv
<1>1. ASSUME NEW h \in Handlers,
             \/ \E u \in Chunked, i \in Chunks : _save_ios_chunk(h, u, i) \/ NotOpened(h, u, i)
             \/ \E u \in Whole : upload(h, u)
             \/ Saved(h) \/ ChunkFails(h) \/ Incomplete(h) \/ ReadFails(h) \/ ProcessFails(h)
             \/ _assemble_ios_chunks(h) \/ _cleanup_ios_session(h)
      PROVE  FileInv' /\ RowsKept'
  <2>1. UNCHANGED << disk, known, mixed >> /\ handler[h].pc \notin {"merged", "writing"}
    BY <1>1 DEF _save_ios_chunk, Opened, NotOpened, upload, Saved, ChunkFails, Incomplete,
                ReadFails, ProcessFails, _assemble_ios_chunks, _cleanup_ios_session, At, fileVars
  <2>2. \A g \in Handlers \ {h} : handler'[g].clash = handler[g].clash
    BY <1>1 DEF _save_ios_chunk, Opened, NotOpened, upload, Saved, ChunkFails, Incomplete,
                ReadFails, ProcessFails, _assemble_ios_chunks, _cleanup_ios_session, Goto,
                Fails, Ends, TypeOK
  <2>3. \E pc \in Steps \ {"merged", "writing"} : \E u : Moves(h, pc, u)
    BY <1>1, StepMoves DEF Stops, Steps
  <2>4. QED BY <2>1, <2>2, <2>3, FileUnchanged
<1>2. ASSUME NEW h \in Handlers, normalize_upload_payload(h) PROVE FileInv' /\ RowsKept'
  <2>1. /\ handler[h].pc = "normalize" /\ disk # Broken
        /\ mixed' = (mixed \/ Others(h) # {}) /\ UNCHANGED << disk, known >>
    BY <1>2 DEF normalize_upload_payload, At
  <2>2. handler[h].upload \in Uploads BY <2>1 DEF LockInv
  <2>3. /\ handler'[h].pc = "merged" /\ ~ handler'[h].clash
        /\ handler'[h].file = Merged(handler[h].upload, disk)
        /\ \A g \in Handlers \ {h} : handler'[g] = handler[g]
    BY <1>2, <2>2, HasRead
  <2>4. ASSUME ~ mixed' PROVE ~ mixed /\ \A g \in Handlers : HasFile(g)' => g = h
    BY <2>1, <2>3, <2>4 DEF Others, HasFile, At
  <2>5. disk \in File \cup {None} BY <2>1 DEF TypeOK
  <2>6. ASSUME ~ mixed PROVE known \subseteq RowsOf(handler'[h].file)
    <3>1. disk = None => known = {} BY <2>6 DEF RowsKept
    <3>2. disk # None => known \subseteq RowsOf(disk) BY <2>1, <2>6 DEF RowsKept
    <3>3. QED BY <2>2, <2>3, <2>5, <3>1, <3>2, MergedType
  <2>7. handler'[h].file \in File BY <2>2, <2>3, <2>5, MergedType
  <2>8. FileInv'
    <3>1. \A f : RowsOf(f)' = RowsOf(f) BY DEF RowsOf
    <3>2. At(h, "writing")' = FALSE BY <2>3 DEF At
    <3>3. \A g \in Handlers : At(g, "writing")' => HasFile(g)' BY DEF HasFile, At
    <3>4. QED BY <2>1, <2>4, <2>6, <2>7, <3>1, <3>2, <3>3 DEF FileInv
  <2>9. RowsKept'
    <3>1. \A f : RowsOf(f)' = RowsOf(f) BY DEF RowsOf
    <3>2. QED BY <2>1, <2>4, <3>1 DEF RowsKept
  <2>10. QED BY <2>8, <2>9
<1>3. ASSUME NEW h \in Handlers, OpenForWriting(h) PROVE FileInv' /\ RowsKept'
  <2>1. handler[h].pc = "merged" /\ disk' = Broken /\ UNCHANGED << known, mixed >>
    BY <1>3 DEF OpenForWriting, At
  <2>2. /\ handler'[h].pc = "writing"
        /\ handler'[h].clash = (Writing # {})
        /\ \A g \in Handlers : /\ handler'[g].file = handler[g].file
                               /\ g # h => handler'[g].pc = handler[g].pc
    BY <1>3, HasOpened
  <2>3. \A g \in Handlers : HasFile(g)' = HasFile(g) BY <2>1, <2>2 DEF HasFile, At
  <2>4. HasFile(h) BY <2>1 DEF HasFile, At
  <2>5. ASSUME ~ mixed PROVE ~ handler'[h].clash
    <3>1. \A g \in Handlers : HasFile(g) => g = h BY <2>4, <2>5 DEF FileInv
    <3>2. Writing = {} BY <2>1, <3>1 DEF Writing, At, HasFile
    <3>3. QED BY <2>2, <3>2
  <2>6. ASSUME ~ mixed, NEW g \in Handlers, At(g, "writing")' PROVE g = h
    <3>1. HasFile(g) BY <2>3, <2>6 DEF HasFile, At
    <3>2. QED BY <2>4, <2>6, <3>1 DEF FileInv
  <2>7. FileInv'
    <3>1. \A f : RowsOf(f)' = RowsOf(f) BY DEF RowsOf
    <3>2. QED BY <2>1, <2>2, <2>3, <2>5, <2>6, <3>1 DEF FileInv
  <2>8. RowsKept'
    <3>1. h \in Writing' BY <2>2 DEF Writing, At
    <3>2. QED BY <2>1, <3>1 DEF RowsKept
  <2>9. QED BY <2>7, <2>8
<1>4. ASSUME NEW h \in Handlers, save_json_payload(h) PROVE FileInv' /\ RowsKept'
  <2>1. handler[h].pc = "writing" /\ mixed' = mixed BY <1>4 DEF save_json_payload, At
  <2>2. Moves(h, "idle", None) BY <1>4, StepMoves DEF Stops
  <2>3. CASE mixed BY <2>1, <2>3 DEF FileInv, RowsKept
  <2>4. CASE ~ mixed
    <3> DEFINE f == handler[h].file
    <3>1. HasFile(h) /\ At(h, "writing") BY <2>1 DEF HasFile, At
    <3>2. f \in File /\ known \subseteq RowsOf(f) /\ ~ handler[h].clash
      BY <2>4, <3>1 DEF FileInv
    <3>3. disk' = f /\ known' = known \cup RowsOf(f)
      BY <1>4, <3>2 DEF save_json_payload
    <3>4. \A g \in Handlers : ~ HasFile(g)' /\ ~ At(g, "writing")'
      BY <2>2, <2>4, <3>1 DEF FileInv, Moves, HasFile, At
    <3>5. FileInv' BY <3>4 DEF FileInv
    <3>6. \A d : RowsOf(d)' = RowsOf(d) BY DEF RowsOf
    <3>7. RowsKept' BY <3>2, <3>3, <3>6 DEF RowsKept
    <3>8. QED BY <3>5, <3>7
  <2>5. QED BY <2>3, <2>4
<1>5. ASSUME NEW h \in Handlers, WriteFails(h) PROVE FileInv' /\ RowsKept'
  BY <1>5 DEF WriteFails, FileInv, RowsKept
<1>6. CASE Crash
  <2>1. UNCHANGED << disk, known >> /\ mixed' = (mixed \/ Writing # {}) BY <1>6 DEF Crash
  <2>2. \A h \in Handlers : ~ HasFile(h)' /\ ~ At(h, "writing")'
    BY <1>6, IdleRequest DEF Crash, HasFile, At
  <2>3. FileInv' BY <2>2 DEF FileInv
  <2>4. RowsKept'
    <3>1. ~ mixed' => ~ mixed /\ disk # Broken BY <2>1 DEF RowsKept
    <3>2. \A f : RowsOf(f)' = RowsOf(f) BY DEF RowsOf
    <3>3. QED BY <2>1, <3>1, <3>2 DEF RowsKept
  <2>5. QED BY <2>3, <2>4
<1>7. CASE UNCHANGED vars
  BY <1>7 DEF vars, fileVars, FileInv, RowsKept, HasFile, At, RowsOf, Writing
<1>8. QED BY <1>1, <1>2, <1>3, <1>4, <1>5, <1>6, <1>7 DEF Next, Step

LEMMA Invariance == Spec => []IInv
<1>1. IInv /\ [Next]_vars => IInv'
  BY TypeStep, LockStep, DeliveryStep, CompleteStep, FileStep DEF IInv
<1>2. QED BY <1>1, InitInvariant, PTL DEF Spec

-----------------------------------------------------------------------------
(* The theorems. *)

\* Every variable keeps its type.
THEOREM UploadTypes == Spec => []TypeOK
<1>1. IInv => TypeOK BY DEF IInv
<1>2. QED BY <1>1, Invariance, PTL

\* An upload in chunks is taken again only with chunks that came again or that a
\* failed removal left, and is taken, with all of each chunk, once they all came,
\* unless an error or a crash ended one of its requests in the lock
\* (ingest_api.py:40-61, 234-247).
THEOREM TakenOnce == Spec => []TakenOncePerDelivery
<1>1. ASSUME IInv PROVE TakenOncePerDelivery
  <2>1. \A u \in Chunked, i \in Chunks : taken[u] <= received[u][i] + left[u][i]
    BY <1>1 DEF IInv, DeliveryInv
  <2>2. ASSUME NEW u \in Chunked \ hurt
        PROVE  /\ lock = None /\ (\A i \in Chunks : received[u][i] > 0) => taken[u] > 0
               /\ \A h \in Handlers : handler[h].upload = u => ~ handler[h].torn
    <3>1. taken[u] \in Nat BY <1>1 DEF IInv, TypeOK, Uploads
    <3>2. ASSUME lock = None, \A i \in Chunks : received[u][i] > 0, taken[u] = 0 PROVE FALSE
      <4>1. Chunks \subseteq parts[u] BY <1>1, <3>2 DEF IInv, CompleteInv
      <4>2. QED BY <1>1, <3>2, <4>1 DEF IInv, CompleteInv
    <3>3. QED BY <1>1, <3>1, <3>2 DEF IInv, CompleteInv
  <2>3. QED BY <2>1, <2>2 DEF TakenOncePerDelivery
<1>2. QED BY <1>1, Invariance, PTL

\* Rows once in the file stay there, unless two had it at once or a write was cut
\* off (data.py:42-63, suite.py:207-262).
THEOREM RowsAreKept == Spec => []RowsKept
<1>1. IInv => RowsKept BY DEF IInv
<1>2. QED BY <1>1, Invariance, PTL
=============================================================================
