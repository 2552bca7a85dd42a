----------------------------- MODULE UploadBackend -----------------------------
(***************************************************************************)
(* The upload backend of Nenebot_tools (sekai/ingest_api.py): captures of  *)
(* game data become one file per user and data type.                       *)
(*                                                                         *)
(*   devices    send a capture in chunks, each a request of its own that   *)
(*              may come late, twice or never (ios_upload), or as a whole  *)
(*              (proxy_upload, upload);                                    *)
(*   handlers   threads of the web server.  Chunks are collected in a      *)
(*              directory per upload under _IOS_UPLOAD_LOCK; the thread    *)
(*              that brings the last one takes the whole.  It is then      *)
(*              merged with the file and written, without any lock.        *)
(*                                                                         *)
(* That a chunk is there is told by its file alone, which is there from    *)
(* the moment it is opened: a write that fails, or is cut off by a crash,  *)
(* leaves a file that counts.  The removal of the directory ignores errors *)
(* and may leave files that count for the next capture.                    *)
(*                                                                         *)
(* All uploads here are for the file of one user.  A capture of a suite    *)
(* has some rows of the incremental lists (userEvents, userWorldBlooms);   *)
(* everything else of it is called base.  Decryption and the form of the   *)
(* data are left out; one that fails is a handler that fails.              *)
(***************************************************************************)
EXTENDS Integers, FiniteSets

CONSTANTS Handlers,       \* threads of the web server
          Chunked,        \* uploads sent in chunks
          Whole,          \* uploads sent as a whole
          Total,          \* number of chunks of an upload
          Keys,           \* keys of rows of the incremental lists
          Rows,           \* Rows[u]: the keys of the rows upload u has
          None,
          Broken,         \* a file that is not JSON: cut off, or two at once
          MaxDeliveries,  \* bound: how often a chunk arrives
          MaxFailures,    \* bound: handlers that fail
          MaxCrashes      \* bound: crashes of the server

Uploads == Chunked \cup Whole
Chunks  == 0..Total - 1

\* What a file of a user holds: its base, and from which upload each row is.
File == [base : Uploads, rows : [Keys -> Uploads \cup {None}]]

ASSUME UploadAssumption == /\ Chunked \cap Whole = {} /\ None \notin Uploads \cup Handlers
                           /\ None # Broken /\ {None, Broken} \cap File = {}
                           /\ Total \in Nat \ {0}
                           /\ Rows \in [Uploads -> SUBSET Keys]
                           /\ {MaxDeliveries, MaxFailures, MaxCrashes} \subseteq Nat

VARIABLES parts,     \* parts[u]: the chunks with a file in the directory of the upload
          cut,       \* cut[u]: those whose file is not, or not yet, all of the chunk
          lock,      \* the handler that has _IOS_UPLOAD_LOCK
          handler,   \* handler[h]: the request it works on
          disk,      \* the file of the user
          received,  \* received[u][i]: how often chunk i came
          left,      \* left[u][i]: how often a removal left its file
          taken,     \* taken[u]: how often the upload was taken as complete
          hurt,      \* uploads one of whose requests ended in the lock, by an error or a crash
          known,     \* keys of all rows that were ever in the file
          mixed,     \* two handlers had the file at once, or a crash or error cut it off
          failures, crashes

chunkVars == << parts, cut, received, left, taken, hurt >>
fileVars  == << disk, known, mixed >>
vars == << chunkVars, fileVars, lock, handler, failures, crashes >>

Steps == {"idle", "saving", "saved", "assembled", "normalize", "merged", "writing"}

\* What a thread works on: the chunk that came, whether one of the capture was cut
\* off (torn), the file to write, and whether another writes it too (clash).
Request == [pc : Steps, upload : Uploads \cup {None}, chunk : Chunks, torn : BOOLEAN,
            file : File \cup {None}, clash : BOOLEAN]
Working(pc, u, i, f) ==
    [pc |-> pc, upload |-> u, chunk |-> i, torn |-> FALSE, file |-> f, clash |-> FALSE]
Idle == Working("idle", None, 0, None)

\* Between reading the file and having written it.
HasFile(h) == handler[h].pc \in {"merged", "writing"}

TypeOK ==
    /\ parts \in [Chunked -> SUBSET Chunks] /\ cut \in [Chunked -> SUBSET Chunks]
    /\ lock \in Handlers \cup {None}
    /\ handler \in [Handlers -> Request]
    /\ lock # None => handler[lock].pc \in {"saving", "saved", "assembled"}
    /\ disk \in File \cup {None, Broken}
    /\ received \in [Chunked -> [Chunks -> 0..MaxDeliveries]]
    /\ left \in [Chunked -> [Chunks -> Nat]]
    /\ taken \in [Uploads -> Nat]
    /\ hurt \subseteq Chunked
    /\ known \subseteq Keys /\ mixed \in BOOLEAN
    /\ failures \in 0..MaxFailures /\ crashes \in 0..MaxCrashes

Init ==
    /\ parts = [u \in Chunked |-> {}] /\ cut = [u \in Chunked |-> {}]
    /\ lock = None
    /\ handler = [h \in Handlers |-> Idle]
    /\ disk = None
    /\ received = [u \in Chunked |-> [i \in Chunks |-> 0]]
    /\ left = [u \in Chunked |-> [i \in Chunks |-> 0]]
    /\ taken = [u \in Uploads |-> 0] /\ hurt = {}
    /\ known = {} /\ mixed = FALSE
    /\ failures = 0 /\ crashes = 0

At(h, pc) == handler[h].pc = pc
Goto(h, pc) == handler' = [handler EXCEPT ![h].pc = pc]
Ends(h) == handler' = [handler EXCEPT ![h] = Idle]

\* The request of h ends with an error; failures are bounded.
Fails(h) ==
    /\ failures < MaxFailures
    /\ failures' = failures + 1
    /\ Ends(h)
    /\ UNCHANGED crashes

-----------------------------------------------------------------------------
(* Collecting the chunks. *)

\* Chunk i of u comes, and its file is opened for writing.
Opened(h, u, i) ==
    /\ At(h, "idle")
    /\ received[u][i] < MaxDeliveries
    /\ received' = [received EXCEPT ![u][i] = @ + 1]
    /\ parts' = [parts EXCEPT ![u] = @ \cup {i}]
    /\ cut' = [cut EXCEPT ![u] = @ \cup {i}]
    /\ handler' = [handler EXCEPT ![h] = Working("saving", u, i, None)]
    /\ UNCHANGED << left, taken, hurt, fileVars, failures, crashes >>

\* Mutant: the lock covers the assembly only.
SaveUnlocked(h, u, i) == Opened(h, u, i) /\ UNCHANGED lock

\* A chunk comes and, once the lock is free, its file is opened, which cuts off what
\* it held.
_save_ios_chunk(h, u, i) ==
    /\ lock = None /\ lock' = h
    /\ Opened(h, u, i)

\* The directory or the file cannot be made: the request ends, and with it the lock.
NotOpened(h, u, i) ==
    /\ At(h, "idle")
    /\ lock = None
    /\ received[u][i] < MaxDeliveries
    /\ received' = [received EXCEPT ![u][i] = @ + 1]
    /\ hurt' = hurt \cup {u}
    /\ Fails(h)
    /\ UNCHANGED << parts, cut, left, taken, fileVars, lock >>

\* All of the chunk is in its file.
Saved(h) ==
    /\ At(h, "saving")
    /\ cut' = [cut EXCEPT ![handler[h].upload] = @ \ {handler[h].chunk}]
    /\ Goto(h, "saved")
    /\ UNCHANGED << parts, received, left, taken, hurt, fileVars, lock, failures, crashes >>

_has_all_ios_chunks(u) == Chunks \subseteq parts[u]

\* The disk is full, and the file stays as it is; or, with all chunks there, one
\* cannot be read.
ChunkFails(h) ==
    /\ At(h, "saving") \/ (At(h, "saved") /\ _has_all_ios_chunks(handler[h].upload))
    /\ hurt' = hurt \cup {handler[h].upload}
    /\ lock' = None
    /\ Fails(h)
    /\ UNCHANGED << parts, cut, received, left, taken, fileVars >>

\* Mutant: the early return leaves the lock taken.
IncompleteLocked(h) ==
    /\ At(h, "saved")
    /\ ~ _has_all_ios_chunks(handler[h].upload)
    /\ Ends(h)
    /\ UNCHANGED << chunkVars, fileVars, lock, failures, crashes >>

\* The upload is not complete: the request ends.
Incomplete(h) ==
    /\ At(h, "saved")
    /\ ~ _has_all_ios_chunks(handler[h].upload)
    /\ Ends(h)
    /\ lock' = None
    /\ UNCHANGED << chunkVars, fileVars, failures, crashes >>

\* What is in the files is read, all of each chunk or not.
_assemble_ios_chunks(h) ==
    /\ At(h, "saved")
    /\ _has_all_ios_chunks(handler[h].upload)
    /\ handler' = [handler EXCEPT ![h] = [@ EXCEPT !.pc = "assembled",
                                                   !.torn = cut[handler[h].upload] # {}]]
    /\ UNCHANGED << chunkVars, fileVars, lock, failures, crashes >>

Counted(n, S) == [i \in Chunks |-> IF i \in S THEN n[i] + 1 ELSE n[i]]

\* The directory is removed, but for files whose removal fails, and the lock released.
_cleanup_ios_session(h) ==
    /\ At(h, "assembled")
    /\ LET u == handler[h].upload
       IN /\ \E kept \in SUBSET parts[u] :
                /\ kept # {} => failures < MaxFailures
                /\ failures' = IF kept = {} THEN failures ELSE failures + 1
                /\ parts' = [parts EXCEPT ![u] = kept]
                /\ cut' = [cut EXCEPT ![u] = @ \cap kept]
                /\ left' = [left EXCEPT ![u] = Counted(@, kept)]
          /\ taken' = [taken EXCEPT ![u] = @ + 1]
    /\ lock' = None
    /\ Goto(h, "normalize")
    /\ UNCHANGED << received, hurt, fileVars, crashes >>

\* An upload as a whole.
upload(h, u) ==
    /\ At(h, "idle")
    /\ taken[u] < MaxDeliveries
    /\ taken' = [taken EXCEPT ![u] = @ + 1]
    /\ handler' = [handler EXCEPT ![h] = Working("normalize", u, 0, None)]
    /\ UNCHANGED << parts, cut, received, left, hurt, fileVars, lock, failures, crashes >>

-----------------------------------------------------------------------------
(* The file of the user. *)

\* Mutant: rows that the new data lacks are dropped.
Replaced(u, old) ==
    [base |-> u, rows |-> [k \in Keys |-> IF k \in Rows[u] THEN u ELSE None]]

\* merge_suite_incremental_fields: rows of the new data replace those with the same
\* key, all others stay.  Without a file there is nothing to merge.
Merged(u, old) ==
    [base |-> u, rows |-> [k \in Keys |-> IF k \in Rows[u] THEN u
                                          ELSE IF old = None THEN None ELSE old.rows[k]]]

Writing   == {h \in Handlers : At(h, "writing")}
Others(h) == {g \in Handlers \ {h} : HasFile(g)}

\* The file is read; others that have it will write over each other.
normalize_upload_payload(h) ==
    /\ At(h, "normalize")
    /\ disk # Broken /\ ~ handler[h].torn
    /\ LET u == handler[h].upload
       IN handler' = [handler EXCEPT ![h] = Working("merged", u, 0, Merged(u, disk))]
    /\ mixed' = (mixed \/ Others(h) # {})
    /\ UNCHANGED << chunkVars, disk, known, lock, failures, crashes >>

\* A capture with a chunk cut off cannot be decrypted, a file that is not JSON not
\* be read: the request fails and the file stays as it is.
ReadFails(h) ==
    /\ At(h, "normalize")
    /\ disk = Broken \/ handler[h].torn
    /\ Ends(h)
    /\ UNCHANGED << chunkVars, fileVars, lock, failures, crashes >>

\* The data cannot be decrypted, or not be merged, for another reason.
ProcessFails(h) ==
    /\ At(h, "normalize")
    /\ Fails(h)
    /\ UNCHANGED << chunkVars, fileVars, lock >>

\* The file is opened for writing, which cuts it off.
OpenForWriting(h) ==
    /\ At(h, "merged")
    /\ handler' = [g \in Handlers |->
            IF g = h THEN [handler[h] EXCEPT !.pc = "writing", !.clash = Writing # {}]
            ELSE IF g \in Writing THEN [handler[g] EXCEPT !.clash = TRUE] ELSE handler[g]]
    /\ disk' = Broken
    /\ UNCHANGED << chunkVars, known, mixed, lock, failures, crashes >>

RowsOf(f) == {k \in Keys : f.rows[k] # None}

\* What two wrote at once may be the one's, the other's, or no JSON.
save_json_payload(h) ==
    /\ At(h, "writing")
    /\ \E f \in {handler[h].file} \cup (IF handler[h].clash THEN {Broken} ELSE {}) :
           /\ disk' = f
           /\ known' = IF f = Broken THEN known ELSE known \cup RowsOf(f)
    /\ Ends(h)
    /\ UNCHANGED << chunkVars, mixed, lock, failures, crashes >>

\* The disk is full.
WriteFails(h) ==
    /\ At(h, "writing")
    /\ Fails(h)
    /\ disk' = Broken /\ mixed' = TRUE
    /\ UNCHANGED << chunkVars, known, lock >>

\* Uploads with a request in the lock, and those whose directory is being removed.
InLock   == {handler[h].upload : h \in {g \in Handlers : handler[g].pc \in {"saving", "saved", "assembled"}}}
Removing == {handler[h].upload : h \in {g \in Handlers : At(g, "assembled")}}

\* The server dies and is started again: the files stay as they are, some gone where
\* a directory was being removed.
Crash ==
    /\ crashes < MaxCrashes
    /\ crashes' = crashes + 1
    /\ handler' = [h \in Handlers |-> Idle]
    /\ lock' = None
    /\ hurt' = hurt \cup InLock
    /\ \E gone \in SUBSET Chunks :
           /\ parts' = [u \in Chunked |-> IF u \in Removing THEN parts[u] \ gone ELSE parts[u]]
           /\ cut' = [u \in Chunked |-> IF u \in Removing THEN cut[u] \ gone ELSE cut[u]]
    /\ mixed' = (mixed \/ Writing # {})
    /\ UNCHANGED << received, left, taken, disk, known, failures >>

-----------------------------------------------------------------------------

Step(h) ==
    \/ \E u \in Chunked, i \in Chunks : _save_ios_chunk(h, u, i) \/ NotOpened(h, u, i)
    \/ Saved(h) \/ ChunkFails(h)
    \/ Incomplete(h) \/ _assemble_ios_chunks(h) \/ _cleanup_ios_session(h)
    \/ \E u \in Whole : upload(h, u)
    \/ normalize_upload_payload(h) \/ ReadFails(h) \/ ProcessFails(h)
    \/ OpenForWriting(h) \/ save_json_payload(h) \/ WriteFails(h)

Next == Crash \/ \E h \in Handlers : Step(h)

Spec == Init /\ [][Next]_vars

-----------------------------------------------------------------------------
(* Properties. *)

\* Whatever order chunks come in and however often, an upload is taken again only with
\* chunks that came again or that a failed removal left; it is taken once they all
\* came, and with all of each chunk, unless an error or a crash ended one of its
\* requests in the lock: no thread reads what another still writes, and none leaves
\* a complete upload behind (ingest_api.py:40-61, 234-247).
TakenOncePerDelivery ==
    \A u \in Chunked :
        /\ \A i \in Chunks : taken[u] <= received[u][i] + left[u][i]
        /\ u \notin hurt =>
              /\ lock = None /\ (\A i \in Chunks : received[u][i] > 0) => taken[u] > 0
              /\ \A h \in Handlers : handler[h].upload = u => ~ handler[h].torn

\* A row that was in the file once is there for good, and the file can be read but
\* while it is written: an error, a failed upload or a crash between two steps does
\* not harm it, unless the write itself is cut off or handlers of two uploads of
\* the user had the file at once (data.py:42-63, suite.py:207-262).
RowsKept ==
    ~ mixed =>
        /\ disk = Broken => Writing # {}
        /\ disk = None => known = {}
        /\ disk \notin {None, Broken} => known \subseteq RowsOf(disk)
=============================================================================
