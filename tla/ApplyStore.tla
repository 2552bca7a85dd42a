------------------------------ MODULE ApplyStore ------------------------------
(***************************************************************************)
(* The threads that edit applications.json and the lock file               *)
(* .applications.lock that orders them.                                    *)
(*                                                                         *)
(*   Flask thread   (service.py)  lock file; read the half it changes;     *)
(*                                decide; read the other half; replace the *)
(*                                file; remove the lock file; notify.      *)
(*   gateway thread (notify.go)   read without lock; ask the group; lock   *)
(*                                file; read again; decide again; replace. *)
(*   gateway worker (command.go)  read without lock to resolve the index;  *)
(*                                then as above.                           *)
(*                                                                         *)
(* Readers see the old file or the new one (os.replace / os.Rename), so a  *)
(* read or a write of the file is one step; everything between two of      *)
(* them interleaves.  A program may crash between any two steps; the lock  *)
(* file survives it.                                                       *)
(***************************************************************************)
EXTENDS ApplyDocument

CONSTANTS PyThreads,    \* request threads of the Flask backend
          GoThreads,    \* HTTP handler goroutines and the command worker
          Kinds,        \* the kinds of request the environment makes
          MaxRequests,  \* bound: requests accepted in a behaviour
          MaxCrashes    \* bound: crashes of either program

Threads == PyThreads \cup GoThreads

ASSUME StoreAssumption == /\ PyThreads \cap GoThreads = {}
                          /\ MaxRequests \in Nat
                          /\ MaxCrashes \in Nat

VARIABLES doc,       \* the file applications.json
          lock,      \* TRUE iff the lock file exists
          pc,        \* pc[t]: where thread t is
          req,       \* req[t]: the request it serves
          buf,       \* buf[t]: the document it read and edits in memory
          notices,   \* ids of POST /apply/notify calls under way
          whitelist, \* applicants the gateway lets in (Whitelist.applicants)
          issued,    \* requests accepted so far (bounded by MaxRequests)
          crashes    \* crashes so far (bounded by MaxCrashes)

vars == << doc, lock, pc, req, buf, notices, whitelist, issued, crashes >>

\* Control points at which a thread has created the lock file and not removed it.
\* "written" and "release" differ in whether the file was replaced.
Critical == {"load", "merge", "write", "written", "release"}

NoRequest == [op |-> "none"]

TypeOK ==
    /\ IsDocument(doc)
    /\ lock \in BOOLEAN
    /\ pc \in [Threads -> Critical \cup {"idle", "ask", "acquire", "notify"}]
    /\ req \in [Threads -> Request \cup {NoRequest}]
    /\ buf = [t \in Threads |-> buf[t]]
    /\ \A t \in Threads : IsDocument(buf[t])
    /\ notices \in SUBSET AppIds
    /\ whitelist \in SUBSET Applicants
    /\ issued \in Nat
    /\ crashes \in Nat

Init ==
    /\ doc \in FreshDocuments
    /\ lock = FALSE
    /\ pc = [t \in Threads |-> "idle"]
    /\ req = [t \in Threads |-> NoRequest]
    /\ buf = [t \in Threads |-> EmptyDocument]
    /\ notices = {}
    /\ whitelist = {}
    /\ issued = 0
    /\ crashes = 0

-----------------------------------------------------------------------------
(* Requests arrive. *)

Goto(t, to) == pc' = [pc EXCEPT ![t] = to]

\* The thread is done with its request.
Finish(t) == /\ Goto(t, "idle")
             /\ req' = [req EXCEPT ![t] = NoRequest]
             /\ buf' = [buf EXCEPT ![t] = EmptyDocument]

Accept(t, r, to) ==
    /\ pc[t] = "idle"
    /\ issued < MaxRequests
    /\ issued' = issued + 1
    /\ req' = [req EXCEPT ![t] = r]
    /\ Goto(t, to)

\* A web request.  /api/apply first asks, without the lock, whether the
\* address is blocked, and is answered 403 if it is and 500 if the list is null;
\* the others go straight to the service function.
\* Drawing an id that is in use is left out (secrets.token_hex).
Submit(t) ==
    \E r \in PyRequest :
        /\ r.op \in Kinds
        /\ r.op = "create" => /\ NotBlocked(doc, r.ip)
                              /\ r.id \notin Ids(doc)
                              /\ \A u \in Threads \ {t} :
                                    req[u].op = "create" => req[u].id # r.id
        /\ Accept(t, r, "acquire")
        /\ UNCHANGED << doc, lock, buf, notices, whitelist, crashes >>

\* A notification arrives twice: the endpoint is open to any local caller.
RepeatNotice(id) ==
    /\ "repeat" \in Kinds
    /\ issued < MaxRequests
    /\ issued' = issued + 1
    /\ id \in Ids(doc)
    /\ notices' = notices \cup {id}
    /\ UNCHANGED << doc, lock, pc, req, buf, whitelist, crashes >>

\* HandleNotify, up to verifyGroup: a first look at the file, no lock held.
HandleNotify(t, id) ==
    /\ pc[t] = "idle"
    /\ id \in notices
    /\ notices' = notices \ {id}
    /\ \/ /\ AwaitingVerification(doc, id)
          /\ Goto(t, "ask")
          /\ req' = [req EXCEPT ![t] =
                        [op |-> "verify", id |-> id, outcome |-> "exists"]]
       \/ /\ ~ AwaitingVerification(doc, id)
          /\ UNCHANGED << pc, req >>
    /\ UNCHANGED << doc, lock, buf, whitelist, issued, crashes >>

\* verifyGroup returns: the group exists, cannot be verified (time-out,
\* private), or does not exist.
verifyGroup(t) ==
    /\ pc[t] = "ask"
    /\ \E outcome \in Verifications \ {"none"} :
           req' = [req EXCEPT ![t].outcome = outcome]
    /\ Goto(t, "acquire")
    /\ UNCHANGED << doc, lock, buf, notices, whitelist, issued, crashes >>

\* /审核通过 or /审核拒绝 with the row n of the pending list as it is now
\* (resolveAppID), or with an id of the file.
HandleByIndex(t, n, to) ==
    /\ "bot" \in Kinds
    /\ \E id \in VisiblePending(doc) :
          /\ filterPendingRows(doc)[id] = n
          /\ Accept(t, [op |-> "bot", id |-> id, to |-> to], "acquire")
    /\ UNCHANGED << doc, lock, buf, notices, whitelist, crashes >>

HandleById(t, id, to) ==
    /\ "bot" \in Kinds
    /\ id \in Ids(doc)
    /\ Accept(t, [op |-> "bot", id |-> id, to |-> to], "acquire")
    /\ UNCHANGED << doc, lock, buf, notices, whitelist, crashes >>

-----------------------------------------------------------------------------
(* The critical section. *)

\* O_CREAT|O_EXCL succeeds.
AcquireFsLock(t) ==
    /\ pc[t] = "acquire"
    /\ ~ lock
    /\ lock' = TRUE
    /\ Goto(t, "load")
    /\ UNCHANGED << doc, req, buf, notices, whitelist, issued, crashes >>

\* Mutant: the answer of _acquire_fs_lock is not looked at.
AcquireFailureIgnored(t) ==
    /\ pc[t] = "acquire"
    /\ lock
    /\ Goto(t, "load")
    /\ UNCHANGED << doc, lock, req, buf, notices, whitelist, issued, crashes >>


\* The file existed at every attempt of five seconds, or could not be created for
\* another reason: the request is refused.
AcquireFails(t) ==
    /\ pc[t] = "acquire"
    /\ Finish(t)
    /\ UNCHANGED << doc, lock, notices, whitelist, issued, crashes >>

\* The read under the lock, and the decision.  The gateway and the backend's
\* record operations now hold what they will write; the backend's other half
\* (meta, or the records) is read by _write_all or _write_meta: "merge".
Load(t) ==
    /\ pc[t] = "load"
    /\ \/ /\ Allowed(doc, req[t])
          /\ buf' = [buf EXCEPT ![t] = Effect(doc, req[t])]
          /\ Goto(t, IF t \in PyThreads THEN "merge" ELSE "write")
       \/ /\ ~ Allowed(doc, req[t])
          /\ Goto(t, "release")
          /\ UNCHANGED buf
    /\ UNCHANGED << doc, lock, req, notices, whitelist, issued, crashes >>

\* _write_all re-reads meta, _write_meta re-reads the records.
Merge(t) ==
    /\ pc[t] = "merge"
    /\ buf' = [buf EXCEPT ![t] =
                  IF req[t].op \in {"block", "unblock"}
                  THEN [@ EXCEPT !.apps = doc.apps, !.order = doc.order]
                  ELSE WithMeta(@, doc.fakes, doc.blacklist, doc.form)]
    /\ Goto(t, "write")
    /\ UNCHANGED << doc, lock, req, notices, whitelist, issued, crashes >>

\* os.replace / os.Rename, or an I/O error before it; either way the lock
\* file is removed next.
Write(t) ==
    /\ pc[t] = "write"
    /\ doc' = buf[t]
    /\ Goto(t, "written")
    /\ UNCHANGED << lock, req, buf, notices, whitelist, issued, crashes >>

WriteFails(t) ==
    /\ pc[t] = "write"
    /\ Goto(t, "release")
    /\ UNCHANGED << doc, lock, req, buf, notices, whitelist, issued, crashes >>

\* The deferred / finally release.  A successful submission then notifies.
ReleaseFsLock(t) ==
    /\ pc[t] \in {"written", "release"}
    /\ lock' = FALSE
    /\ IF pc[t] = "written" /\ req[t].op = "create"
       THEN Goto(t, "notify") /\ UNCHANGED << req, buf >>
       ELSE Finish(t)
    /\ UNCHANGED << doc, notices, whitelist, issued, crashes >>

\* _notify_onebot: delivered, or not delivered and the error swallowed.
NotifyOnebot(t) ==
    /\ pc[t] = "notify"
    /\ notices' \in {notices, notices \cup {req[t].id}}
    /\ Finish(t)
    /\ UNCHANGED << doc, lock, whitelist, issued, crashes >>

-----------------------------------------------------------------------------
(* The gateway's cache of approved applicants, crashes, the operator. *)

\* Mutant: the refresh adds to the set and never replaces it.
RefreshWhitelistAdds ==
    /\ whitelist' = whitelist \cup ApprovedApplicants(doc)
    /\ UNCHANGED << doc, lock, pc, req, buf, notices, issued, crashes >>

\* Whitelist.refresh; it keeps the old set while the file has no records.
RefreshWhitelist ==
    /\ whitelist' = IF Ids(doc) = {} THEN whitelist ELSE ApprovedApplicants(doc)
    /\ UNCHANGED << doc, lock, pc, req, buf, notices, issued, crashes >>

\* A program dies and is started again; its threads and, for the gateway, the
\* calls under way to it are gone; the files stay.  NewWhitelist reads the file when the gateway starts.
Crash(program) ==
    /\ crashes < MaxCrashes
    /\ crashes' = crashes + 1
    /\ pc' = [t \in Threads |-> IF t \in program THEN "idle" ELSE pc[t]]
    /\ req' = [t \in Threads |-> IF t \in program THEN NoRequest ELSE req[t]]
    /\ buf' = [t \in Threads |-> IF t \in program THEN EmptyDocument ELSE buf[t]]
    /\ IF program = GoThreads
       THEN notices' = {} /\ whitelist' = ApprovedApplicants(doc)
       ELSE UNCHANGED << notices, whitelist >>
    /\ UNCHANGED << doc, lock, issued >>

\* Somebody deletes a lock file that no running thread owns.
OperatorUnlock ==
    /\ lock
    /\ \A t \in Threads : pc[t] \notin Critical
    /\ lock' = FALSE
    /\ UNCHANGED << doc, pc, req, buf, notices, whitelist, issued, crashes >>

-----------------------------------------------------------------------------

\* What a thread does by itself once it has a request.
ThreadStep(t) ==
    \/ verifyGroup(t)
    \/ AcquireFsLock(t)
    \/ AcquireFails(t)
    \/ Load(t)
    \/ Merge(t)
    \/ Write(t)
    \/ WriteFails(t)
    \/ ReleaseFsLock(t)
    \/ NotifyOnebot(t)

Next ==
    \/ \E t \in Threads : ThreadStep(t)
    \/ \E t \in PyThreads : Submit(t)
    \/ \E id \in AppIds : RepeatNotice(id)
    \/ \E t \in GoThreads, id \in AppIds : HandleNotify(t, id)
    \/ \E t \in GoThreads, n \in 1..Cardinality(AppIds), to \in {"approved", "rejected"} :
           HandleByIndex(t, n, to)
    \/ \E t \in GoThreads, id \in AppIds, to \in {"approved", "rejected"} :
           HandleById(t, id, to)
    \/ RefreshWhitelist
    \/ \E program \in {PyThreads, GoThreads} : Crash(program)
    \/ OperatorUnlock

Spec == Init /\ [][Next]_vars

\* Threads run, and the ticker of the whitelist fires.  Nothing is assumed of
\* the users, of crashes or of the operator.
FairSpec == /\ Spec
            /\ \A t \in Threads : WF_vars(ThreadStep(t))
            /\ WF_vars(RefreshWhitelist)
-----------------------------------------------------------------------------
(* Properties. *)

\* The lock file keeps its promise across both programs, their crashes and
\* the operator who cleans up after one: acquireFsLock in notify.go and
\* _acquire_fs_lock in service.py never let two threads in.
MutualExclusion ==
    \A t, u \in Threads : pc[t] \in Critical /\ pc[u] \in Critical => t = u

\* Whoever has created the lock file finds it there.
LockHeld == \A t \in Threads : pc[t] \in Critical => lock

\* Each program serves its own requests.
Serving ==
    \A t \in Threads :
        /\ pc[t] # "idle" => req[t] \in IF t \in PyThreads THEN PyRequest ELSE GoRequest
        /\ pc[t] = "ask" => req[t].op = "verify"
        /\ pc[t] = "merge" => t \in PyThreads
        /\ pc[t] = "notify" => req[t].op = "create"

\* What a thread is about to write is its request applied to the file as it
\* is now, not as it was when the thread read it: the reason no update is
\* lost, through the backend's two separate reads (_read_all, then _read_meta
\* in _write_all) and the gateway's three-second call before the write.
CopyIsCurrent ==
    \A t \in Threads :
        pc[t] \in {"merge", "write"} =>
            Allowed(doc, req[t]) /\ buf[t] = Effect(doc, req[t])

\* The inductive invariant of the proofs.
IInv == TypeOK /\ LockHeld /\ MutualExclusion /\ Serving /\ CopyIsCurrent

\* "Lock, re-read, apply, write (prevents lost updates against Python
\* process)", notify.go:129 and command.go:73: every replacement of the file
\* is one accepted request applied to the file as it was just before, however
\* the reads, decisions and writes of the two programs interleave.
Registry == INSTANCE ApplyRegistry
NoLostUpdate == Registry!Spec

\* An address is charged exactly once for each of its applications whose
\* group does not exist (IPFakeCounts, notify.go:192-214), with notifications
\* repeated, applications reopened and deleted, and verdicts arriving late.
FakeCountExact ==
    \A ip \in IPs : doc.fakes[ip] = Cardinality(FakeApplications(doc, ip))

\* A decision is final until it is reopened: no step, of a web administrator,
\* a bot command or an automatic rejection racing with them, turns approved
\* into rejected or back (service.py:205-210, command.go:111,125, notify.go:161).
DecisionsAreFinal ==
    [][\A id \in Ids(doc) :
          doc.apps[id].status # "pending"
              => doc'.apps[id].status \in {doc.apps[id].status, "pending"}]_doc

\* A group has a second pending application on the review list only because a decided one
\* was reopened: submissions that race, a deletion, a bot command or an automatic rejection
\* do not lead there.  Reopening does not look at the others (service.py:206-208), while a
\* submission does (service.py:143).
SecondOnlyByReopening ==
    [][\A i, j \in VisiblePending(doc') :
          i # j /\ doc'.apps[i].group = doc'.apps[j].group =>
              \/ {i, j} \subseteq VisiblePending(doc)
              \/ \E k \in {i, j} \cap Ids(doc) : doc.apps[k].status # "pending"]_doc


\* Once the file stops changing, the set of applicants the gateway lets in is
\* the set of approved, undeleted ones: a revocation or a deletion takes
\* effect too (whitelist.go:55-92).
WhitelistConverges == <>[](whitelist = ApprovedApplicants(doc))

=============================================================================
