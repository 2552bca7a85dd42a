--------------------------- MODULE ApplyStoreProofs ---------------------------
(***************************************************************************)
(* Theorems about ApplyStore for every set of ids, groups, addresses and   *)
(* threads and every bound.                                                *)
(***************************************************************************)
EXTENDS ApplyStore, FiniteSetTheorems, SequenceTheorems, TLAPS

-----------------------------------------------------------------------------
(* Lemmas about the document. *)

\* The empty file of a fresh installation is a document.
LEMMA EmptyDocumentType == IsDocument(EmptyDocument)
<1>1. EmptyDocument = [apps |-> EmptyDocument.apps, order |-> EmptyDocument.order,
                       fakes |-> EmptyDocument.fakes, blacklist |-> EmptyDocument.blacklist,
                       form |-> EmptyDocument.form]
  BY DEF EmptyDocument
<1>2. QED BY <1>1 DEF EmptyDocument, IsDocument, Ids, Forms

\* So is the file before its first record, with or without a list of addresses.
LEMMA FreshDocumentType ==
    ASSUME NEW d \in FreshDocuments
    PROVE  /\ IsDocument(d) /\ Ids(d) = {} /\ d.order = << >>
           /\ \A ip \in IPs : d.fakes[ip] = 0
<1>1. EmptyDocument = [apps |-> [id \in {} |-> {}], order |-> << >>,
                       fakes |-> [ip \in IPs |-> 0], blacklist |-> {}, form |-> "missing"]
  BY DEF EmptyDocument
<1>2. [EmptyDocument EXCEPT !.form = "list"]
        = [apps |-> [id \in {} |-> {}], order |-> << >>,
           fakes |-> [ip \in IPs |-> 0], blacklist |-> {}, form |-> "list"]
  <2> DEFINE a == [id \in {} |-> {}]
             o == << >>
             f == [ip \in IPs |-> 0]
             b == {}
  <2>1. EmptyDocument = [apps |-> a, order |-> o, fakes |-> f, blacklist |-> b,
                         form |-> "missing"]
    BY <1>1
  <2> HIDE DEF a, o, f, b
  <2>2. [EmptyDocument EXCEPT !.form = "list"]
          = [apps |-> a, order |-> o, fakes |-> f, blacklist |-> b, form |-> "list"]
    BY ONLY <2>1
  <2>3. QED BY <2>2 DEF a, o, f, b
<1>3. CASE d = EmptyDocument
  <2>1. d.apps = [id \in {} |-> {}] /\ d.order = << >> /\ d.fakes = [ip \in IPs |-> 0]
    BY <1>1, <1>3
  <2>2. QED BY <1>3, <2>1, EmptyDocumentType DEF Ids
<1>4. CASE d = [EmptyDocument EXCEPT !.form = "list"]
  <2>1. d = [apps |-> d.apps, order |-> d.order, fakes |-> d.fakes,
             blacklist |-> d.blacklist, form |-> d.form]
    BY <1>2, <1>4
  <2>2. /\ d.apps = [id \in {} |-> {}] /\ d.order = << >> /\ d.fakes = [ip \in IPs |-> 0]
        /\ d.blacklist = {} /\ d.form = "list"
    BY <1>2, <1>4
  <2>3. QED BY <2>1, <2>2 DEF IsDocument, Ids, Forms
<1>5. QED BY <1>3, <1>4 DEF FreshDocuments

\* Each kind of request is told by its op.
LEMMA RequestKinds ==
    ASSUME NEW r \in Request
    PROVE  /\ r.op = "create" => r \in CreateRequest
           /\ r.op = "status" => r \in StatusRequest
           /\ r.op \in {"note", "delete"} => r \in NoteRequest
           /\ r.op \in {"block", "unblock"} => r \in IpRequest
           /\ r.op = "verify" => r \in VerifyRequest
           /\ r.op = "bot" => r \in BotRequest
           /\ r.op \in {"create", "status", "note", "delete", "block",
                        "unblock", "verify", "bot"}
BY DEF Request, PyRequest, GoRequest, CreateRequest, StatusRequest, NoteRequest,
       IpRequest, VerifyRequest, BotRequest

\* An accepted request other than a submission names an application in use.
LEMMA AllowedId ==
    ASSUME NEW d, NEW r \in Request, Allowed(d, r),
           r.op \in {"status", "note", "delete", "verify", "bot"}
    PROVE  r.id \in Ids(d)
<1>1. CASE r.op = "status" BY <1>1 DEF Allowed, MayUpdateStatus
<1>2. CASE r.op \in {"note", "delete"} BY <1>2 DEF Allowed
<1>3. CASE r.op = "verify" BY <1>3 DEF Allowed, AwaitingVerification
<1>4. CASE r.op = "bot" BY <1>4 DEF Allowed, MayReviewByBot
<1>5. QED BY <1>1, <1>2, <1>3, <1>4

\* Storing an application keeps the rest of the document as it was.
LEMMA WithAppType ==
    ASSUME NEW d, IsDocument(d), NEW id \in AppIds, NEW app \in Application
    PROVE  /\ IsDocument(WithApp(d, id, app))
           /\ Ids(WithApp(d, id, app)) = Ids(d) \cup {id}
           /\ WithApp(d, id, app).apps[id] = app
           /\ \A i \in Ids(d) \ {id} : WithApp(d, id, app).apps[i] = d.apps[i]
           /\ WithApp(d, id, app).order = d.order
           /\ WithApp(d, id, app).fakes = d.fakes
           /\ WithApp(d, id, app).blacklist = d.blacklist
           /\ WithApp(d, id, app).form = d.form
<1> DEFINE f == [i \in Ids(d) \cup {id} |-> IF i = id THEN app ELSE d.apps[i]]
<1>1. WithApp(d, id, app) = [apps |-> f, order |-> d.order, fakes |-> d.fakes,
                            blacklist |-> d.blacklist, form |-> d.form]
  <2>1. d = [apps |-> d.apps, order |-> d.order, fakes |-> d.fakes,
             blacklist |-> d.blacklist, form |-> d.form]
    BY DEF IsDocument
  <2>2. WithApp(d, id, app) = [d EXCEPT !.apps = f]
    BY DEF WithApp
  <2> HIDE DEF f
  <2>3. [d EXCEPT !.apps = f] = [apps |-> f, order |-> d.order, fakes |-> d.fakes,
                                 blacklist |-> d.blacklist, form |-> d.form]
    BY ONLY <2>1
  <2>4. QED BY ONLY <2>2, <2>3
<1>2. f \in [Ids(d) \cup {id} -> Application]
  BY DEF IsDocument
<1>3. QED BY <1>1, <1>2 DEF IsDocument, Ids

\* Replacing the order keeps a document a document.
LEMMA WithOrderType ==
    ASSUME NEW d, IsDocument(d), NEW order \in Seq(AppIds)
    PROVE  LET e == [d EXCEPT !.order = order]
           IN  /\ IsDocument(e)
               /\ e = [apps |-> d.apps, order |-> order, fakes |-> d.fakes,
                       blacklist |-> d.blacklist, form |-> d.form]
<1>0. d = [apps |-> d.apps, order |-> d.order, fakes |-> d.fakes, blacklist |-> d.blacklist,
           form |-> d.form]
  BY DEF IsDocument
<1>1. [d EXCEPT !.order = order]
        = [apps |-> d.apps, order |-> order, fakes |-> d.fakes, blacklist |-> d.blacklist,
           form |-> d.form]
  BY ONLY <1>0
<1>2. QED BY <1>1 DEF IsDocument, Ids

\* Replacing the meta part changes nothing else.
LEMMA WithMetaType ==
    ASSUME NEW d, IsDocument(d), NEW fakes \in [IPs -> Nat], NEW blacklist \in SUBSET IPs,
           NEW form \in Forms, form # "list" => blacklist = {}
    PROVE  LET e == WithMeta(d, fakes, blacklist, form)
           IN  /\ IsDocument(e)
               /\ e = [apps |-> d.apps, order |-> d.order, fakes |-> fakes,
                       blacklist |-> blacklist, form |-> form]
<1>0. d = [apps |-> d.apps, order |-> d.order, fakes |-> d.fakes, blacklist |-> d.blacklist,
           form |-> d.form]
  BY DEF IsDocument
<1> DEFINE e1 == [d EXCEPT !.fakes = fakes]
           e2 == [e1 EXCEPT !.blacklist = blacklist]
<1>1. WithMeta(d, fakes, blacklist, form) = [e2 EXCEPT !.form = form] BY DEF WithMeta
<1>2. e1 = [apps |-> d.apps, order |-> d.order, fakes |-> fakes, blacklist |-> d.blacklist,
            form |-> d.form]
  BY ONLY <1>0
<1> HIDE DEF e1
<1>3. e2 = [apps |-> d.apps, order |-> d.order, fakes |-> fakes, blacklist |-> blacklist,
            form |-> d.form]
  BY ONLY <1>2
<1> HIDE DEF e2
<1>4. [e2 EXCEPT !.form = form]
        = [apps |-> d.apps, order |-> d.order, fakes |-> fakes, blacklist |-> blacklist,
           form |-> form]
  BY ONLY <1>3
<1>5. WithMeta(d, fakes, blacklist, form)
        = [apps |-> d.apps, order |-> d.order, fakes |-> fakes, blacklist |-> blacklist,
           form |-> form]
  BY ONLY <1>1, <1>4
<1>6. QED BY <1>5 DEF IsDocument, Ids

\* What the gateway writes for the list is a form, and a list stays one.
LEMMA MarshalledType ==
    ASSUME NEW form \in Forms
    PROVE  Marshalled(form) \in Forms /\ (Marshalled(form) = "list" <=> form = "list")
BY DEF Forms, Marshalled

\* The edits of one application keep it an application.
LEMMA ApplicationEdits ==
    ASSUME NEW a \in Application, NEW status \in Statuses,
           NEW outcome \in Verifications
    PROVE  /\ [a EXCEPT !.status = status, !.note = "admin"] \in Application
           /\ [a EXCEPT !.note = "admin"] \in Application
           /\ [a EXCEPT !.visible = FALSE] \in Application
           /\ Verdict(a, outcome) \in Application
<1>1. [a EXCEPT !.status = status, !.note = "admin"] \in Application
  BY DEF Application
<1>2. [a EXCEPT !.note = "admin"] \in Application
  BY DEF Application
<1>3. [a EXCEPT !.visible = FALSE] \in Application
  BY DEF Application
<1>4. Verdict(a, outcome) \in Application
  <2> DEFINE s == IF outcome = "absent" THEN "rejected" ELSE a.status
             n == IF outcome = "exists" THEN a.note ELSE "system"
  <2>1. s \in Statuses /\ n \in {"none", "admin", "system"}
    BY DEF Application, Statuses
  <2>2. [a EXCEPT !.verification = outcome, !.status = s, !.note = n] \in Application
    <3> HIDE DEF s, n
    <3> QED BY <2>1 DEF Application
  <2>3. QED BY <2>2 DEF Verdict
<1>5. QED BY <1>1, <1>2, <1>3, <1>4

\* An accepted request turns a document into a document.
LEMMA EffectType ==
    ASSUME NEW d, IsDocument(d), NEW r \in Request, Allowed(d, r)
    PROVE  IsDocument(Effect(d, r))
<1>0. ASSUME r.op \in {"status", "note", "delete", "verify", "bot"}
      PROVE  r.id \in AppIds /\ d.apps[r.id] \in Application
  BY <1>0, AllowedId DEF IsDocument
<1>1. CASE r.op = "create"
  <2> DEFINE new == [group |-> r.group, applicant |-> r.applicant, ip |-> r.ip,
                     status |-> "pending", verification |-> "none",
                     visible |-> TRUE, note |-> "none"]
             d1 == WithApp(d, r.id, new)
             order == << r.id >> \o d.order
  <2>1. Effect(d, r) = [d1 EXCEPT !.order = order]
    BY <1>1 DEF Effect, create_application
  <2>2. r \in CreateRequest BY <1>1, RequestKinds
  <2>3. new \in Application /\ r.id \in AppIds
    BY <2>2 DEF CreateRequest, Application, Statuses, Verifications
  <2>4. IsDocument(d1) BY <2>3, WithAppType
  <2>5. order \in Seq(AppIds)
    BY <2>3 DEF IsDocument
  <2> HIDE DEF new, d1, order
  <2>6. IsDocument([d1 EXCEPT !.order = order])
    BY <2>4, <2>5, WithOrderType
  <2>7. QED BY <2>1, <2>6
<1>2. CASE r.op \in {"status", "bot"}
  <2>1. r.to \in Statuses
    BY <1>2, RequestKinds DEF StatusRequest, BotRequest, Statuses
  <2>2. [d.apps[r.id] EXCEPT !.status = r.to, !.note = "admin"] \in Application
    BY <1>0, <1>2, <2>1, ApplicationEdits DEF Verifications
  <2>3. IsDocument(update_status(d, r))
    BY <1>0, <1>2, <2>2, WithAppType DEF update_status
  <2> DEFINE e1 == update_status(d, r)
  <2>4. e1.fakes = d.fakes /\ e1.blacklist = d.blacklist
    BY <1>0, <1>2, <2>2, WithAppType DEF update_status
  <2>5. /\ d.fakes \in [IPs -> Nat] /\ d.blacklist \in SUBSET IPs /\ d.form \in Forms
        /\ d.form # "list" => d.blacklist = {}
    BY DEF IsDocument
  <2> HIDE DEF e1
  <2>6. IsDocument(e1) BY <2>3 DEF e1
  <2>7. IsDocument(WithMeta(e1, d.fakes, d.blacklist, Marshalled(d.form)))
    BY <2>5, <2>6, MarshalledType, WithMetaType
  <2>8. QED BY <1>2, <2>3, <2>7 DEF Effect, review, e1
<1>3. CASE r.op \in {"note", "delete"}
  <2>1. /\ [d.apps[r.id] EXCEPT !.note = "admin"] \in Application
        /\ [d.apps[r.id] EXCEPT !.visible = FALSE] \in Application
    BY <1>0, <1>3, ApplicationEdits DEF Verifications, Statuses
  <2>2. IsDocument(update_note(d, r)) /\ IsDocument(delete_record(d, r))
    BY <1>0, <1>3, <2>1, WithAppType DEF update_note, delete_record
  <2>3. QED BY <1>3, <2>2 DEF Effect
<1>4. CASE r.op \in {"block", "unblock"}
  <2>1. r.ip \in IPs BY <1>4, RequestKinds DEF IpRequest
  <2>2. /\ d.blacklist \cup {r.ip} \in SUBSET IPs /\ d.blacklist \ {r.ip} \in SUBSET IPs
        /\ d.fakes \in [IPs -> Nat] /\ "list" \in Forms
    BY <2>1 DEF IsDocument, Forms
  <2>3. /\ IsDocument(WithMeta(d, d.fakes, d.blacklist \cup {r.ip}, "list"))
        /\ IsDocument(WithMeta(d, d.fakes, d.blacklist \ {r.ip}, "list"))
    BY <2>2, WithMetaType
  <2>4. QED BY <1>4, <2>3 DEF Effect
<1>5. CASE r.op = "verify"
  <2> DEFINE app    == Verdict(d.apps[r.id], r.outcome)
             judged == WithApp(d, r.id, app)
             ip     == d.apps[r.id].ip
             fakes  == [d.fakes EXCEPT ![ip] = d.fakes[ip] + 1]
             form   == Marshalled(d.form)
  <2>1. r.outcome \in Verifications BY <1>5, RequestKinds DEF VerifyRequest
  <2>2. app \in Application
    BY <1>0, <1>5, <2>1, ApplicationEdits DEF Statuses
  <2>3. IsDocument(judged) BY <1>0, <1>5, <2>2, WithAppType
  <2>4. ip \in IPs BY <1>0, <1>5 DEF Application
  <2>5. /\ fakes \in [IPs -> Nat] /\ d.fakes \in [IPs -> Nat]
        /\ d.blacklist \in SUBSET IPs /\ d.blacklist \cup {ip} \in SUBSET IPs
    <3> HIDE DEF ip
    <3> QED BY <2>4 DEF IsDocument
  <2>6. /\ form \in Forms /\ "list" \in Forms
        /\ form # "list" => d.blacklist = {}
    BY MarshalledType DEF Forms, IsDocument
  <2>7. \/ Effect(d, r) = WithMeta(judged, d.fakes, d.blacklist, form)
        \/ Effect(d, r) = WithMeta(judged, fakes, d.blacklist, form)
        \/ Effect(d, r) = WithMeta(judged, fakes, d.blacklist \cup {ip}, "list")
    BY <1>5 DEF Effect, ApplyVerdict
  <2> HIDE DEF app, judged, ip, fakes, form
  <2>8. QED BY <2>3, <2>5, <2>6, <2>7, WithMetaType
<1>6. QED BY <1>1, <1>2, <1>3, <1>4, <1>5, RequestKinds

\* The half of the file a backend operation does not change is, in its copy,
\* the one of the file: reading it again under the lock changes nothing.
LEMMA OtherHalf ==
    ASSUME NEW d, IsDocument(d), NEW r \in PyRequest, Allowed(d, r)
    PROVE  LET b == Effect(d, r)
           IN  b = IF r.op \in {"block", "unblock"}
                   THEN [b EXCEPT !.apps = d.apps, !.order = d.order]
                   ELSE WithMeta(b, d.fakes, d.blacklist, d.form)
<1> DEFINE b == Effect(d, r)
<1>1. r \in Request BY DEF Request
<1>2. IsDocument(b) BY <1>1, EffectType
<1>3. b = [apps |-> b.apps, order |-> b.order, fakes |-> b.fakes, blacklist |-> b.blacklist,
           form |-> b.form]
  BY <1>2 DEF IsDocument
<1>4. CASE r.op \in {"block", "unblock"}
  <2>1. b.apps = d.apps /\ b.order = d.order
    <3>1. r.ip \in IPs BY <1>1, <1>4, RequestKinds DEF IpRequest
    <3>2. /\ d.blacklist \cup {r.ip} \in SUBSET IPs /\ d.blacklist \ {r.ip} \in SUBSET IPs
          /\ d.fakes \in [IPs -> Nat] /\ "list" \in Forms
      BY <3>1 DEF IsDocument, Forms
    <3>3. \A s \in SUBSET IPs :
              /\ WithMeta(d, d.fakes, s, "list").apps = d.apps
              /\ WithMeta(d, d.fakes, s, "list").order = d.order
      BY <3>2, WithMetaType
    <3>4. QED BY <1>4, <3>2, <3>3 DEF Effect
  <2> HIDE DEF b
  <2>2. b = [b EXCEPT !.apps = d.apps, !.order = d.order]
    BY ONLY <1>3, <2>1
  <2>3. QED BY <1>4, <2>2 DEF b
<1>5. CASE r.op \notin {"block", "unblock"}
  <2>1. b.fakes = d.fakes /\ b.blacklist = d.blacklist /\ b.form = d.form
    <3>1. ASSUME NEW id \in AppIds, NEW app \in Application
          PROVE  /\ WithApp(d, id, app).fakes = d.fakes
                 /\ WithApp(d, id, app).blacklist = d.blacklist
                 /\ WithApp(d, id, app).form = d.form
      BY <3>1, WithAppType
    <3>2. CASE r.op = "create"
      <4> DEFINE new == [group |-> r.group, applicant |-> r.applicant, ip |-> r.ip,
                         status |-> "pending", verification |-> "none",
                         visible |-> TRUE, note |-> "none"]
                 d1 == WithApp(d, r.id, new)
                 order == << r.id >> \o d.order
      <4>1. new \in Application /\ r.id \in AppIds
        BY <1>1, <3>2, RequestKinds DEF CreateRequest, Application, Statuses, Verifications
      <4>2. b = [d1 EXCEPT !.order = order]
        BY <3>2 DEF Effect, create_application
      <4>3. /\ IsDocument(d1) /\ d1.fakes = d.fakes /\ d1.blacklist = d.blacklist
            /\ d1.form = d.form
        BY <4>1, WithAppType
      <4>4. order \in Seq(AppIds) BY <4>1 DEF IsDocument
      <4> HIDE DEF new, d1, b, order
      <4>5. QED BY <4>2, <4>3, <4>4, WithOrderType
    <3>3. CASE r.op \in {"status", "note", "delete"}
      <4>1. r.id \in AppIds /\ d.apps[r.id] \in Application
        BY <1>1, <3>3, AllowedId DEF IsDocument
      <4>2. r.op = "status" => r.to \in Statuses
        BY <1>1, RequestKinds DEF StatusRequest
      <4>3. /\ r.op = "status" => [d.apps[r.id] EXCEPT !.status = r.to, !.note = "admin"] \in Application
            /\ [d.apps[r.id] EXCEPT !.note = "admin"] \in Application
            /\ [d.apps[r.id] EXCEPT !.visible = FALSE] \in Application
        BY <4>1, <4>2, ApplicationEdits DEF Verifications, Statuses
      <4>4. QED
        BY <3>1, <3>3, <4>1, <4>3 DEF Effect, update_status, update_note, delete_record
    <3>4. r.op \in {"create", "status", "note", "delete"}
      BY <1>5 DEF PyRequest, CreateRequest, StatusRequest, NoteRequest, IpRequest
    <3>5. QED BY <3>2, <3>3, <3>4
  <2> HIDE DEF b
  <2>2. d.fakes \in [IPs -> Nat] /\ d.blacklist \in SUBSET IPs /\ d.form \in Forms
        /\ (d.form # "list" => d.blacklist = {})
    BY DEF IsDocument
  <2>3. WithMeta(b, d.fakes, d.blacklist, d.form)
          = [apps |-> b.apps, order |-> b.order, fakes |-> d.fakes, blacklist |-> d.blacklist,
             form |-> d.form]
    BY <1>2, <2>2, WithMetaType
  <2>4. b = WithMeta(b, d.fakes, d.blacklist, d.form)
    BY ONLY <1>3, <2>1, <2>3
  <2>5. QED BY <1>5, <2>4 DEF b
<1>6. QED BY <1>4, <1>5

\* The review list and the set of approved applicants have their types.
LEMMA ViewsType ==
    ASSUME IsDocument(doc)
    PROVE  /\ ApprovedApplicants(doc) \in SUBSET Applicants
           /\ VisiblePending(doc) \subseteq AppIds
           /\ filterPendingRows(doc) \in [VisiblePending(doc) -> Nat]
<1>1. \A id \in Ids(doc) : id \in AppIds /\ doc.apps[id] \in Application
  BY DEF IsDocument
<1>2. ApprovedApplicants(doc) \in SUBSET Applicants
  BY <1>1 DEF ApprovedApplicants, Application
<1>3. VisiblePending(doc) \subseteq AppIds
  BY <1>1 DEF VisiblePending
<1>4. ASSUME NEW S \in SUBSET VisiblePending(doc) PROVE Cardinality(S) \in Nat
  BY <1>3, FS_Subset, FS_CardinalityType, DocumentAssumption
<1>5. QED BY <1>2, <1>3, <1>4 DEF filterPendingRows

-----------------------------------------------------------------------------
(* The inductive invariant. *)

LEMMA InitIInv == Init => IInv
<1> SUFFICES ASSUME Init PROVE IInv OBVIOUS
<1> USE EmptyDocumentType, FreshDocumentType DEF Init
<1>1. TypeOK BY DEF TypeOK
<1>2. LockHeld BY DEF LockHeld, Critical
<1>3. MutualExclusion BY DEF MutualExclusion, Critical
<1>4. Serving BY DEF Serving
<1>5. CopyIsCurrent BY DEF CopyIsCurrent
<1>6. QED BY <1>1, <1>2, <1>3, <1>4, <1>5 DEF IInv

\* Steps that keep the file, with the parts of the invariant one by one.
LEMMA StepIInv == IInv /\ [Next]_vars => IInv'
<1> SUFFICES ASSUME IInv, [Next]_vars PROVE IInv' OBVIOUS
<1> USE StoreAssumption DEF IInv
<1>a. \A t \in GoThreads : t \in Threads /\ t \notin PyThreads
  BY DEF Threads
<1>b. GoRequest \subseteq Request /\ PyRequest \subseteq Request
  BY DEF Request
<1>c. IsDocument(doc) BY DEF TypeOK
<1>d. \A t \in Threads : pc[t] # "idle" => req[t] \in Request
  BY <1>b DEF Serving
<1>1. ASSUME NEW t \in PyThreads, Submit(t) PROVE IInv'
  <2>1. PICK r \in PyRequest : /\ Accept(t, r, "acquire")
                              /\ UNCHANGED << doc, lock, buf, notices, whitelist, crashes >>
    BY <1>1 DEF Submit
  <2>0. t \in Threads /\ r \in Request BY DEF Threads, Request
  <2> USE <2>0, <2>1 DEF Accept, Goto
  <2>2. TypeOK' BY DEF TypeOK
  <2>3. LockHeld' BY DEF LockHeld, Critical, TypeOK
  <2>4. MutualExclusion' BY DEF MutualExclusion, Critical, TypeOK
  <2>5. Serving' BY DEF Serving, TypeOK
  <2>6. CopyIsCurrent' BY DEF CopyIsCurrent, TypeOK
  <2>7. QED BY <2>2, <2>3, <2>4, <2>5, <2>6
<1>2. ASSUME NEW t \in Threads, AcquireFsLock(t) PROVE IInv'
  <2> USE <1>2 DEF AcquireFsLock, Goto
  <2>2. TypeOK' BY DEF TypeOK, Critical
  <2>3. LockHeld' BY DEF LockHeld, Critical, TypeOK
  <2>4. MutualExclusion' BY DEF MutualExclusion, LockHeld, Critical, TypeOK
  <2>5. Serving' BY DEF Serving, TypeOK
  <2>6. CopyIsCurrent' BY DEF CopyIsCurrent, TypeOK
  <2>7. QED BY <2>2, <2>3, <2>4, <2>5, <2>6
<1>3. ASSUME NEW t \in Threads, AcquireFails(t) PROVE IInv'
  <2> USE <1>3, EmptyDocumentType DEF AcquireFails, Finish, Goto
  <2>2. TypeOK' BY DEF TypeOK, Critical
  <2>3. LockHeld' BY DEF LockHeld, Critical, TypeOK
  <2>4. MutualExclusion' BY DEF MutualExclusion, LockHeld, Critical, TypeOK
  <2>5. Serving' BY DEF Serving, TypeOK
  <2>6. CopyIsCurrent' BY DEF CopyIsCurrent, TypeOK
  <2>7. QED BY <2>2, <2>3, <2>4, <2>5, <2>6
<1>4. ASSUME NEW id \in AppIds, RepeatNotice(id) PROVE IInv'
  <2> USE <1>4, EmptyDocumentType DEF RepeatNotice, Finish, Goto, Accept
  <2>2. TypeOK' BY DEF TypeOK, Critical
  <2>3. LockHeld' BY DEF LockHeld, Critical, TypeOK
  <2>4. MutualExclusion' BY DEF MutualExclusion, LockHeld, Critical, TypeOK
  <2>5. Serving' BY DEF Serving, TypeOK
  <2>6. CopyIsCurrent' BY DEF CopyIsCurrent, TypeOK
  <2>7. QED BY <2>2, <2>3, <2>4, <2>5, <2>6
<1>5. ASSUME NEW t \in GoThreads, NEW id \in AppIds, HandleNotify(t, id) PROVE IInv'
  <2> USE <1>5, EmptyDocumentType DEF HandleNotify, Finish, Goto, Accept
  <2>1. [op |-> "verify", id |-> id, outcome |-> "exists"] \in GoRequest
    BY DEF GoRequest, VerifyRequest, Verifications
  <2>2. TypeOK' BY <1>a, <1>b, <2>1 DEF TypeOK
  <2>3. LockHeld' BY DEF LockHeld, Critical, TypeOK
  <2>4. MutualExclusion' BY DEF MutualExclusion, LockHeld, Critical, TypeOK
  <2>5. Serving' BY <1>a, <2>1 DEF Serving, TypeOK
  <2>6. CopyIsCurrent' BY DEF CopyIsCurrent, TypeOK
  <2>7. QED BY <2>2, <2>3, <2>4, <2>5, <2>6
<1>6. ASSUME NEW t \in Threads, verifyGroup(t) PROVE IInv'
  <2> USE <1>6, EmptyDocumentType DEF verifyGroup, Finish, Goto, Accept
  <2>1. req'[t] \in VerifyRequest /\ req' = [req EXCEPT ![t] = req'[t]]
    <3>1. req[t] \in VerifyRequest /\ req[t].op = "verify"
      BY <1>d, RequestKinds DEF Serving
    <3>2. PICK outcome \in Verifications \ {"none"} :
              req' = [req EXCEPT ![t].outcome = outcome]
      OBVIOUS
    <3>3. [req[t] EXCEPT !.outcome = outcome] \in VerifyRequest
      BY <3>1 DEF VerifyRequest
    <3>4. QED BY <3>2, <3>3 DEF TypeOK
  <2>2. TypeOK' BY <1>b, <2>1 DEF TypeOK, GoRequest
  <2>3. LockHeld' BY DEF LockHeld, Critical, TypeOK
  <2>4. MutualExclusion' BY DEF MutualExclusion, LockHeld, Critical, TypeOK
  <2>5. Serving' BY <2>1, RequestKinds, <1>d DEF GoRequest, PyRequest, CreateRequest, StatusRequest, NoteRequest, IpRequest, VerifyRequest,  Serving, TypeOK
  <2>6. CopyIsCurrent' BY DEF CopyIsCurrent, TypeOK
  <2>7. QED BY <2>2, <2>3, <2>4, <2>5, <2>6
<1>7. ASSUME NEW t \in GoThreads, NEW n, NEW to \in {"approved", "rejected"}, HandleByIndex(t, n, to) PROVE IInv'
  <2> USE <1>7, EmptyDocumentType DEF HandleByIndex, Finish, Goto, Accept
  <2>1. PICK i \in AppIds : /\ Accept(t, [op |-> "bot", id |-> i, to |-> to], "acquire")
                           /\ UNCHANGED << doc, lock, buf, notices, whitelist, crashes >>
    BY <1>c, ViewsType
  <2>x. [op |-> "bot", id |-> i, to |-> to] \in GoRequest
    BY DEF GoRequest, BotRequest
  <2>2. TypeOK' BY <1>a, <1>b, <2>1, <2>x DEF TypeOK
  <2>3. LockHeld' BY DEF LockHeld, Critical, TypeOK
  <2>4. MutualExclusion' BY DEF MutualExclusion, LockHeld, Critical, TypeOK
  <2>5. Serving' BY <1>a, <2>1, <2>x DEF Serving, TypeOK
  <2>6. CopyIsCurrent' BY DEF CopyIsCurrent, TypeOK
  <2>7. QED BY <2>2, <2>3, <2>4, <2>5, <2>6
<1>8. ASSUME NEW t \in GoThreads, NEW id \in AppIds, NEW to \in {"approved", "rejected"}, HandleById(t, id, to) PROVE IInv'
  <2> USE <1>8, EmptyDocumentType DEF HandleById, Finish, Goto, Accept
  <2>1. PICK i \in AppIds : /\ Accept(t, [op |-> "bot", id |-> i, to |-> to], "acquire")
                           /\ UNCHANGED << doc, lock, buf, notices, whitelist, crashes >>
    OBVIOUS
  <2>x. [op |-> "bot", id |-> i, to |-> to] \in GoRequest
    BY DEF GoRequest, BotRequest
  <2>2. TypeOK' BY <1>a, <1>b, <2>1, <2>x DEF TypeOK
  <2>3. LockHeld' BY DEF LockHeld, Critical, TypeOK
  <2>4. MutualExclusion' BY DEF MutualExclusion, LockHeld, Critical, TypeOK
  <2>5. Serving' BY <1>a, <2>1, <2>x DEF Serving, TypeOK
  <2>6. CopyIsCurrent' BY DEF CopyIsCurrent, TypeOK
  <2>7. QED BY <2>2, <2>3, <2>4, <2>5, <2>6
<1>10. ASSUME NEW t \in Threads, Load(t) PROVE IInv'
  <2> USE <1>10, EmptyDocumentType DEF Load, Finish, Goto, Accept
  <2>1. req[t] \in Request BY <1>d
  <2>x. Allowed(doc, req[t]) => IsDocument(Effect(doc, req[t]))
    BY <1>c, <2>1, EffectType
  <2>2. TypeOK' BY <2>x DEF TypeOK, Critical
  <2>3. LockHeld' BY DEF LockHeld, Critical, TypeOK
  <2>4. MutualExclusion' BY DEF MutualExclusion, LockHeld, Critical, TypeOK
  <2>5. Serving' BY DEF Serving, TypeOK
  <2>6. CopyIsCurrent' BY DEF CopyIsCurrent, TypeOK
  <2>7. QED BY <2>2, <2>3, <2>4, <2>5, <2>6
<1>11. ASSUME NEW t \in Threads, Merge(t) PROVE IInv'
  <2> USE <1>11, EmptyDocumentType DEF Merge, Finish, Goto, Accept
  <2>1. t \in PyThreads /\ req[t] \in PyRequest /\ Allowed(doc, req[t])
        /\ buf[t] = Effect(doc, req[t])
    BY DEF Serving, CopyIsCurrent
  <2>x. buf' = buf
    BY <1>c, <2>1, OtherHalf DEF TypeOK
  <2>2. TypeOK' BY <2>x DEF TypeOK, Critical
  <2>3. LockHeld' BY DEF LockHeld, Critical, TypeOK
  <2>4. MutualExclusion' BY DEF MutualExclusion, LockHeld, Critical, TypeOK
  <2>5. Serving' BY DEF Serving, TypeOK
  <2>6. CopyIsCurrent' BY <2>x DEF CopyIsCurrent, TypeOK
  <2>7. QED BY <2>2, <2>3, <2>4, <2>5, <2>6
<1>12. ASSUME NEW t \in Threads, Write(t) PROVE IInv'
  <2> USE <1>12, EmptyDocumentType DEF Write, Finish, Goto, Accept
  <2>2. TypeOK' BY DEF TypeOK, Critical
  <2>3. LockHeld' BY DEF LockHeld, Critical, TypeOK
  <2>4. MutualExclusion' BY DEF MutualExclusion, LockHeld, Critical, TypeOK
  <2>5. Serving' BY DEF Serving, TypeOK
  <2>6. CopyIsCurrent' BY DEF MutualExclusion, Critical,  CopyIsCurrent, TypeOK
  <2>7. QED BY <2>2, <2>3, <2>4, <2>5, <2>6
<1>13. ASSUME NEW t \in Threads, WriteFails(t) PROVE IInv'
  <2> USE <1>13, EmptyDocumentType DEF WriteFails, Finish, Goto, Accept
  <2>2. TypeOK' BY DEF TypeOK, Critical
  <2>3. LockHeld' BY DEF LockHeld, Critical, TypeOK
  <2>4. MutualExclusion' BY DEF MutualExclusion, LockHeld, Critical, TypeOK
  <2>5. Serving' BY DEF Serving, TypeOK
  <2>6. CopyIsCurrent' BY DEF CopyIsCurrent, TypeOK
  <2>7. QED BY <2>2, <2>3, <2>4, <2>5, <2>6
<1>14. ASSUME NEW t \in Threads, ReleaseFsLock(t) PROVE IInv'
  <2> USE <1>14, EmptyDocumentType DEF ReleaseFsLock, Finish, Goto, Accept
  <2>2. TypeOK' BY DEF TypeOK, Critical
  <2>3. LockHeld' BY DEF MutualExclusion,  LockHeld, Critical, TypeOK
  <2>4. MutualExclusion' BY DEF MutualExclusion, LockHeld, Critical, TypeOK
  <2>5. Serving' BY DEF Serving, TypeOK
  <2>6. CopyIsCurrent' BY DEF CopyIsCurrent, TypeOK
  <2>7. QED BY <2>2, <2>3, <2>4, <2>5, <2>6
<1>15. ASSUME NEW t \in Threads, NotifyOnebot(t) PROVE IInv'
  <2> USE <1>15, EmptyDocumentType DEF NotifyOnebot, Finish, Goto, Accept
  <2>1. req[t].id \in AppIds
    BY <1>d, RequestKinds DEF Serving, CreateRequest
  <2>2. TypeOK' BY <2>1 DEF TypeOK, Critical
  <2>3. LockHeld' BY DEF LockHeld, Critical, TypeOK
  <2>4. MutualExclusion' BY DEF MutualExclusion, LockHeld, Critical, TypeOK
  <2>5. Serving' BY DEF Serving, TypeOK
  <2>6. CopyIsCurrent' BY DEF CopyIsCurrent, TypeOK
  <2>7. QED BY <2>2, <2>3, <2>4, <2>5, <2>6
<1>16. ASSUME RefreshWhitelist PROVE IInv'
  <2> USE <1>16, EmptyDocumentType DEF RefreshWhitelist, Finish, Goto, Accept
  <2>2. TypeOK' BY <1>c, ViewsType DEF TypeOK
  <2>3. LockHeld' BY DEF LockHeld, Critical, TypeOK
  <2>4. MutualExclusion' BY DEF MutualExclusion, LockHeld, Critical, TypeOK
  <2>5. Serving' BY DEF Serving, TypeOK
  <2>6. CopyIsCurrent' BY DEF CopyIsCurrent, TypeOK
  <2>7. QED BY <2>2, <2>3, <2>4, <2>5, <2>6
<1>17. ASSUME NEW program \in {PyThreads, GoThreads}, Crash(program) PROVE IInv'
  <2> USE <1>17, EmptyDocumentType DEF Crash, Finish, Goto, Accept
  <2>2. TypeOK' BY <1>c, ViewsType DEF TypeOK
  <2>3. LockHeld' BY DEF LockHeld, Critical, TypeOK
  <2>4. MutualExclusion' BY DEF MutualExclusion, LockHeld, Critical, TypeOK
  <2>5. Serving' BY DEF Serving, TypeOK
  <2>6. CopyIsCurrent' BY DEF CopyIsCurrent, TypeOK
  <2>7. QED BY <2>2, <2>3, <2>4, <2>5, <2>6
<1>18. ASSUME OperatorUnlock PROVE IInv'
  <2> USE <1>18, EmptyDocumentType DEF OperatorUnlock, Finish, Goto, Accept
  <2>2. TypeOK' BY DEF TypeOK, Critical
  <2>3. LockHeld' BY DEF LockHeld, Critical, TypeOK
  <2>4. MutualExclusion' BY DEF MutualExclusion, LockHeld, Critical, TypeOK
  <2>5. Serving' BY DEF Serving, TypeOK
  <2>6. CopyIsCurrent' BY DEF CopyIsCurrent, TypeOK
  <2>7. QED BY <2>2, <2>3, <2>4, <2>5, <2>6
<1>19. ASSUME UNCHANGED vars PROVE IInv'
  <2> USE <1>19, EmptyDocumentType DEF vars, Finish, Goto, Accept
  <2>2. TypeOK' BY DEF TypeOK, Critical
  <2>3. LockHeld' BY DEF LockHeld, Critical, TypeOK
  <2>4. MutualExclusion' BY DEF MutualExclusion, LockHeld, Critical, TypeOK
  <2>5. Serving' BY DEF Serving, TypeOK
  <2>6. CopyIsCurrent' BY DEF CopyIsCurrent, TypeOK
  <2>7. QED BY <2>2, <2>3, <2>4, <2>5, <2>6
<1>99. QED
  BY <1>1, <1>2, <1>3, <1>4, <1>5, <1>6, <1>7, <1>8, <1>10, <1>11, <1>12, <1>13, <1>14, <1>15, <1>16, <1>17, <1>18, <1>19 DEF Next, ThreadStep

-----------------------------------------------------------------------------
(* Theorems. *)

\* The variables keep their types, whatever happens.
THEOREM TypeCorrect == Spec => []TypeOK
<1>1. IInv => TypeOK BY DEF IInv
<1>2. QED BY InitIInv, StepIInv, <1>1, PTL DEF Spec

\* At most one thread of the two programs is between creating the lock file
\* and removing it.
THEOREM LockExcludes == Spec => []MutualExclusion
<1>1. IInv => MutualExclusion BY DEF IInv
<1>2. QED BY InitIInv, StepIInv, <1>1, PTL DEF Spec

\* What a thread is about to write is its request applied to the present file.
THEOREM CopiesAreCurrent == Spec => []CopyIsCurrent
<1>1. IInv => CopyIsCurrent BY DEF IInv
<1>2. QED BY InitIInv, StepIInv, <1>1, PTL DEF Spec

\* The registry and the store speak of the same documents and requests.
LEMMA SameDocument ==
    /\ Registry!EmptyDocument = EmptyDocument
    /\ Registry!Request = Request
    /\ \A d, r : Registry!Allowed(d, r) = Allowed(d, r)
    /\ \A d, r : Registry!Effect(d, r) = Effect(d, r)
<1>1. Registry!EmptyDocument = EmptyDocument
  BY DEF Registry!EmptyDocument, EmptyDocument
<1>2. Registry!Request = Request
  BY DEF Request, PyRequest, GoRequest, CreateRequest, StatusRequest, NoteRequest,
         IpRequest, VerifyRequest, BotRequest, Statuses, Verifications,
         Registry!Request, Registry!PyRequest, Registry!GoRequest,
         Registry!CreateRequest, Registry!StatusRequest, Registry!NoteRequest,
         Registry!IpRequest, Registry!VerifyRequest, Registry!BotRequest,
         Registry!Statuses, Registry!Verifications
<1>3. ASSUME NEW d, NEW r PROVE Registry!Allowed(d, r) = Allowed(d, r)
  BY DEF Allowed, MayCreate, MayUpdateStatus, MayReviewByBot, AwaitingVerification,
         Ids, _has_visible_pending_group, VisiblePending,
         Registry!Allowed, Registry!MayCreate, Registry!MayUpdateStatus,
         Registry!MayReviewByBot, Registry!AwaitingVerification, Registry!Ids,
         Registry!_has_visible_pending_group, Registry!VisiblePending
<1>4. ASSUME NEW d, NEW r PROVE Registry!Effect(d, r) = Effect(d, r)
  BY DEF Effect, create_application, update_status, update_note, delete_record,
         WithApp, Verdict, ApplyVerdict, Ids,
         Registry!Effect, Registry!create_application, Registry!update_status,
         Registry!update_note, Registry!delete_record, Registry!WithApp,
         Registry!Verdict, Registry!ApplyVerdict, Registry!Ids
<1>5. QED BY <1>1, <1>2, <1>3, <1>4

\* A step of the two programs is an accepted request performed at once, or
\* leaves the file alone.
LEMMA StepIsRegistryStep == IInv /\ [Next]_vars => [Registry!Next]_doc
<1> SUFFICES ASSUME IInv, [Next]_vars, doc' # doc PROVE Registry!Next
  OBVIOUS
<1>1. PICK t \in Threads : Write(t)
  BY DEF Next, ThreadStep, vars, Submit, RepeatNotice, HandleNotify, verifyGroup,
         HandleByIndex, HandleById, AcquireFsLock, AcquireFails,
         Load, Merge, WriteFails, ReleaseFsLock, NotifyOnebot, RefreshWhitelist,
         Crash, OperatorUnlock
<1>2. /\ req[t] \in Request
      /\ Allowed(doc, req[t])
      /\ doc' = Effect(doc, req[t])
  BY <1>1 DEF Write, IInv, Serving, CopyIsCurrent, Request
<1>3. QED BY <1>2, SameDocument DEF Registry!Next, Registry!Perform

\* The store with its lock file implements the registry that performs every
\* accepted request atomically: no update is lost.
THEOREM StoreImplementsRegistry == Spec => NoLostUpdate
<1>1. Init => Registry!Init
  BY SameDocument DEF Init, Registry!Init, FreshDocuments, Registry!FreshDocuments
<1>2. QED
  BY <1>1, InitIInv, StepIInv, StepIsRegistryStep, PTL
  DEF Spec, NoLostUpdate, Registry!Spec

-----------------------------------------------------------------------------
(* What one accepted request does to the applications and the counters. *)

\* The application a request names, as the request leaves it.
Edited(d, r) ==
    IF r.op \in {"status", "bot"}
    THEN [d.apps[r.id] EXCEPT !.status = r.to, !.note = "admin"]
    ELSE IF r.op = "note" THEN [d.apps[r.id] EXCEPT !.note = "admin"]
    ELSE IF r.op = "delete" THEN [d.apps[r.id] EXCEPT !.visible = FALSE]
    ELSE Verdict(d.apps[r.id], r.outcome)

\* A request about an application writes that one back and, if the gateway makes it, the
\* meta part.
LEMMA EditEffect ==
    ASSUME NEW d, IsDocument(d), NEW r \in Request, Allowed(d, r),
           r.op \in {"status", "note", "delete", "verify", "bot"}
    PROVE  LET e  == Effect(d, r)
               d1 == WithApp(d, r.id, Edited(d, r))
               ip == d.apps[r.id].ip
           IN  /\ r.id \in Ids(d) /\ r.id \in AppIds
               /\ Edited(d, r) \in Application
               /\ e.apps = d1.apps /\ e.order = d.order
               /\ e.fakes = IF r.op = "verify" /\ r.outcome = "absent"
                            THEN [d.fakes EXCEPT ![ip] = d.fakes[ip] + 1] ELSE d.fakes
<1> DEFINE e == Effect(d, r)
           app == Edited(d, r)
           d1 == WithApp(d, r.id, app)
           ip == d.apps[r.id].ip
           fakes == [d.fakes EXCEPT ![ip] = d.fakes[ip] + 1]
           form == Marshalled(d.form)
<1>1. r.id \in Ids(d) /\ r.id \in AppIds /\ d.apps[r.id] \in Application
  BY AllowedId DEF IsDocument
<1>2. app \in Application
  <2>1. /\ r.op \in {"status", "bot"} => r.to \in Statuses
        /\ r.op = "verify" => r.outcome \in Verifications
    BY RequestKinds DEF StatusRequest, BotRequest, VerifyRequest, Statuses
  <2>2. "none" \in Verifications /\ "pending" \in Statuses
    BY DEF Verifications, Statuses
  <2>3. QED BY <1>1, <2>1, <2>2, ApplicationEdits DEF Edited
<1>3. ip \in IPs BY <1>1 DEF Application
<1>4. /\ IsDocument(d1) /\ d1.order = d.order /\ d1.fakes = d.fakes
  <2> HIDE DEF app
  <2>1. QED BY <1>1, <1>2, WithAppType
<1>5. /\ fakes \in [IPs -> Nat] /\ d.fakes \in [IPs -> Nat]
      /\ d.blacklist \in SUBSET IPs /\ d.blacklist \cup {ip} \in SUBSET IPs
      /\ form \in Forms /\ "list" \in Forms
      /\ form # "list" => d.blacklist = {}
  <2> HIDE DEF ip
  <2>1. QED BY <1>3, MarshalledType DEF Forms, IsDocument
<1>6. \A f \in [IPs -> Nat], b \in SUBSET IPs, m \in Forms :
          (m # "list" => b = {}) =>
              /\ WithMeta(d1, f, b, m).apps = d1.apps
              /\ WithMeta(d1, f, b, m).order = d.order
              /\ WithMeta(d1, f, b, m).fakes = f
  <2> HIDE DEF d1
  <2>1. QED BY <1>4, WithMetaType
<1>7. CASE r.op \in {"status", "note", "delete"}
  <2>1. e = d1
    BY <1>7 DEF Effect, update_status, update_note, delete_record, Edited
  <2> HIDE DEF e, d1, app
  <2>2. QED BY <1>1, <1>2, <1>4, <1>7, <2>1 DEF e, d1, app
<1>8. CASE r.op = "bot"
  <2>1. e = WithMeta(d1, d.fakes, d.blacklist, form)
    BY <1>8 DEF Effect, review, update_status, Edited
  <2> HIDE DEF e, d1, app, form, fakes
  <2>2. QED BY <1>1, <1>2, <1>5, <1>6, <1>8, <2>1 DEF e, d1, app
<1>9. CASE r.op = "verify"
  <2>1. app = Verdict(d.apps[r.id], r.outcome) BY <1>9 DEF Edited
  <2>2. \/ /\ r.outcome # "absent"
           /\ e = WithMeta(d1, d.fakes, d.blacklist, form)
        \/ /\ r.outcome = "absent"
           /\ \/ e = WithMeta(d1, fakes, d.blacklist, form)
              \/ e = WithMeta(d1, fakes, d.blacklist \cup {ip}, "list")
    BY <1>9, <2>1 DEF Effect, ApplyVerdict
  <2> HIDE DEF e, d1, app, form, fakes, ip
  <2>3. e.apps = d1.apps /\ e.order = d.order
        /\ e.fakes = IF r.outcome = "absent" THEN fakes ELSE d.fakes
    BY <1>5, <1>6, <2>2
  <2>4. QED BY <1>1, <1>2, <1>9, <2>3 DEF e, d1, app, fakes, ip
<1>10. QED BY <1>7, <1>8, <1>9

\* The addresses are blocked and unblocked in the meta part alone.
LEMMA IpEffect ==
    ASSUME NEW d, IsDocument(d), NEW r \in Request, Allowed(d, r),
           r.op \in {"block", "unblock"}
    PROVE  LET e == Effect(d, r)
           IN  e.apps = d.apps /\ e.order = d.order /\ e.fakes = d.fakes
<1>1. r.ip \in IPs BY RequestKinds DEF IpRequest
<1>2. /\ d.blacklist \cup {r.ip} \in SUBSET IPs /\ d.blacklist \ {r.ip} \in SUBSET IPs
      /\ d.fakes \in [IPs -> Nat] /\ "list" \in Forms
  BY <1>1 DEF IsDocument, Forms
<1>3. \A s \in SUBSET IPs :
          /\ WithMeta(d, d.fakes, s, "list").apps = d.apps
          /\ WithMeta(d, d.fakes, s, "list").order = d.order
          /\ WithMeta(d, d.fakes, s, "list").fakes = d.fakes
  BY <1>2, WithMetaType
<1>4. QED BY <1>2, <1>3 DEF Effect

\* A submission adds an unverified application, a request about an
\* application edits that one, the others edit none; only a verdict "absent"
\* counts.
LEMMA EffectParts ==
    ASSUME NEW d, IsDocument(d), NEW r \in Request, Allowed(d, r)
    PROVE  LET e == Effect(d, r)
           IN  /\ r.op = "create" =>
                      /\ Ids(e) = Ids(d) \cup {r.id} /\ r.id \notin Ids(d)
                      /\ e.apps[r.id].verification = "none" /\ e.apps[r.id].group = r.group
                      /\ \A i \in Ids(d) : e.apps[i] = d.apps[i]
               /\ r.op \in {"status", "note", "delete", "verify", "bot"} =>
                      /\ Ids(e) = Ids(d) /\ r.id \in Ids(d)
                      /\ e.apps[r.id] = Edited(d, r)
                      /\ \A i \in Ids(d) \ {r.id} : e.apps[i] = d.apps[i]
               /\ r.op \in {"block", "unblock"} => e.apps = d.apps
               /\ ~ (r.op = "verify" /\ r.outcome = "absent") => e.fakes = d.fakes
               /\ r.op = "verify" /\ r.outcome = "absent" =>
                      e.fakes = [d.fakes EXCEPT ![d.apps[r.id].ip] = d.fakes[d.apps[r.id].ip] + 1]
<1> DEFINE e == Effect(d, r)
<1>1. CASE r.op = "create"
  <2> DEFINE new == [group |-> r.group, applicant |-> r.applicant, ip |-> r.ip,
                     status |-> "pending", verification |-> "none",
                     visible |-> TRUE, note |-> "none"]
             d1 == WithApp(d, r.id, new)
             order == << r.id >> \o d.order
  <2>1. new \in Application /\ r.id \in AppIds /\ new.verification = "none" /\ new.group = r.group
    BY <1>1, RequestKinds DEF CreateRequest, Application, Statuses, Verifications
  <2>2. e = [d1 EXCEPT !.order = order]
    BY <1>1 DEF Effect, create_application
  <2>3. r.id \notin Ids(d) BY <1>1 DEF Allowed, MayCreate
  <2>4. order \in Seq(AppIds) BY <2>1 DEF IsDocument
  <2> HIDE DEF new
  <2>5. /\ IsDocument(d1)
        /\ Ids(d1) = Ids(d) \cup {r.id} /\ d1.fakes = d.fakes
        /\ d1.apps[r.id].verification = "none" /\ d1.apps[r.id].group = r.group
        /\ \A i \in Ids(d) : d1.apps[i] = d.apps[i]
    BY <2>1, <2>3, WithAppType
  <2> HIDE DEF d1, e, order
  <2>6. e.apps = d1.apps /\ e.fakes = d1.fakes
    BY <2>2, <2>4, <2>5, WithOrderType
  <2>7. QED BY <1>1, <2>3, <2>5, <2>6 DEF Ids, e
<1>2. CASE r.op \in {"status", "note", "delete", "verify", "bot"}
  <2> DEFINE app == Edited(d, r)
             d1 == WithApp(d, r.id, app)
  <2>1. /\ r.id \in Ids(d) /\ r.id \in AppIds /\ app \in Application
        /\ e.apps = d1.apps
        /\ e.fakes = IF r.op = "verify" /\ r.outcome = "absent"
                     THEN [d.fakes EXCEPT ![d.apps[r.id].ip] = d.fakes[d.apps[r.id].ip] + 1]
                     ELSE d.fakes
    BY <1>2, EditEffect
  <2> HIDE DEF app, e
  <2>2. /\ Ids(d1) = Ids(d) \cup {r.id} /\ d1.apps[r.id] = app
        /\ \A i \in Ids(d) \ {r.id} : d1.apps[i] = d.apps[i]
    BY <2>1, WithAppType
  <2>3. Ids(d) \cup {r.id} = Ids(d) BY <2>1
  <2> HIDE DEF d1
  <2>4. Ids(e) = Ids(d) /\ e.apps[r.id] = app /\ \A i \in Ids(d) \ {r.id} : e.apps[i] = d.apps[i]
    BY <2>1, <2>2, <2>3 DEF Ids
  <2>5. QED BY <1>2, <2>1, <2>4 DEF app, e
<1>3. CASE r.op \in {"block", "unblock"}
  BY <1>3, IpEffect
<1>4. QED BY <1>1, <1>2, <1>3, RequestKinds

\* Every change of the file is an accepted request performed on it.
LEMMA StepIsEffect ==
    ASSUME IInv, [Next]_vars, doc' # doc
    PROVE  \E r \in Request : Allowed(doc, r) /\ doc' = Effect(doc, r)
BY StepIsRegistryStep, SameDocument DEF Registry!Next, Registry!Perform

\* A decision is final until it is reopened.
THEOREM DecisionsHold == Spec => DecisionsAreFinal
<1> DEFINE Final == \A id \in Ids(doc) :
               doc.apps[id].status # "pending"
                   => doc'.apps[id].status \in {doc.apps[id].status, "pending"}
<1>1. ASSUME IInv, [Next]_vars PROVE [Final]_doc
  <2> SUFFICES ASSUME doc' # doc, NEW id \in Ids(doc),
                      doc.apps[id].status # "pending"
               PROVE  doc'.apps[id].status \in {doc.apps[id].status, "pending"}
    OBVIOUS
  <2>1. PICK r \in Request : Allowed(doc, r) /\ doc' = Effect(doc, r)
    BY <1>1, StepIsEffect
  <2>2. IsDocument(doc) /\ doc.apps[id] \in Application
    BY <1>1 DEF IInv, TypeOK, IsDocument
  <2>3. CASE r.op \in {"create", "block", "unblock"}
    BY <2>1, <2>2, <2>3, EffectParts
  <2>4. CASE r.op \in {"status", "note", "delete", "verify", "bot"} /\ id # r.id
    BY <2>1, <2>2, <2>4, EffectParts
  <2>5. CASE r.op \in {"status", "note", "delete", "verify", "bot"} /\ id = r.id
    <3>1. doc'.apps[id] = Edited(doc, r)
      BY <2>1, <2>2, <2>5, EffectParts
    <3>2. r.op \in {"status", "note", "delete"}
      BY <2>1, <2>5 DEF Allowed, AwaitingVerification, MayReviewByBot
    <3>3. r.op = "status" => r.to = "pending"
      BY <2>1, <2>5 DEF Allowed, MayUpdateStatus
    <3>4. QED BY <2>2, <2>5, <3>1, <3>2, <3>3 DEF Edited, Application
  <2>6. QED BY <2>3, <2>4, <2>5, RequestKinds
<1>2. QED BY <1>1, InitIInv, StepIInv, PTL DEF Spec, DecisionsAreFinal

\* A group gets a second pending application only by a reopening (service.py:143,206):
\* the one submitted last found no other on the list, whatever ran beside it.
THEOREM SecondsAreReopened == Spec => SecondOnlyByReopening
<1> DEFINE Reopened == \A i, j \in VisiblePending(doc') :
               i # j /\ doc'.apps[i].group = doc'.apps[j].group =>
                   \/ {i, j} \subseteq VisiblePending(doc)
                   \/ \E k \in {i, j} \cap Ids(doc) : doc.apps[k].status # "pending"
<1>1. ASSUME IInv, [Next]_vars PROVE [Reopened]_doc
  <2> SUFFICES ASSUME doc' # doc, NEW i \in VisiblePending(doc'), NEW j \in VisiblePending(doc'),
                      i # j, doc'.apps[i].group = doc'.apps[j].group
               PROVE  \/ {i, j} \subseteq VisiblePending(doc)
                      \/ \E k \in {i, j} \cap Ids(doc) : doc.apps[k].status # "pending"
    OBVIOUS
  <2>1. PICK r \in Request : Allowed(doc, r) /\ doc' = Effect(doc, r)
    BY <1>1, StepIsEffect
  <2>2. IsDocument(doc) /\ \A k \in Ids(doc) : doc.apps[k] \in Application
    BY <1>1 DEF IInv, TypeOK, IsDocument
  <2>3. /\ i \in Ids(doc') /\ doc'.apps[i].status = "pending" /\ doc'.apps[i].visible
        /\ j \in Ids(doc') /\ doc'.apps[j].status = "pending" /\ doc'.apps[j].visible
    BY DEF VisiblePending
  <2>4. CASE r.op = "create"
    <3>1. /\ Ids(doc') = Ids(doc) \cup {r.id} /\ r.id \notin Ids(doc)
          /\ doc'.apps[r.id].verification = "none" /\ doc'.apps[r.id].group = r.group
          /\ \A k \in Ids(doc) : doc'.apps[k] = doc.apps[k]
      <4>1. IsDocument(doc) BY <2>2
      <4>2. QED BY ONLY <2>1, <2>4, <4>1, EffectParts
    <3>2. \A k \in VisiblePending(doc) : doc.apps[k].group # r.group
      BY <2>1, <2>4 DEF Allowed, MayCreate, _has_visible_pending_group
    <3>3. QED BY <2>3, <3>1, <3>2 DEF VisiblePending
  <2>5. CASE r.op \in {"block", "unblock"}
    <3>1. doc'.apps = doc.apps BY <2>1, <2>2, <2>5, EffectParts
    <3>2. QED BY <2>3, <3>1 DEF VisiblePending, Ids
  <2>6. CASE r.op \in {"status", "note", "delete", "verify", "bot"}
    <3>1. /\ Ids(doc') = Ids(doc) /\ r.id \in Ids(doc)
          /\ doc'.apps[r.id] = Edited(doc, r)
          /\ \A k \in Ids(doc) \ {r.id} : doc'.apps[k] = doc.apps[k]
      BY <2>1, <2>2, <2>6, EffectParts
    <3>2. Edited(doc, r).visible => doc.apps[r.id].visible
      BY <2>2, <2>6, <3>1 DEF Edited, Verdict, Application
    <3>3. ASSUME NEW k \in {i, j}
          PROVE  k \in VisiblePending(doc) \/ (k \in Ids(doc) /\ doc.apps[k].status # "pending")
      BY <2>3, <3>1, <3>2 DEF VisiblePending
    <3>4. QED BY <3>3
  <2>7. QED BY <2>1, <2>4, <2>5, <2>6, RequestKinds
<1>2. QED BY <1>1, InitIInv, StepIInv, PTL DEF Spec, SecondOnlyByReopening

\* The counter of an address is the number of its applications found fake.
THEOREM FakesAreCounted == Spec => []FakeCountExact
<1>1. Init => FakeCountExact
  <2>1. ASSUME Init, NEW ip \in IPs PROVE FakeApplications(doc, ip) = {}
    BY <2>1, FreshDocumentType DEF Init, FakeApplications
  <2>2. ASSUME Init, NEW ip \in IPs PROVE doc.fakes[ip] = 0
    BY <2>2, FreshDocumentType DEF Init
  <2>3. QED BY <2>1, <2>2, FS_EmptySet DEF FakeCountExact
<1>2. ASSUME IInv, FakeCountExact, [Next]_vars PROVE FakeCountExact'
  <2>1. CASE doc' = doc BY <1>2, <2>1 DEF FakeCountExact, FakeApplications, Ids
  <2>2. CASE doc' # doc
    <3>1. PICK r \in Request : Allowed(doc, r) /\ doc' = Effect(doc, r)
      BY <1>2, <2>2, StepIsEffect
    <3>2. IsDocument(doc) BY <1>2 DEF IInv, TypeOK
    <3>3. \A i \in Ids(doc) : i \in AppIds /\ doc.apps[i] \in Application
      BY <3>2 DEF IsDocument
    <3>4. \A ip \in IPs : IsFiniteSet(FakeApplications(doc, ip))
      BY <3>3, FS_Subset, DocumentAssumption DEF FakeApplications
    <3>5. CASE r.op = "verify" /\ r.outcome = "absent"
      <4> DEFINE host == doc.apps[r.id].ip
      <4>1. /\ Ids(doc') = Ids(doc) /\ r.id \in Ids(doc)
            /\ doc'.apps[r.id] = Verdict(doc.apps[r.id], "absent")
            /\ \A i \in Ids(doc) \ {r.id} : doc'.apps[i] = doc.apps[i]
            /\ doc'.fakes = [doc.fakes EXCEPT ![host] = doc.fakes[host] + 1]
        <5>1. /\ Ids(doc') = Ids(doc) /\ r.id \in Ids(doc)
              /\ doc'.apps[r.id] = Edited(doc, r)
              /\ \A i \in Ids(doc) \ {r.id} : doc'.apps[i] = doc.apps[i]
              /\ doc'.fakes = [doc.fakes EXCEPT ![host] = doc.fakes[host] + 1]
          BY <3>1, <3>2, <3>5, EffectParts
        <5>2. Edited(doc, r) = Verdict(doc.apps[r.id], "absent")
          BY <3>5 DEF Edited
        <5>3. QED BY <5>1, <5>2
      <4>2. doc.apps[r.id].verification = "none" /\ doc.apps[r.id] \in Application
        BY <3>1, <3>3, <3>5, <4>1 DEF Allowed, AwaitingVerification
      <4>3. doc'.apps[r.id].verification = "absent" /\ doc'.apps[r.id].ip = host
        BY <4>1, <4>2 DEF Verdict, Application
      <4>4. /\ FakeApplications(doc', host) = FakeApplications(doc, host) \cup {r.id}
            /\ r.id \notin FakeApplications(doc, host)
        BY <4>1, <4>2, <4>3 DEF FakeApplications
      <4>5. \A ip \in IPs \ {host} : FakeApplications(doc', ip) = FakeApplications(doc, ip)
        BY <4>1, <4>2, <4>3 DEF FakeApplications
      <4>6. host \in IPs /\ doc.fakes \in [IPs -> Nat]
        BY <3>2, <4>2 DEF Application, IsDocument
      <4>7. Cardinality(FakeApplications(doc', host))
              = Cardinality(FakeApplications(doc, host)) + 1
        BY <3>4, <4>4, <4>6, FS_AddElement
      <4> HIDE DEF host
      <4>8. QED BY <1>2, <4>1, <4>5, <4>6, <4>7 DEF FakeCountExact
    <3>6. CASE ~ (r.op = "verify" /\ r.outcome = "absent")
      <4>1. doc'.fakes = doc.fakes BY <3>1, <3>2, <3>6, EffectParts
      <4>2. ASSUME NEW ip \in IPs
            PROVE  FakeApplications(doc', ip) = FakeApplications(doc, ip)
        <5>1. CASE r.op = "create"
          <6>1. /\ r.id \notin Ids(doc) /\ Ids(doc') = Ids(doc) \cup {r.id}
                /\ doc'.apps[r.id].verification = "none"
                /\ \A i \in Ids(doc) : doc'.apps[i] = doc.apps[i]
            BY <3>1, <3>2, <5>1, EffectParts
          <6>2. QED BY <6>1 DEF FakeApplications
        <5>2. CASE r.op \in {"block", "unblock"}
          <6>1. doc'.apps = doc.apps BY <3>1, <3>2, <5>2, EffectParts
          <6>2. QED BY <6>1 DEF FakeApplications, Ids
        <5>3. CASE r.op \in {"status", "note", "delete", "verify", "bot"}
          <6>1. /\ Ids(doc') = Ids(doc) /\ r.id \in Ids(doc)
                /\ doc'.apps[r.id] = Edited(doc, r)
                /\ \A i \in Ids(doc) \ {r.id} : doc'.apps[i] = doc.apps[i]
            BY <3>1, <3>2, <5>3, EffectParts
          <6>2. r.op = "verify" => doc.apps[r.id].verification = "none"
            BY <3>1 DEF Allowed, AwaitingVerification
          <6>3. /\ doc'.apps[r.id].ip = doc.apps[r.id].ip
                /\ doc'.apps[r.id].verification = "absent"
                      <=> doc.apps[r.id].verification = "absent"
            BY <3>3, <3>6, <5>3, <6>1, <6>2 DEF Edited, Verdict, Application
          <6>4. QED BY <6>1, <6>3 DEF FakeApplications
        <5>4. QED BY <5>1, <5>2, <5>3, RequestKinds
      <4>3. QED BY <1>2, <4>1, <4>2 DEF FakeCountExact
    <3>7. QED BY <3>5, <3>6
  <2>3. QED BY <2>1, <2>2
<1>3. QED BY <1>1, <1>2, InitIInv, StepIInv, PTL DEF Spec

-----------------------------------------------------------------------------
(* The review list. *)

\* The list of the file has each record once.
Listed(d) ==
    /\ \A k \in 1..Len(d.order) : d.order[k] \in Ids(d)
    /\ \A id \in Ids(d) : \E k \in 1..Len(d.order) : d.order[k] = id
    /\ \A k, m \in 1..Len(d.order) : d.order[k] = d.order[m] => k = m

ListedOnce == Listed(doc)

\* The rows of the review list are numbered from one on without gaps and in the order
\* of the file, so that a number that is on the list names one pending application.
RowsNumbered ==
    LET P   == VisiblePending(doc)
        row == filterPendingRows(doc)
    IN  /\ \A i \in P : row[i] \in 1..Cardinality(P)
        /\ \A n \in 1..Cardinality(P) : \E i \in P : row[i] = n
        /\ \A i, j \in P : row[i] = row[j] => i = j
        /\ \A i, j \in P : Before(doc, i, j) => row[i] < row[j]

\* A submission is put before the others; no other request touches the list.
LEMMA EffectOrder ==
    ASSUME NEW d, IsDocument(d), NEW r \in Request, Allowed(d, r)
    PROVE  Effect(d, r).order = IF r.op = "create" THEN << r.id >> \o d.order ELSE d.order
<1> DEFINE e == Effect(d, r)
<1>1. CASE r.op = "create"
  <2> DEFINE new == [group |-> r.group, applicant |-> r.applicant, ip |-> r.ip,
                     status |-> "pending", verification |-> "none",
                     visible |-> TRUE, note |-> "none"]
             d1 == WithApp(d, r.id, new)
             order == << r.id >> \o d.order
  <2>1. e = [d1 EXCEPT !.order = order] BY <1>1 DEF Effect, create_application
  <2>2. new \in Application /\ r.id \in AppIds
    BY <1>1, RequestKinds DEF CreateRequest, Application, Statuses, Verifications
  <2>3. order \in Seq(AppIds) BY <2>2 DEF IsDocument
  <2> HIDE DEF new
  <2>4. IsDocument(d1) BY <2>2, WithAppType
  <2> HIDE DEF d1, order, e
  <2>5. e.order = order BY <2>1, <2>3, <2>4, WithOrderType
  <2>6. QED BY <1>1, <2>5 DEF order, e
<1>2. CASE r.op # "create"
  BY <1>2, EditEffect, IpEffect, RequestKinds
<1>3. QED BY <1>1, <1>2

\* An accepted request keeps each record on the list once.
LEMMA ListedKept ==
    ASSUME NEW d, IsDocument(d), Listed(d), NEW r \in Request, Allowed(d, r)
    PROVE  Listed(Effect(d, r))
<1> DEFINE e == Effect(d, r)
<1>1. e.order = IF r.op = "create" THEN << r.id >> \o d.order ELSE d.order BY EffectOrder
<1>2. CASE r.op = "create"
  <2>1. Ids(e) = Ids(d) \cup {r.id} /\ r.id \notin Ids(d) BY <1>2, EffectParts
  <2>2. r.id \in AppIds /\ d.order \in Seq(AppIds)
    BY <1>2, RequestKinds DEF CreateRequest, IsDocument
  <2>3. PICK n : n = Len(d.order) OBVIOUS
  <2>4. n \in Nat /\ Len(e.order) = n + 1 /\ e.order[1] = r.id
        /\ \A k \in 2..(n + 1) : e.order[k] = d.order[k - 1]
    <3>1. << r.id >> \in Seq(AppIds) /\ Len(<< r.id >>) = 1 /\ << r.id >>[1] = r.id BY <2>2
    <3>2. /\ Len(<< r.id >> \o d.order) = 1 + n
          /\ \A k \in 1..(1 + n) : (<< r.id >> \o d.order)[k] =
                 IF k <= 1 THEN << r.id >>[k] ELSE d.order[k - 1]
      BY <2>2, <2>3, <3>1, ConcatProperties
    <3>3. n \in Nat BY <2>2, <2>3
    <3> HIDE DEF e
    <3>4. QED BY <1>1, <1>2, <3>1, <3>2, <3>3
  <2> HIDE DEF e
  <2>5. /\ \A k \in 1..n : d.order[k] \in Ids(d)
        /\ \A id \in Ids(d) : \E k \in 1..n : d.order[k] = id
        /\ \A k, m \in 1..n : d.order[k] = d.order[m] => k = m
    BY <2>3 DEF Listed
  <2>6. \A k \in 1..(n + 1) : k = 1 \/ (k \in 2..(n + 1) /\ k - 1 \in 1..n) BY <2>4
  <2>7. \A k \in 1..(n + 1) : e.order[k] \in Ids(e) BY <2>1, <2>4, <2>5, <2>6
  <2>8. ASSUME NEW id \in Ids(e) PROVE \E k \in 1..(n + 1) : e.order[k] = id
    <3>1. CASE id = r.id BY <2>4, <3>1
    <3>2. CASE id # r.id
      <4>1. PICK k \in 1..n : d.order[k] = id BY <2>1, <2>5, <3>2
      <4>2. k + 1 \in 2..(n + 1) /\ (k + 1) - 1 = k /\ k + 1 \in 1..(n + 1) BY <2>4
      <4>3. e.order[k + 1] = id BY <2>4, <4>1, <4>2
      <4>4. QED BY <4>2, <4>3
    <3>3. QED BY <3>1, <3>2
  <2>9. ASSUME NEW k \in 1..(n + 1), NEW m \in 1..(n + 1), e.order[k] = e.order[m]
        PROVE  k = m
    <3>1. \A a \in 1..(n + 1) : a # 1 => e.order[a] \in Ids(d) /\ e.order[a] = d.order[a - 1]
      BY <2>4, <2>5, <2>6
    <3>2. CASE k = 1 \/ m = 1 BY <2>1, <2>4, <2>9, <3>1, <3>2
    <3>3. CASE k # 1 /\ m # 1
      <4>1. k - 1 = m - 1 BY <2>5, <2>6, <2>9, <3>1, <3>3
      <4>2. QED BY <2>4, <4>1
    <3>4. QED BY <3>2, <3>3
  <2>10. QED BY <2>4, <2>7, <2>8, <2>9 DEF Listed, e
<1>3. CASE r.op # "create"
  <2>1. Ids(e) = Ids(d)
    <3>1. CASE r.op \in {"block", "unblock"} BY <3>1, EffectParts DEF Ids
    <3>2. CASE r.op \in {"status", "note", "delete", "verify", "bot"} BY <3>2, EffectParts
    <3>3. QED BY <1>3, <3>1, <3>2, RequestKinds
  <2> HIDE DEF e
  <2>2. QED BY <1>1, <1>3, <2>1 DEF Listed, e
<1>4. QED BY <1>2, <1>3

\* Every record of the file is on its list exactly once: the review commands, which go
\* through the list, miss none and show none twice (service.py:163, command.go:270).
THEOREM RecordsListedOnce == Spec => []ListedOnce
<1>1. Init => ListedOnce BY FreshDocumentType DEF Init, ListedOnce, Listed
<1>2. ASSUME IInv, ListedOnce, [Next]_vars PROVE ListedOnce'
  <2>1. CASE doc' = doc BY <1>2, <2>1 DEF ListedOnce, Listed, Ids
  <2>2. CASE doc' # doc
    <3>1. PICK r \in Request : Allowed(doc, r) /\ doc' = Effect(doc, r)
      BY <1>2, <2>2, StepIsEffect
    <3>2. IsDocument(doc) /\ Listed(doc) BY <1>2 DEF IInv, TypeOK, ListedOnce
    <3>3. Listed(Effect(doc, r)) BY <3>1, <3>2, ListedKept
    <3>4. QED BY <3>1, <3>3 DEF ListedOnce
  <2>3. QED BY <2>1, <2>2
<1>3. QED BY <1>1, <1>2, InitIInv, StepIInv, PTL DEF Spec

\* The rows of a document whose list has each record once.
LEMMA RowsOfListed ==
    ASSUME IsDocument(doc), ListedOnce
    PROVE  RowsNumbered
<1> DEFINE P     == VisiblePending(doc)
           row   == filterPendingRows(doc)
           Up(i) == {j \in P : j = i \/ Before(doc, j, i)}
<1>1. PICK n : n = Len(doc.order) OBVIOUS
<1>2. n \in Nat BY <1>1 DEF IsDocument
<1>3. /\ \A id \in Ids(doc) : \E k \in 1..n : doc.order[k] = id
      /\ \A k, m \in 1..n : doc.order[k] = doc.order[m] => k = m
  BY <1>1 DEF ListedOnce, Listed
<1>4. P \subseteq Ids(doc) /\ IsFiniteSet(P)
  BY FS_Subset, DocumentAssumption DEF VisiblePending, IsDocument
<1>5. \A i, j : Before(doc, i, j) <=>
                  \E k, m \in 1..n : k < m /\ doc.order[k] = i /\ doc.order[m] = j
  BY <1>1 DEF Before
<1>6. \A i \in P : row[i] = Cardinality(Up(i)) BY DEF filterPendingRows
<1>7. ASSUME NEW i \in P, NEW j \in P, Before(doc, i, j) PROVE row[i] < row[j]
  <2>1. PICK k \in 1..n, m \in 1..n : k < m /\ doc.order[k] = i /\ doc.order[m] = j
    BY <1>5, <1>7
  <2>2. ~ Before(doc, j, i) /\ i # j BY <1>2, <1>3, <1>5, <2>1
  <2>3. ASSUME NEW x, Before(doc, x, i) PROVE Before(doc, x, j)
    <3>1. PICK a \in 1..n, b \in 1..n : a < b /\ doc.order[a] = x /\ doc.order[b] = i
      BY <1>5, <2>3
    <3>2. b = k BY <1>3, <2>1, <3>1
    <3>3. a < m BY <1>2, <2>1, <3>1, <3>2
    <3>4. QED BY <1>5, <2>1, <3>1, <3>3
  <2>4. Up(i) \in SUBSET Up(j) /\ j \in Up(j) /\ j \notin Up(i)
    BY <1>7, <2>2, <2>3
  <2>5. IsFiniteSet(Up(j)) BY <1>4, FS_Subset
  <2> HIDE DEF Up, P
  <2>6. IsFiniteSet(Up(i)) /\ Cardinality(Up(i)) <= Cardinality(Up(j))
        /\ Cardinality(Up(i)) # Cardinality(Up(j))
    BY <2>4, <2>5, FS_Subset
  <2>7. Cardinality(Up(i)) \in Nat /\ Cardinality(Up(j)) \in Nat
    BY <2>5, <2>6, FS_CardinalityType
  <2>8. QED BY <1>6, <2>6, <2>7
<1>8. ASSUME NEW i \in P, NEW j \in P, i # j PROVE Before(doc, i, j) \/ Before(doc, j, i)
  <2>1. PICK k \in 1..n, m \in 1..n : doc.order[k] = i /\ doc.order[m] = j
    BY <1>3, <1>4
  <2>2. k < m \/ m < k BY <1>2, <1>8, <2>1
  <2>3. QED BY <1>5, <2>1, <2>2
<1>9. Cardinality(P) \in Nat BY <1>4, FS_CardinalityType
<1>10. ASSUME NEW i \in P PROVE row[i] \in 1..Cardinality(P)
  <2>1. Up(i) \in SUBSET P /\ i \in Up(i) BY <1>10
  <2> HIDE DEF Up, P
  <2>2. IsFiniteSet(Up(i)) /\ Cardinality(Up(i)) <= Cardinality(P)
    BY <1>4, <2>1, FS_Subset
  <2>3. Cardinality(Up(i)) \in Nat /\ Cardinality(Up(i)) # 0
    BY <2>1, <2>2, FS_CardinalityType, FS_EmptySet
  <2>4. QED BY <1>6, <1>9, <2>2, <2>3
<1>11. ASSUME NEW i \in P, NEW j \in P, row[i] = row[j] PROVE i = j
  <2>1. SUFFICES ASSUME i # j PROVE FALSE OBVIOUS
  <2>2. row[i] < row[j] \/ row[j] < row[i] BY <1>7, <1>8, <2>1
  <2> HIDE DEF row
  <2>3. row[i] \in Nat /\ row[j] \in Nat BY <1>9, <1>10
  <2>4. QED BY <1>11, <2>2, <2>3
<1>12. ASSUME NEW m \in 1..Cardinality(P) PROVE \E i \in P : row[i] = m
  <2>1. row = [i \in P |-> row[i]] BY DEF filterPendingRows
  <2> DEFINE T == 1..Cardinality(P)
  <2> HIDE DEF row, P
  <2>2. IsFiniteSet(T) /\ Cardinality(T) = Cardinality(P) BY <1>9, FS_Interval
  <2>3. row \in [P -> T] BY <1>10, <2>1
  <2>4. row \in Injection(P, T) BY <1>11, <2>3 DEF Injection, IsInjective
  <2>5. row \in Surjection(P, T) BY <2>2, <2>4, FS_Injection
  <2>6. QED BY <2>5 DEF Surjection
<1>13. QED
  <2> HIDE DEF row, P
  <2>1. QED BY <1>7, <1>10, <1>11, <1>12 DEF RowsNumbered, row, P

\* A row number that the review list shows names one pending application, and every
\* pending application has a number (filterPendingRows and resolveAppID, command.go:270-300):
\* deleted, decided and reopened records leave no gap.
THEOREM RowsNameOne == Spec => []RowsNumbered
<1>1. IInv /\ ListedOnce => RowsNumbered BY RowsOfListed DEF IInv, TypeOK
<1>2. QED BY <1>1, RecordsListedOnce, InitIInv, StepIInv, PTL DEF Spec

-----------------------------------------------------------------------------
(* Without liveness: what EveryRequestEnds and WhitelistConverges rest on. *)

\* As long as no program has crashed, a lock file that exists is that of a thread in
\* its critical section, which will remove it: no path out of the section, a refusal
\* or an error of the write included, leaves it behind.
LockOwned == lock /\ crashes = 0 => \E t \in Threads : pc[t] \in Critical

\* How far a thread is from the end of its request.
Left(p) == IF p = "ask"     THEN 7 ELSE
           IF p = "acquire" THEN 6 ELSE
           IF p = "load"    THEN 5 ELSE
           IF p = "merge"   THEN 4 ELSE
           IF p = "write"   THEN 3 ELSE
           IF p \in {"written", "release"} THEN 2 ELSE
           IF p = "notify"  THEN 1 ELSE 0

\* Whatever another thread, a crash or the operator does, a thread with a request does
\* not go back; its own steps bring it nearer to the end.
RequestNearer ==
    \A t \in Threads : pc[t] # "idle" =>
        /\ pc'[t] = pc[t] \/ Left(pc'[t]) < Left(pc[t])
        /\ ThreadStep(t) => pc'[t] # pc[t]

\* Records are never taken out of the file, so that a file without records is one that
\* never had any, and the set that a refresh keeps then is empty.
KeptIsEmpty == Ids(doc) = {} => whitelist = {}

\* A refresh makes the set of applicants that of the file, and it stays that set as long
\* as the file stays as it is.
WhitelistSettles ==
    /\ RefreshWhitelist => whitelist' = ApprovedApplicants(doc)
    /\ doc' = doc /\ whitelist = ApprovedApplicants(doc) => whitelist' = whitelist

\* The steps of a thread that has a request: what another does leaves it alone, unless
\* its program crashes.
LEMMA ThreadMoves ==
    ASSUME TypeOK, [Next]_vars, NEW t \in Threads, pc[t] # "idle"
    PROVE  \/ pc'[t] = pc[t]
           \/ pc[t] = "ask" /\ pc'[t] = "acquire"
           \/ pc[t] = "acquire" /\ pc'[t] \in {"load", "idle"}
           \/ pc[t] = "load" /\ pc'[t] \in {"merge", "write", "release"}
           \/ pc[t] = "merge" /\ pc'[t] = "write"
           \/ pc[t] = "write" /\ pc'[t] \in {"written", "release"}
           \/ pc[t] \in {"written", "release"} /\ pc'[t] \in {"notify", "idle"} /\ lock' = FALSE
           \/ pc[t] = "notify" /\ pc'[t] = "idle"
           \/ pc'[t] = "idle" /\ crashes' = crashes + 1
<1> USE DEF Goto, Finish, Accept
<1>1. DOMAIN pc = Threads BY DEF TypeOK
<1>2. CASE ThreadStep(t)
  BY <1>1, <1>2 DEF ThreadStep, verifyGroup, AcquireFsLock, AcquireFails, Load, Merge, Write,
                    WriteFails, ReleaseFsLock, NotifyOnebot
<1>3. ASSUME NEW u \in Threads, ThreadStep(u) PROVE pc'[t] = pc[t] \/ u = t
  BY <1>1, <1>3 DEF ThreadStep, verifyGroup, AcquireFsLock, AcquireFails, Load, Merge, Write,
                    WriteFails, ReleaseFsLock, NotifyOnebot
<1>4. ASSUME \E u \in PyThreads : Submit(u) PROVE pc'[t] = pc[t]
  BY <1>1, <1>4 DEF Submit
<1>5. ASSUME NEW u \in GoThreads,
             \/ \E id \in AppIds : HandleNotify(u, id)
             \/ \E n, to : HandleByIndex(u, n, to)
             \/ \E id, to : HandleById(u, id, to)
      PROVE  pc'[t] = pc[t]
  BY <1>1, <1>5 DEF HandleNotify, HandleByIndex, HandleById
<1>6. ASSUME NEW P, Crash(P)
      PROVE  pc'[t] = pc[t] \/ (pc'[t] = "idle" /\ crashes' = crashes + 1)
  BY <1>6 DEF Crash
<1>7. ASSUME (\E id \in AppIds : RepeatNotice(id)) \/ RefreshWhitelist \/ OperatorUnlock \/ UNCHANGED vars
      PROVE  pc'[t] = pc[t]
  BY <1>7 DEF RepeatNotice, RefreshWhitelist, OperatorUnlock, vars
<1>8. QED BY <1>2, <1>3, <1>4, <1>5, <1>6, <1>7 DEF Next

\* Which step creates the lock file, and which steps count a crash.
LEMMA LockWritten ==
    ASSUME TypeOK, [Next]_vars
    PROVE  /\ lock' => lock \/ \E t \in Threads : AcquireFsLock(t)
           /\ crashes' = crashes \/ crashes' = crashes + 1
<1> USE DEF ThreadStep, verifyGroup, AcquireFails, Load, Merge, Write, WriteFails,
            ReleaseFsLock, NotifyOnebot, Submit, RepeatNotice, HandleNotify, HandleByIndex,
            HandleById, RefreshWhitelist, Crash, OperatorUnlock, Accept, Next, vars
<1>1. ASSUME lock', ~ lock PROVE \E t \in Threads : AcquireFsLock(t) BY <1>1
<1>2. crashes' = crashes \/ crashes' = crashes + 1 BY DEF AcquireFsLock
<1>3. QED BY <1>1, <1>2

\* The set of applicants is kept or read from the file.
LEMMA WhitelistWritten ==
    ASSUME [Next]_vars
    PROVE  whitelist' = whitelist \/ whitelist' = ApprovedApplicants(doc)
BY DEF ThreadStep, verifyGroup, AcquireFsLock, AcquireFails, Load, Merge, Write, WriteFails,
       ReleaseFsLock, NotifyOnebot, Submit, RepeatNotice, HandleNotify, HandleByIndex,
       HandleById, RefreshWhitelist, Crash, OperatorUnlock, Next, vars

\* Only a crash leaves the lock file behind.
THEOREM LockIsOwned == Spec => []LockOwned
<1>1. Init => LockOwned BY DEF Init, LockOwned
<1>2. ASSUME IInv, LockOwned, [Next]_vars PROVE LockOwned'
  <2> SUFFICES ASSUME lock', crashes' = 0 PROVE \E t \in Threads : pc'[t] \in Critical
    BY DEF LockOwned
  <2>1. TypeOK BY <1>2 DEF IInv
  <2>2. crashes = 0 /\ crashes' # crashes + 1 BY <1>2, <2>1, LockWritten DEF TypeOK
  <2>3. ASSUME NEW t \in Threads, AcquireFsLock(t) PROVE pc'[t] \in Critical
    BY <2>1, <2>3 DEF AcquireFsLock, Goto, Critical, TypeOK
  <2>4. CASE lock
    <3>1. PICK t \in Threads : pc[t] \in Critical BY <1>2, <2>2, <2>4 DEF LockOwned
    <3>2. QED BY <1>2, <2>1, <2>2, <3>1, ThreadMoves DEF Critical
  <2>5. QED BY <1>2, <2>1, <2>3, <2>4, LockWritten
<1>3. QED BY <1>1, <1>2, InitIInv, StepIInv, PTL DEF Spec

\* A thread with a request takes steps towards its end only, and every step it takes is
\* one: it is refused the lock file, or leaves the critical section, but does not try again.
THEOREM RequestsAdvance == Spec => [][RequestNearer]_vars
<1>1. TypeOK /\ [Next]_vars => [RequestNearer]_vars
  <2> SUFFICES ASSUME TypeOK, [Next]_vars, NEW t \in Threads, pc[t] # "idle"
               PROVE  /\ pc'[t] = pc[t] \/ Left(pc'[t]) < Left(pc[t])
                      /\ ThreadStep(t) => pc'[t] # pc[t]
    BY DEF RequestNearer
  <2>1. pc[t] \in Critical \cup {"ask", "acquire", "notify"} BY DEF TypeOK
  <2>2. pc'[t] = pc[t] \/ Left(pc'[t]) < Left(pc[t])
    <3>1. PICK p, q : p = pc[t] /\ q = pc'[t] OBVIOUS
    <3>2. \/ q = p \/ q = "idle"
          \/ p = "ask" /\ q = "acquire"
          \/ p = "acquire" /\ q = "load"
          \/ p = "load" /\ q \in {"merge", "write", "release"}
          \/ p = "merge" /\ q = "write"
          \/ p = "write" /\ q \in {"written", "release"}
          \/ p \in {"written", "release"} /\ q = "notify"
      BY <3>1, ThreadMoves
    <3>3. QED BY <2>1, <3>1, <3>2 DEF Left, Critical
  <2>3. ASSUME ThreadStep(t) PROVE pc'[t] # pc[t]
    <3>1. DOMAIN pc = Threads BY DEF TypeOK
    <3>2. QED BY <2>3, <3>1 DEF ThreadStep, verifyGroup, AcquireFsLock, AcquireFails, Load, Merge,
                    Write, WriteFails, ReleaseFsLock, NotifyOnebot, Goto, Finish
  <2>4. QED BY <2>2, <2>3
<1>2. QED BY <1>1, TypeCorrect, PTL DEF Spec

\* What the gateway keeps while the file has no records is nothing.
THEOREM NothingKept == Spec => []KeptIsEmpty
<1>1. Init => KeptIsEmpty BY DEF Init, KeptIsEmpty
<1>2. ASSUME IInv, KeptIsEmpty, [Next]_vars PROVE KeptIsEmpty'
  <2> SUFFICES ASSUME Ids(doc') = {} PROVE whitelist' = {} BY DEF KeptIsEmpty
  <2>1. Ids(doc) = {}
    <3>1. CASE doc' = doc BY <3>1
    <3>2. CASE doc' # doc
      <4>1. PICK r \in Request : Allowed(doc, r) /\ doc' = Effect(doc, r)
        BY <1>2, <3>2, StepIsEffect
      <4>2. IsDocument(doc) BY <1>2 DEF IInv, TypeOK
      <4>3. CASE r.op = "create" BY <4>1, <4>2, <4>3, EffectParts
      <4>4. CASE r.op \in {"status", "note", "delete", "verify", "bot"}
        BY <4>1, <4>2, <4>4, EffectParts
      <4>5. CASE r.op \in {"block", "unblock"} BY <4>1, <4>2, <4>5, EffectParts DEF Ids
      <4>6. QED BY <4>3, <4>4, <4>5, RequestKinds
    <3>3. QED BY <3>1, <3>2
  <2>2. whitelist = {} /\ ApprovedApplicants(doc) = {}
    BY <1>2, <2>1 DEF KeptIsEmpty, ApprovedApplicants
  <2>3. whitelist' = whitelist \/ whitelist' = ApprovedApplicants(doc)
    BY <1>2, WhitelistWritten
  <2>4. QED BY <2>2, <2>3
<1>3. QED BY <1>1, <1>2, InitIInv, StepIInv, PTL DEF Spec

\* The whitelist is right from the first refresh on after which the file does not change.
THEOREM WhitelistIsSettled == Spec => [][WhitelistSettles]_vars
<1>1. IInv /\ KeptIsEmpty /\ [Next]_vars => [WhitelistSettles]_vars
  <2> SUFFICES ASSUME KeptIsEmpty, [Next]_vars PROVE WhitelistSettles OBVIOUS
  <2>1. ASSUME RefreshWhitelist PROVE whitelist' = ApprovedApplicants(doc)
    <3>1. Ids(doc) = {} => ApprovedApplicants(doc) = {} BY DEF ApprovedApplicants
    <3>2. QED BY <2>1, <3>1 DEF RefreshWhitelist, KeptIsEmpty
  <2>2. QED BY <2>1, WhitelistWritten DEF WhitelistSettles
<1>2. QED BY <1>1, InitIInv, StepIInv, NothingKept, PTL DEF Spec
=============================================================================
