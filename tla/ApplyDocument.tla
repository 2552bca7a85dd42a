---------------------------- MODULE ApplyDocument ----------------------------
(***************************************************************************)
(* The document applications.json and what one operation does to it.       *)
(* Two programs edit the file: the Flask backend                           *)
(* (Nenebot_tools/apply/service.py) and the OneBot gateway                 *)
(* (OneBotFilter/src/apply/notify.go, command.go).  This module is pure:   *)
(* a request, when the code accepts it, and the document it produces.      *)
(*                                                                         *)
(* Free text (purpose, nickname, group name, time stamps) is left out; the *)
(* admin note keeps only who wrote it last.                                *)
(***************************************************************************)
EXTENDS Integers, Sequences, FiniteSets

CONSTANTS AppIds,      \* identifiers secrets.token_hex may draw
          Groups,      \* group numbers applied for
          Applicants,  \* QQ numbers of applicants
          IPs,         \* client addresses
          FakeLimit    \* fake applications that block an address: 3 in the code

ASSUME DocumentAssumption == /\ IsFiniteSet(AppIds)
                             /\ FakeLimit \in Nat \ {0}

Statuses == {"pending", "approved", "rejected"}

\* "none" until HandleNotify stores Verified; then what verifyGroup answered.
Verifications == {"none", "exists", "unverifiable", "absent"}

Application == [group : Groups, applicant : Applicants, ip : IPs,
                status : Statuses, verification : Verifications,
                visible : BOOLEAN, note : {"none", "admin", "system"}]

\* The records of the file by id, their order (newest first), and the meta part.  The
\* key ip_blacklist may be missing (a file the backend has begun), hold null (what the
\* gateway's nil slice becomes in JSON) or a list, the members of which are blacklist.
Forms == {"missing", "null", "list"}

Ids(d) == DOMAIN d.apps

IsDocument(d) ==
    /\ d = [apps |-> d.apps, order |-> d.order,
            fakes |-> d.fakes, blacklist |-> d.blacklist, form |-> d.form]
    /\ Ids(d) \subseteq AppIds
    /\ d.apps \in [Ids(d) -> Application]
    /\ d.order \in Seq(AppIds)
    /\ d.fakes \in [IPs -> Nat]
    /\ d.blacklist \subseteq IPs
    /\ d.form \in Forms
    /\ d.form # "list" => d.blacklist = {}

EmptyDocument == [apps |-> [id \in {} |-> {}], order |-> << >>,
                  fakes |-> [ip \in IPs |-> 0], blacklist |-> {}, form |-> "missing"]

\* No records yet: no file, or one in which an address was blocked and unblocked.
FreshDocuments == {EmptyDocument, [EmptyDocument EXCEPT !.form = "list"]}

-----------------------------------------------------------------------------
(* Requests, with the parameters the handler is called with. *)

CreateRequest == [op : {"create"}, id : AppIds, group : Groups,
                  applicant : Applicants, ip : IPs]
StatusRequest == [op : {"status"}, id : AppIds, to : Statuses]
NoteRequest   == [op : {"note", "delete"}, id : AppIds]
IpRequest     == [op : {"block", "unblock"}, ip : IPs]
VerifyRequest == [op : {"verify"}, id : AppIds,
                  outcome : Verifications \ {"none"}]
BotRequest    == [op : {"bot"}, id : AppIds, to : {"approved", "rejected"}]

PyRequest == CreateRequest \cup StatusRequest \cup NoteRequest \cup IpRequest
GoRequest == VerifyRequest \cup BotRequest
Request   == PyRequest \cup GoRequest

-----------------------------------------------------------------------------
(* Helpers of the two programs. *)

VisiblePending(d) ==
    {id \in Ids(d) : d.apps[id].status = "pending" /\ d.apps[id].visible}

_has_visible_pending_group(d, g) ==
    \E id \in VisiblePending(d) : d.apps[id].group = g

Before(d, i, j) ==
    \E m, n \in 1..Len(d.order) : m < n /\ d.order[m] = i /\ d.order[n] = j

\* The rows of the review list, in file order: the row of each application.
filterPendingRows(d) ==
    [id \in VisiblePending(d) |->
        Cardinality({j \in VisiblePending(d) : j = id \/ Before(d, j, id)})]

\* Applicants the gateway lets in: approved, not deleted.
ApprovedApplicants(d) ==
    {d.apps[id].applicant :
        id \in {i \in Ids(d) : d.apps[i].status = "approved" /\ d.apps[i].visible}}

AwaitingVerification(d, id) ==
    /\ id \in Ids(d)
    /\ d.apps[id].status = "pending"
    /\ d.apps[id].verification = "none"

FakeApplications(d, ip) ==
    {id \in Ids(d) : d.apps[id].ip = ip /\ d.apps[id].verification = "absent"}

-----------------------------------------------------------------------------
(* Allowed(d, r): the handler of r, looking at d, decides to write.  Asking whether an *)
(* address is in a list that is null raises a TypeError in the backend.             *)

\* is_ip_blocked, for the caller that goes on: it answers, and answers no.
NotBlocked(d, ip) == d.form # "null" /\ ip \notin d.blacklist

\* Mutant: the group is looked up before the lock is taken, and not again.
MayCreateUnchecked(d, r) == r.id \notin Ids(d)

MayCreate(d, r) ==
    /\ r.id \notin Ids(d)
    /\ ~ _has_visible_pending_group(d, r.group)

MayUpdateStatus(d, r) ==
    /\ r.id \in Ids(d)
    /\ d.apps[r.id].visible
    /\ (r.to = "pending") # (d.apps[r.id].status = "pending")

\* Mutant: the bot command reviews whatever it finds.
MayReviewAny(d, r) == r.id \in Ids(d)

\* The bot command looks at the status only: a deleted record can be reviewed.
MayReviewByBot(d, r) ==
    /\ r.id \in Ids(d)
    /\ d.apps[r.id].status = "pending"

Allowed(d, r) ==
    CASE r.op = "create"            -> MayCreate(d, r)
      [] r.op = "status"            -> MayUpdateStatus(d, r)
      [] r.op \in {"note","delete"} -> r.id \in Ids(d)
      [] r.op = "block"             -> d.form # "null" /\ r.ip \notin d.blacklist
      [] r.op = "unblock"           -> d.form # "null" /\ r.ip \in d.blacklist
      [] r.op = "verify"            -> AwaitingVerification(d, r.id)
      [] r.op = "bot"               -> MayReviewByBot(d, r)

-----------------------------------------------------------------------------
(* Effect(d, r): the document the handler writes. *)

\* d with the application id stored as app.
WithApp(d, id, app) ==
    [d EXCEPT !.apps = [i \in Ids(d) \cup {id} |-> IF i = id THEN app ELSE d.apps[i]]]

\* json.Unmarshal and json.Marshal of a []string: no list is nil, and nil is null.
Marshalled(form) == IF form = "missing" THEN "null" ELSE form

WithMeta(d, fakes, blacklist, form) ==
    [d EXCEPT !.fakes = fakes, !.blacklist = blacklist, !.form = form]

create_application(d, r) ==
    [WithApp(d, r.id, [group |-> r.group, applicant |-> r.applicant, ip |-> r.ip,
                       status |-> "pending", verification |-> "none",
                       visible |-> TRUE, note |-> "none"])
     EXCEPT !.order = << r.id >> \o d.order]

update_status(d, r) ==
    WithApp(d, r.id, [d.apps[r.id] EXCEPT !.status = r.to, !.note = "admin"])

review(d, r) ==
    WithMeta(update_status(d, r), d.fakes, d.blacklist, Marshalled(d.form))

update_note(d, r) == WithApp(d, r.id, [d.apps[r.id] EXCEPT !.note = "admin"])

delete_record(d, r) == WithApp(d, r.id, [d.apps[r.id] EXCEPT !.visible = FALSE])

\* Mutant: the outcome of the check ends up in the status field.
VerdictInStatus(app, outcome) ==
    [app EXCEPT !.verification = outcome, !.status = outcome]

\* The verdict, and for a group that does not exist: automatic rejection, one
\* more fake application of the address, the address blocked at FakeLimit.
Verdict(app, outcome) ==
    [app EXCEPT !.verification = outcome,
                !.status = IF outcome = "absent" THEN "rejected" ELSE @,
                !.note = IF outcome = "exists" THEN @ ELSE "system"]

\* Mutant: a group that could not be looked up counts as one that does not exist.
ChargeUnverified(d, r) ==
    LET judged == WithApp(d, r.id, Verdict(d.apps[r.id], r.outcome))
    IN IF r.outcome = "exists" THEN judged
       ELSE [judged EXCEPT !.fakes[d.apps[r.id].ip] = @ + 1]

ApplyVerdict(d, r) ==
    LET ip     == d.apps[r.id].ip
        count  == d.fakes[ip] + 1
        judged == WithApp(d, r.id, Verdict(d.apps[r.id], r.outcome))
    IN IF r.outcome # "absent"
       THEN WithMeta(judged, d.fakes, d.blacklist, Marshalled(d.form))
       ELSE IF count < FakeLimit
       THEN WithMeta(judged, [d.fakes EXCEPT ![ip] = count], d.blacklist,
                     Marshalled(d.form))
       ELSE WithMeta(judged, [d.fakes EXCEPT ![ip] = count], d.blacklist \cup {ip}, "list")

Effect(d, r) ==
    CASE r.op = "create"          -> create_application(d, r)
      [] r.op = "status"          -> update_status(d, r)
      [] r.op = "bot"             -> review(d, r)
      [] r.op = "note"            -> update_note(d, r)
      [] r.op = "delete"          -> delete_record(d, r)
      [] r.op = "block"           -> WithMeta(d, d.fakes, d.blacklist \cup {r.ip}, "list")
      [] r.op = "unblock"         -> WithMeta(d, d.fakes, d.blacklist \ {r.ip}, "list")
      [] r.op = "verify"          -> ApplyVerdict(d, r)
=============================================================================
