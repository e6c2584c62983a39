----------------------------- MODULE Businesses -----------------------------
(***************************************************************************)
(* The businesses table and the requests that change it                    *)
(* (service/business.rs, service/admin.rs, the business repositories).     *)
(* A handler is a sequence of awaited single SQL statements, with no       *)
(* transaction around them: it reads a row, changes its private copy, and  *)
(* writes every column of the copy back.  An action is the code between    *)
(* two awaits.  At any await the request may end: the timeout layer, a     *)
(* client that disconnects, a database error, a crash (Abandon).           *)
(* Texts are left out; a nullable column is TRUE when it is set.           *)
(***************************************************************************)
CONSTANTS
  Users,        \* accounts that own businesses
  Admins,       \* administrator accounts
  Bids,         \* ids of businesses
  Nipts,        \* tax numbers
  Requests,     \* requests the server can be serving at one time
  None          \* SQL NULL, and "no such row"

VARIABLES
  business,     \* the table: id -> row, or None
  req,          \* the request in each slot, or Idle
  verdicts,     \* history: the decisions administrators have committed
  outbox        \* mails handed to the durable queue, by kind and business

vars == <<business, req, verdicts, outbox>>

Statuses == {"pending", "approved", "rejected", "suspended"}
Verdicts == {"approved", "rejected", "suspended"}
MailKinds == {"submitted", "approved", "rejected"}
Ops == {"create", "edit", "approve", "reject", "suspend"}

Row == [owner : Users, nipt : Nipts, status : Statuses,
        reason : BOOLEAN, approved_at : BOOLEAN, approved_by : Admins \cup {None}]

\* NULL is no administrator, no mail and no row.
ASSUME NoneIsNoValue == None \notin Admins \cup MailKinds \cup Row

\* stale is history: another request has written the row since this one read it.
Idle == [stage |-> "idle"]
InFlight == [stage : {"write", "mail"}, op : Ops, id : Bids, row : Row,
             mail : MailKinds \cup {None}, stale : BOOLEAN]
Mail == [kind : MailKinds, id : Bids]

TypeOK ==
  /\ business \in [Bids -> Row \cup {None}]
  /\ req \in [Requests -> InFlight \cup {Idle}]
  /\ verdicts \in SUBSET (Bids \X Verdicts)
  /\ outbox \in SUBSET Mail

Init ==
  /\ business = [b \in Bids |-> None]
  /\ req = [r \in Requests |-> Idle]
  /\ verdicts = {}
  /\ outbox = {}

-----------------------------------------------------------------------------
\* The changes the handlers make to their copy of the row.
Fresh(u, n) ==
  [owner |-> u, nipt |-> n, status |-> "pending",
   reason |-> FALSE, approved_at |-> FALSE, approved_by |-> None]

\* Mutant: every edit submits the business again.
EditedResubmits(row) == [row EXCEPT !.status = "pending", !.reason = FALSE]

\* Mutant: the resubmission restores an approval.
EditedApproves(row) ==
  IF row.status = "rejected"
    THEN [row EXCEPT !.status = "approved", !.reason = FALSE]
    ELSE row

Edited(row) ==
  IF row.status = "rejected"
    THEN [row EXCEPT !.status = "pending", !.reason = FALSE]
    ELSE row

Approved(row, a) ==
  [row EXCEPT !.status = "approved", !.reason = FALSE,
              !.approved_at = TRUE, !.approved_by = a]

\* Mutant: the stamp of an earlier approval is not cleared.
RejectedKeepsStamp(row) == [row EXCEPT !.status = "rejected", !.reason = TRUE]

Rejected(row) ==
  [row EXCEPT !.status = "rejected", !.reason = TRUE,
              !.approved_at = FALSE, !.approved_by = None]

Suspended(row) == [row EXCEPT !.status = "suspended"]

-----------------------------------------------------------------------------
\* Mutant: the mail is queued before the row is written.
LoadThenNotify(r, operation, b, copy, kind) ==
  /\ req[r] = Idle
  /\ req' = [req EXCEPT ![r] = [stage |-> "write", op |-> operation, id |-> b,
                                row |-> copy, mail |-> kind, stale |-> FALSE]]
  /\ outbox' = outbox \cup {m \in Mail : m.kind = kind /\ m.id = b}
  /\ UNCHANGED <<business, verdicts>>

Load(r, operation, b, copy, kind) ==
  /\ req[r] = Idle
  /\ req' = [req EXCEPT ![r] = [stage |-> "write", op |-> operation, id |-> b,
                                row |-> copy, mail |-> kind, stale |-> FALSE]]
  /\ UNCHANGED <<business, verdicts, outbox>>

\* An id drawn by Uuid::now_v7 names no row, and no row about to be inserted.
Unused(b) ==
  /\ business[b] = None
  /\ \A r \in Requests : req[r] # Idle => req[r].id # b

\* BusinessService::create up to the insert: no row may hold the NIPT yet.
CheckNipt(r, u, n, b) ==
  /\ Unused(b)
  /\ \A c \in Bids : business[c] # None => business[c].nipt # n
  /\ Load(r, "create", b, Fresh(u, n), "submitted")

\* BusinessService::update up to the write; only the owner passes.
LoadForEdit(r, u, b) ==
  /\ business[b] # None
  /\ business[b].owner = u
  /\ Load(r, "edit", b, Edited(business[b]),
          IF business[b].status = "rejected" THEN "submitted" ELSE None)

LoadForApproval(r, a, b) ==
  /\ business[b] # None
  /\ Load(r, "approve", b, Approved(business[b], a), "approved")

LoadForRejection(r, b) ==
  /\ business[b] # None
  /\ Load(r, "reject", b, Rejected(business[b]), "rejected")

LoadForSuspension(r, b) ==
  /\ business[b] # None
  /\ Load(r, "suspend", b, Suspended(business[b]), None)

\* The unique index on nipt decides between two creations that both passed
\* the check: the later insert fails and the request ends with a conflict.
NiptNotIndexed(n) == n \in Nipts      \* mutant: no unique index

NiptFree(n) == \A c \in Bids : business[c] # None => business[c].nipt # n

Insert(r) ==
  /\ req[r] # Idle
  /\ req[r].stage = "write"
  /\ req[r].op = "create"
  /\ \/ /\ NiptFree(req[r].row.nipt)
        /\ business' = [business EXCEPT ![req[r].id] = req[r].row]
        /\ req' = [req EXCEPT ![r].stage = "mail"]
     \/ /\ ~NiptFree(req[r].row.nipt)
        /\ req' = [req EXCEPT ![r] = Idle]
        /\ UNCHANGED business
  /\ UNCHANGED <<verdicts, outbox>>

Verdict(operation) ==
  CASE operation = "approve" -> {"approved"}
    [] operation = "reject"  -> {"rejected"}
    [] operation = "suspend" -> {"suspended"}
    [] OTHER -> {}

\* The row was written: the request goes on as next, and the copies that others
\* read before are out of date.
WroteRow(r, next) ==
  req' = [q \in Requests |->
            IF q = r THEN next
            ELSE IF req[q] # Idle /\ req[q].id = req[r].id THEN [req[q] EXCEPT !.stale = TRUE]
            ELSE req[q]]

\* Mutant: every update goes on to queue a mail.
UpdateThenMail(r) ==
  /\ req[r] # Idle
  /\ req[r].stage = "write"
  /\ req[r].op # "create"
  /\ business' = [business EXCEPT ![req[r].id] = req[r].row]
  /\ verdicts' = verdicts \cup ({req[r].id} \X Verdict(req[r].op))
  /\ WroteRow(r, [req[r] EXCEPT !.stage = "mail"])
  /\ UNCHANGED outbox

\* UPDATE businesses SET <every column> WHERE id: nothing compares the row
\* with the one that was read.
Update(r) ==
  /\ req[r] # Idle
  /\ req[r].stage = "write"
  /\ req[r].op # "create"
  /\ business' = [business EXCEPT ![req[r].id] = req[r].row]
  /\ verdicts' = verdicts \cup ({req[r].id} \X Verdict(req[r].op))
  /\ WroteRow(r, IF req[r].mail = None THEN Idle ELSE [req[r] EXCEPT !.stage = "mail"])
  /\ UNCHANGED outbox

\* The mail to the owner is queued last, by a statement of its own.
QueueMail(r) ==
  /\ req[r] # Idle
  /\ req[r].stage = "mail"
  /\ outbox' = outbox \cup {[kind |-> req[r].mail, id |-> req[r].id]}
  /\ req' = [req EXCEPT ![r] = Idle]
  /\ UNCHANGED <<business, verdicts>>

\* The future of the request is dropped at an await, or a statement fails.
Abandon(r) ==
  /\ req[r] # Idle
  /\ req' = [req EXCEPT ![r] = Idle]
  /\ UNCHANGED <<business, verdicts, outbox>>

Next ==
  \E r \in Requests :
    \/ \E u \in Users, b \in Bids, n \in Nipts : CheckNipt(r, u, n, b)
    \/ \E u \in Users, b \in Bids : LoadForEdit(r, u, b)
    \/ \E a \in Admins, b \in Bids : LoadForApproval(r, a, b)
    \/ \E b \in Bids : LoadForRejection(r, b)
    \/ \E b \in Bids : LoadForSuspension(r, b)
    \/ Insert(r)
    \/ Update(r)
    \/ QueueMail(r)
    \/ Abandon(r)

Spec == Init /\ [][Next]_vars

-----------------------------------------------------------------------------
Coherent(row) ==
  /\ row.approved_at <=> row.approved_by # None
  /\ row.status = "pending"  => ~row.reason /\ ~row.approved_at
  /\ row.status = "approved" => ~row.reason /\ row.approved_at
  /\ row.status = "rejected" => row.reason /\ ~row.approved_at
  /\ row.status = "suspended" => ~(row.reason /\ row.approved_at)

\* The status, the rejection reason and the approval stamp of a stored row
\* agree, whatever requests overlapped: the handlers lose each other's updates,
\* but a write carries all of these columns (business repositories, update).
RowsCoherent == \A b \in Bids : business[b] # None => Coherent(business[b])

\* Two businesses never share a NIPT although create checks it and inserts in
\* two statements (service/business.rs:29-55, idx_businesses_nipt).
NiptUnique ==
  \A b, c \in Bids :
    b # c /\ business[b] # None /\ business[c] # None
      => business[b].nipt # business[c].nipt

\* A status that only an administrator gives is one that an administrator did
\* give to this very business, even when stale rows are written back.
StatusWasDecided ==
  \A b \in Bids :
    business[b] # None /\ business[b].status # "pending"
      => <<b, business[b].status>> \in verdicts

\* A decision stands until the next one: only a committed decision changes the
\* status of a business, or the owner's edit that submits a rejected one again
\* (service/business.rs:115-119), unless the row that is written was read before
\* another request wrote it.
DecisionsStand ==
  [][\A b \in Bids : business[b] # None /\ business'[b].status # business[b].status =>
       \/ business[b].status = "rejected" /\ business'[b].status = "pending"
       \/ \E r \in Requests :
            /\ Update(r) /\ req[r].id = b
            /\ req[r].stale \/ business'[b].status \in Verdict(req[r].op)]_vars

\* The owner is told of an approval or a rejection only after it was stored
\* (service/admin.rs:68-103: the mail is queued after the update).
MailFollowsDecision ==
  \A m \in outbox : m.kind # "submitted" => <<m.id, m.kind>> \in verdicts

\* The table implements what Approval promises to the rest of the platform.
Promise ==
  INSTANCE Approval WITH
    standing <- [b \in Bids |-> IF business[b] = None THEN "absent"
                                                      ELSE business[b].status],
    vetted   <- {b \in Bids : <<b, "approved">> \in verdicts}

KeepsPromise == Promise!ApprovalSpec
=============================================================================
