------------------------------ MODULE Listings ------------------------------
(***************************************************************************)
(* The jobs table, the requests that change it (service/job.rs,            *)
(* admin.rs takedown_job), the expiry sweep of the background worker and   *)
(* the two public reads.  The businesses are the environment Approval      *)
(* promises.  As in Businesses.tla an action is the code between two       *)
(* awaits, and a request works on a private copy of the row.               *)
(***************************************************************************)
EXTENDS Approval, Integers
CONSTANTS
  Users, Owner,      \* accounts, and the owner_id of each business
  Jids,              \* ids of jobs
  Requests,          \* requests the server can be serving at one time
  Forms,             \* bodies of create and update: salary fields and expires_at
  Days,              \* lengths a promotion may ask for
  PublishDays,       \* DEFAULT_PUBLISH_DURATION_DAYS
  MaxTime,           \* bound: the clock stops here
  MaxFeatured,       \* bound: no promotion beyond this instant
  None               \* SQL NULL, an absent field, and "no such row"

VARIABLES
  now,               \* the clock, in days
  job,               \* the table: id -> row, or None
  req                \* the request in each slot, or Idle

vars == <<standing, vetted, now, job, req>>

Opt(S) == S \cup {None}
JobStatuses == {"draft", "published", "closed", "expired"}
OwnerOps == {"update", "delete", "publish", "close", "promote"}
Ops == OwnerOps \cup {"create", "takedown"}

Row == [business : Bids, status : JobStatuses,
        salary_min : Opt(Nat), salary_max : Opt(Nat), salary_period : BOOLEAN,
        published_at : Opt(Nat), expires_at : Opt(Nat), featured_until : Opt(Nat),
        deleted : BOOLEAN]

Form == [salary_min : Opt(Nat), salary_max : Opt(Nat), salary_period : BOOLEAN,
         expires_at : Opt(Nat)]

ASSUME ListingsAssumption ==
  /\ None \notin Nat \cup Row
  /\ Owner \in [Bids -> Users]
  /\ Forms \subseteq Form
  /\ Days \subseteq Nat \ {0}
  /\ PublishDays \in Nat
  /\ MaxTime \in Nat

\* stale is history: another request has written the job since this one read it.
Idle == [stage |-> "idle"]
InFlight == [stage : {"business", "write"}, op : Ops, user : Opt(Users), id : Jids,
             row : Row, form : Opt(Forms), days : Opt(Days), stale : BOOLEAN]

TypeOK ==
  /\ ApprovalTypeOK
  /\ now \in Nat
  /\ job \in [Jids -> Row \cup {None}]
  /\ req \in [Requests -> InFlight \cup {Idle}]

Init ==
  /\ ApprovalInit
  /\ now = 0
  /\ job = [j \in Jids |-> None]
  /\ req = [r \in Requests |-> Idle]

-----------------------------------------------------------------------------
\* The changes the handlers make to their copy of the row.
ValidSalary(row) ==
  /\ row.salary_min # None \/ row.salary_max # None => row.salary_period
  /\ row.salary_min # None /\ row.salary_max # None => row.salary_min <= row.salary_max

\* Mutant: a new job gets the status of a new business.
PendingDraft(b, form) ==
  [business |-> b, status |-> "pending", salary_min |-> form.salary_min,
   salary_max |-> form.salary_max, salary_period |-> form.salary_period,
   published_at |-> None, expires_at |-> form.expires_at,
   featured_until |-> None, deleted |-> FALSE]

Draft(b, form) ==
  [business |-> b, status |-> "draft", salary_min |-> form.salary_min,
   salary_max |-> form.salary_max, salary_period |-> form.salary_period,
   published_at |-> None, expires_at |-> form.expires_at,
   featured_until |-> None, deleted |-> FALSE]

Given(field, old) == IF field = None THEN old ELSE field

Updated(row, form) ==
  [row EXCEPT !.salary_min    = Given(form.salary_min, @),
              !.salary_max    = Given(form.salary_max, @),
              !.salary_period = @ \/ form.salary_period,
              !.expires_at    = Given(form.expires_at, @)]

\* Mutants: publishing sets no expiry; publishing again moves the date.
PublishedForEver(row) == [row EXCEPT !.status = "published", !.published_at = Given(@, now)]

Republished(row) ==
  [row EXCEPT !.status       = "published",
              !.published_at = now,
              !.expires_at   = Given(@, now + PublishDays)]

Published(row) ==
  [row EXCEPT !.status       = "published",
              !.published_at = Given(@, now),
              !.expires_at   = Given(@, now + PublishDays)]

Closed(row) == [row EXCEPT !.status = "closed"]

\* Mutant: a promotion always counts from now, not from the end of the last one.
FeaturedFromNow(row) == IF row.deleted THEN row.featured_until ELSE now

FeaturedFrom(row) ==
  IF row.featured_until # None /\ row.featured_until > now THEN row.featured_until ELSE now

Promoted(row, days) == [row EXCEPT !.featured_until = FeaturedFrom(row) + days]

Deleted(row) == [row EXCEPT !.deleted = TRUE]

-----------------------------------------------------------------------------
\* Mutant: the business need not be approved.
CheckCreateUnvetted(r, u, b, form, j) ==
  /\ req[r] = Idle
  /\ standing[b] # "absent"
  /\ Owner[b] = u
  /\ ValidSalary(form)
  /\ job[j] = None /\ \A s \in Requests : req[s] # Idle => req[s].id # j
  /\ req' = [req EXCEPT ![r] = [stage |-> "write", op |-> "create", user |-> u, id |-> j,
                                row |-> Draft(b, form), form |-> form, days |-> None,
                                stale |-> FALSE]]
  /\ UNCHANGED <<standing, vetted, now, job>>

\* JobService::create up to the insert.
CheckCreate(r, u, b, form, j) ==
  /\ req[r] = Idle
  /\ standing[b] = "approved"
  /\ Owner[b] = u
  /\ ValidSalary(form)
  /\ job[j] = None /\ \A s \in Requests : req[s] # Idle => req[s].id # j
  /\ req' = [req EXCEPT ![r] = [stage |-> "write", op |-> "create", user |-> u, id |-> j,
                                row |-> Draft(b, form), form |-> form, days |-> None,
                                stale |-> FALSE]]
  /\ UNCHANGED <<standing, vetted, now, job>>

FindableDeleted(j) == job[j] # None      \* mutant: deleted_at is not tested

\* Jobs that are deleted cannot be found by any request.
Findable(j) == job[j] # None /\ ~job[j].deleted

Load(r, operation, u, j, form, days) ==
  /\ req[r] = Idle
  /\ Findable(j)
  /\ req' = [req EXCEPT ![r] = [stage |-> "business", op |-> operation, user |-> u, id |-> j,
                                row |-> job[j], form |-> form, days |-> days,
                                stale |-> FALSE]]
  /\ UNCHANGED <<standing, vetted, now, job>>

LoadJob(r) ==
  \E u \in Users, j \in Jids :
    \/ \E operation \in {"delete", "publish", "close"} : Load(r, operation, u, j, None, None)
    \/ \E form \in Forms : Load(r, "update", u, j, form, None)
    \/ \E days \in Days : Load(r, "promote", u, j, None, days)

\* AdminService::takedown_job reads no business and checks no owner.
LoadForTakedown(r, j) ==
  /\ req[r] = Idle
  /\ Findable(j)
  /\ req' = [req EXCEPT ![r] = [stage |-> "write", op |-> "takedown", user |-> None, id |-> j,
                                row |-> Deleted(job[j]), form |-> None, days |-> None,
                                stale |-> FALSE]]
  /\ UNCHANGED <<standing, vetted, now, job>>

\* The business is read after the job, by a second statement; then the copy is
\* changed.  A request whose check fails ends without a write: Abandon.
CheckBusiness(r, operation, copy) ==
  /\ req[r] # Idle
  /\ req[r].stage = "business"
  /\ req[r].op = operation
  /\ Owner[req[r].row.business] = req[r].user
  /\ req' = [req EXCEPT ![r].stage = "write", ![r].row = copy]
  /\ UNCHANGED <<standing, vetted, now, job>>

IsApproved(row) == standing[row.business] = "approved"

\* Mutant: the salary rules are checked on the body, not on the merged row.
CheckUpdateForm(r) ==
  /\ CheckBusiness(r, "update", Updated(req[r].row, req[r].form))
  /\ ValidSalary(req[r].form)

CheckUpdate(r) ==
  /\ CheckBusiness(r, "update", Updated(req[r].row, req[r].form))
  /\ ValidSalary(Updated(req[r].row, req[r].form))

CheckDelete(r) == CheckBusiness(r, "delete", Deleted(req[r].row))

CheckPublish(r) ==
  /\ CheckBusiness(r, "publish", Published(req[r].row))
  /\ IsApproved(req[r].row)

CheckClose(r) == CheckBusiness(r, "close", Closed(req[r].row))

CheckPromote(r) ==
  /\ CheckBusiness(r, "promote", Promoted(req[r].row, req[r].days))
  /\ IsApproved(req[r].row)
  /\ req[r].row.status = "published"
  /\ FeaturedFrom(req[r].row) + req[r].days <= MaxFeatured

SameJob(q, r) == req[q] # Idle /\ req[r] # Idle /\ req[q].id = req[r].id

\* INSERT, or UPDATE jobs SET <every column> WHERE id: the row that was read
\* is not compared with the row that is replaced.
Write(r) ==
  /\ req[r] # Idle
  /\ req[r].stage = "write"
  /\ job' = [job EXCEPT ![req[r].id] = req[r].row]
  /\ req' = [q \in Requests |->
               IF q = r THEN Idle
               ELSE IF SameJob(q, r) THEN [req[q] EXCEPT !.stale = TRUE]
               ELSE req[q]]
  /\ UNCHANGED <<standing, vetted, now>>

Abandon(r) ==
  /\ req[r] # Idle
  /\ req' = [req EXCEPT ![r] = Idle]
  /\ UNCHANGED <<standing, vetted, now, job>>

\* expire_due, run by the worker: one statement over the whole table.
Due(j) ==
  /\ job[j] # None
  /\ job[j].status = "published"
  /\ job[j].expires_at # None
  /\ job[j].expires_at <= now

\* Mutant: the sweep spares promoted jobs.
ExpireDuePlain ==
  /\ \E j \in Jids : Due(j) /\ job[j].featured_until = None
  /\ job' = [j \in Jids |-> IF Due(j) /\ job[j].featured_until = None
                              THEN [job[j] EXCEPT !.status = "expired"] ELSE job[j]]
  /\ UNCHANGED <<standing, vetted, now, req>>

ExpireDue ==
  /\ \E j \in Jids : Due(j)
  /\ job' = [j \in Jids |-> IF Due(j) THEN [job[j] EXCEPT !.status = "expired"] ELSE job[j]]
  /\ UNCHANGED <<standing, vetted, now, req>>

Tick ==
  /\ now < MaxTime
  /\ now' = now + 1
  /\ UNCHANGED <<standing, vetted, job, req>>

Request(r) ==
  \/ \E u \in Users, b \in Bids, form \in Forms, j \in Jids : CheckCreate(r, u, b, form, j)
  \/ LoadJob(r)
  \/ \E j \in Jids : LoadForTakedown(r, j)
  \/ CheckUpdate(r)
  \/ CheckDelete(r)
  \/ CheckPublish(r)
  \/ CheckClose(r)
  \/ CheckPromote(r)
  \/ Write(r)
  \/ Abandon(r)

Next ==
  \/ ApprovalNext /\ UNCHANGED <<now, job, req>>
  \/ \E r \in Requests : Request(r)
  \/ ExpireDue
  \/ Tick

Spec == Init /\ [][Next]_vars

\* The worker polls for ever, and each tick starts with the sweep; a client
\* owes no further request.
FairSpec == Spec /\ WF_vars(ExpireDue)

-----------------------------------------------------------------------------
\* GET /jobs, and GET /jobs/{id}: the handler views the business as a stranger.
Listed(j) ==
  /\ Findable(j)
  /\ job[j].status = "published"
  /\ job[j].expires_at = None \/ job[j].expires_at > now

Viewable(j) ==
  /\ Findable(j)
  /\ job[j].status # "draft"
  /\ IsApproved(job[j])

Coherent(row) ==
  /\ row.status \in {"published", "expired"} => row.published_at # None
  /\ row.status = "draft" => row.published_at = None
  /\ row.published_at # None => row.expires_at # None
  /\ row.featured_until # None => row.published_at # None

\* A live or expired job has a publication and an expiry date, a draft has
\* neither publication date nor promotion, whatever requests overlap: otherwise
\* a published job would have no expiry and the sweep would never take it.
JobsCoherent == \A j \in Jids : job[j] # None => Coherent(job[j])

\* The salary of a stored job obeys the rules (docs/API.md:166) although two
\* updates, each valid for the row it read, may overlap: columns are not merged.
SalariesValid == \A j \in Jids : job[j] # None => ValidSalary(job[j])

\* No job exists for a business that no administrator ever approved
\* (README.md:44), in the table or about to be written.
JobsNeedVetting == \A j \in Jids : job[j] # None => job[j].business \in vetted

\* The lost update: a copy is written over a row that is not the one it was
\* made from.
StaleWrite(j) ==
  \E r \in Requests : req[r] # Idle /\ req[r].id = j /\ req[r].stale /\ Write(r)

\* A deleted job is edited, published, promoted or restored by a lost update
\* only; the sweep still expires it.
DeletedIsFrozen ==
  [][\A j \in Jids :
       job[j] # None /\ job[j].deleted
         => \/ job'[j] \in {job[j], [job[j] EXCEPT !.status = "expired"]}
            \/ StaleWrite(j)]_vars

\* The promotion a business was given is not shortened (docs/API.md:560), and
\* the publication date is set once (docs/API.md:549), but for lost updates: the
\* sweep, requests that end early and requests on other jobs change neither.
PromotionKept ==
  [][\A j \in Jids :
       job[j] # None /\ job[j].featured_until # None
         => \/ /\ job'[j].featured_until # None
               /\ job'[j].featured_until >= job[j].featured_until
            \/ StaleWrite(j)]_vars

PublicationDateKept ==
  [][\A j \in Jids :
       job[j] # None /\ job[j].published_at # None
         => job'[j].published_at = job[j].published_at \/ StaleWrite(j)]_vars

\* A job past its expiry does not stay published: the sweep takes it, even when
\* an overlapping write has put the published row back.
DueJobsExpire == \A j \in Jids : Due(j) ~> ~Due(j)

\* A job in the public list has a public page (docs/API.md:506).
ListedHasPage == \A j \in Jids : Listed(j) => Viewable(j)
=============================================================================
