# puna.al: a TLA+ verification of the job platform's server

puna.al is a job board: businesses register and are vetted by an administrator,
vetted businesses publish jobs, users apply to them, and mails are delivered by a
background worker.  This directory holds TLA+ models of the server and of the browser session
(`src/backend/src`, `src/frontend/src`), the TLC instances that check them, and TLAPS proofs of their
main properties for every value of the constants.

Paths such as `service/job.rs` are below `src/backend/src`.

## 1. Inventory

### Parts, state and operations

| part | state it keeps | operations that change it |
|---|---|---|
| Businesses and moderation (`service/business.rs`, `service/admin.rs`) | table `businesses`: status, rejection reason, approval stamp, NIPT (unique) | create, edit, approve, reject, suspend |
| Job listings (`service/job.rs`, `admin.rs` takedown, `queue/worker.rs` sweep) | table `jobs`: status, salary, dates, promotion, soft deletion | create, update, delete, publish, close, promote, takedown, `expire_due` |
| Applications (`service/application.rs`) | table `applications`, unique per (job, applicant) | apply, update_status |
| Accounts (`service/auth.rs`, `service/account.rs`, `middleware/auth.rs`, `admin.rs` suspend_user, `main.rs` seed_admin) | tables `users`, `refresh_tokens`, `verification_tokens` | register, login, refresh, logout, verify, resend, forgot, reset, suspend, profile update, seeding |
| Email queue (`queue/*.rs`, `email/resend.rs`, `main.rs`) | table `queue_jobs`; the batch in the worker's memory | enqueue, claim, send, mark sent or failed, reschedule, shutdown |
| Browser session (`src/frontend/src/api`) | access token, session epoch, shared refresh | refresh, login, logout in several tabs |
| Server process and worker (`main.rs`, `queue/worker.rs`) | one task that sweeps jobs and sends mails in turn | tick, wait, shutdown, crash |
| Search and pages (`repository/params.rs`, `dto/common.rs`, the `list_*` statements, `Pagination.tsx`) | none; a visitor has a page number and what was shown | first, next and typed page |
| HTTP layer, secrets, database adapters, configuration, templates, statistics, pages of the browser application | none that the rest depends on | reads, formatting |

### How they interact

Requests are async tasks of one process (or several behind a balancer).  They share
nothing but the database; each service awaits **one SQL statement after the other and
opens no transaction**.  A service that changes a row reads it, changes its private
copy and writes **every column** of the copy back (`UPDATE ... SET <all> WHERE id`).
Services hand mails to the queue by a last statement of their own.  Listings read the
status of a business, applications read the job and its business, the worker sends the
mails and, before each batch, expires jobs that are due.

### What is hard

* *Interleaving and stale copies.*  Between a read and the write of the same request
  other requests write the same row.  Updates are lost; the question is what survives.
* *A request may end at any await*: the timeout layer (`app.rs`), a client that hangs
  up, an error of the database, a crash.  What was written before stays.
* *Checks and inserts are separate statements*; only the unique indexes decide races.
* *The worker's batch lives in memory*: crashes, failed statements, a provider that
  delivers and whose answer is lost, several server processes, shutdown.
* *Time*: expiry may pass between any two steps; the sweep runs now and then.
* *One task for two duties*: the sweep of a tick waits for every send of the tick before.
* *Lists are read piecemeal*: count and page are two statements, pages are cut by `OFFSET`, and rows
  enter, leave and move between them.

### What makes each part correct

| part | properties |
|---|---|
| Businesses | tax numbers unique; the columns of a row come from one decision; a decision stands until the next one, but for lost updates; mails announce committed decisions; what `Approval` promises to others |
| Listings | status, dates and promotion agree; salaries valid after merges; only for businesses once approved; a due job does not stay published; deletion final, promotion and publication date kept, but for lost updates |
| Applications | one per user and job; the owner is told at most once, never of nothing; only for jobs that were published, which keep their date but for lost updates |
| Accounts | one account per address, one administrator seeded by processes that start together; verified only by following the mailed link; one usable link, one live token per login, sessions match status and password, verification kept, but for what overtaken requests leave |
| Email queue | one worker per mail; attempts bounded; copies bounded by attempts; fates final; only faults strand mails, each a batch at most |
| Server process | the worker comes back to the sweep whatever the mails do, and settles mails whatever the jobs do |
| Search | a walk through the pages misses and repeats nothing but for the changes that explain it |
| Browser session | the stored token is the current one; a tab never causes its own sign-out; an answer that was overtaken by the end of its session leaves no trace |

## 2. Plan

Done:

1. `Approval` (abstract), `Businesses`, `BusinessesProofs`
2. `Listings` over `Approval`, `ListingsProofs`
3. `Outbox` (abstract), `EmailQueue`, `EmailQueueProofs`
4. `Applications` over `Listings`, `ApplicationsProofs`
5. `Accounts`
6. `Client`: the browser's token store and shared refresh with several tabs
7. `Platform`: listings, queue and worker in one server, with the refinement of both parts;
   `PlatformProofs`
8. `Search`: orders, pages and the two statements of a list while the table changes
9. the seeding of the administrator in `Accounts`
10. `AccountsProofs`: type correctness, one account per address, `VerifiedByLink`
11. `ClientProofs`: the session of the browser for any number of tabs
12. `StrandedByFaults` in `EmailQueueProofs`, by counting
13. what overlapping requests can and cannot undo: history variables that name the overtaken copies, the properties that
    allow those and nothing else, and their theorems in `BusinessesProofs`, `ListingsProofs`, `ApplicationsProofs` and
    `AccountsProofs`, carried to the server in `PlatformProofs`
14. `SearchProofs`: a walk for any table, any number of changes and any page size
15. the queue's promises stated of the server, `ServerMails` and `ServerOutbox` in `PlatformProofs`

Open: the browser session composed with a server that overlaps refreshes (`Client` has one refresh at a time,
`Accounts` the overlap).

Abstract specifications: `Approval` is what listings may believe of a business; `Outbox` is what a
service may believe of a mail it queued.

## 3. The models

An action is the code between two awaits.  The `req` (or `call`) variable holds, for every slot,
the request's stage and its private copy of the row.  `Abandon` (in `Applications`, `Hangup`)
ends a request at any await: it stands for the time-out, the client that is gone, an error of the
database, a crash, and also for the checks that refuse the request, since all of them end it
without a further write.  Reads change nothing and appear as the guards of the actions that
use them.  Deletions of rows do not exist in the services (soft delete only).

### Approval and Businesses

`Approval` has `standing` (status per business) and `vetted` (history: approved at some time).
`Register`, `Vet`, `Move` are all it allows: a business is registered once, and is approved only
if it has been vetted.  It is weak on purpose: the code loses updates, so any other status may
return.

`Businesses`: `business` is the table, `req` the requests, `outbox` the mails that were queued,
`verdicts` a history variable with the decisions that were committed.  `stale` in a request is history too: another
request has written the row since this one read it.  `CheckNipt` is
`create` up to its insert (lookup of the NIPT), `Insert` the insert with the unique index, `LoadFor...`
the read and the change of the copy by each handler, `Update` the whole-row write, `QueueMail` the last
statement.  Texts are left out, nullable columns are Booleans.

### Listings

`Listings` extends `Approval` and lets `ApprovalNext` interleave freely as environment.  `now` is
the clock in days; `job` is the table.  `CheckCreate` reads and checks the business;
`LoadJob` reads the job; `CheckUpdate`, `CheckPublish`, ... read the business after it, check, and
change the copy; `Write` is the insert or the whole-row update; `LoadForTakedown` is the administrator's
way.  `ExpireDue` is the one-statement sweep.  Title, description, location and currency are left
out; `salary_period` is whether one is given.  Owners of businesses never change in the code,
so `Owner` is a constant.  `Listed` and `Viewable` are the two public reads.  `stale` marks a copy that another request's
write has overtaken; `StaleWrite` is the lost update.  The sweep writes one column and makes no copy stale.

### Applications

`Applications` extends `Listings`: its steps are interleaved with all of those of
listings.  `Open` reads the job, `CheckNew` the business and the applications, `Insert` is decided by the
unique index, `Notify` queues the mail to the owner (`mails` counts them).  `Review` and `SetStatus` are
`update_status`, whose statement touches one column only.  `struck` is history: a lost update has hit the job since
the call read it.

### Accounts

Handlers here are straight lines of up to four statements, so `Plan` lists the statements of each
handler and a request carries what it has still to do (`todo`).  `Begin` is the first reads with
their checks; each other action is one statement.  `FindUser` is the second read of refresh,
verify and reset.  A refresh token's `family` is the login it descends from (not a column:
a history field).
A one-time token is `followed` when the request its link was opened with has marked it, and `void` when a request for
another link set the same column.  Expiry happens at any time (`ExpireSession`, `ExpireToken`), passwords are opaque,
names and phone numbers are left out, so a profile update writes the row it read.  `SeedAdmin` is
`seed_admin` up to its insert, run by a process that starts while another may serve or start too; the processes
are taken to have one configured address.  `suspend_user` refuses administrators.

Two history variables say what overlaps do.  `overtaken` has a request and a table when another request has changed
what this one read there: the row of the user (`Holding`), the session it is about to replace (`RevokingToo`,
`Renewing`), or the links of its kind, which it has made void before another stored one (`StoringToo`).  `late`
has the sessions and links that an overtaken request opened, the sessions that descend from one, those
whose revocation was cut off, and those of a user whose row was overwritten by an overtaken copy.  No guard looks at either.

### Outbox and EmailQueue

`Outbox` is the promise: a mail is accepted once, delivered only while queued, and its fate
(sent or failed) is final.  `EmailQueue` has `row` (the table), and per worker `phase`, `batch`
(the claimed copies in memory) and `current`.  `ClaimDue` is the one atomic claim statement
(both databases), `Send` the call of the provider with the outcomes delivered and
confirmed, delivered but not confirmed, refused; `MarkSent`, `MarkFailed`, `Reschedule` record
them.  `Stop` is only possible between two ticks, because only there the loop looks at the shutdown.
The order of a batch is not fixed (the claim returns rows in no order).  `run_at` is kept as the time
left (`due_in`), so that no clock grows.  The faults, counted up to `MaxFaults`, are
`MarkLost` (the recording statement fails), `ClaimLost` (the claim commits and the tick fails), and
`Crash`.  A batch size of zero claims nothing; a negative one
(no limit for SQLite, an error for Postgres) is not modelled.  `deliveries` counts what the provider did.
A mail is `Stranded` when its row is in processing and in no worker's batch.

### Platform

`Platform` extends `Listings` and instantiates `EmailQueue` with its table as `mail`.  Both modules give a worker's
duties separately; here one task has them in turn: `Sweep` or `SweepFails` (the error is logged and the tick
goes on), then `Claim`, then `Handle` and `Send` mail by mail, then the wait.  `swept` says that a worker is
between sweep and claim.  The sweep of `Listings` happens in no other way (`Server` has no `ExpireDue`).
`ImplementsParts` states that the composition implements the *fair* specification of each part.  In particular
the weak fairness of the sweep, which `Listings!FairSpec` assumes, is derived here from the fairness of the task and the
provider.  Which request queued which mail is not kept: `Enqueue` happens at any time.  (`Businesses`,
`Applications` and `Accounts` say when their mails are queued.)

### Search

`Search` is one visitor's walk through one list.  `list` fixes the order, the database and the page size
(`PerPage` is the clamp of `resolve_pagination`); `Count` is the first statement of a request, `ShowPage` the
second; `Offset` is `(page - 1) * per_page` in `Width` values.  `Before` is the order by featured, amount and
date: NULL amounts come first in `salary_low` on SQLite and last everywhere else.  The lists of an owner, of
applications and of the administrator have the order "created".  `NextPage` follows the pager of the browser
application, which goes by the last total; `TypedPage` is a page number in the address.  Another request may
change one row between any two statements: `Enter` (published, or matching again), `Leave` (closed, deleted,
expired), `Feature` (a promotion begins or ends), `Reprice`.  `losses` and `doubles` count the changes that can cost the
visitor a row or show one twice: a row that leaves the pages already shown moves the next one up, unseen, and a row that
was shown, left, and comes back behind the visitor's page is shown again.

### Client

`Client` is the session of `src/frontend/src` in several tabs.  `stored` is the token in localStorage, which the
tabs share; access token, `active` (sessionActive), the shared `refresh`, a `logout` and the requests (`req`) are
per tab.  `client.ts` is cut at its awaits: `Unauthorized` starts or joins a refresh, `RefreshAtServer` is the
server, `RefreshOutdated`, `RefreshRefused`, `RefreshGranted` are the code that runs when the headers are there
(epoch, then status), `Install` what follows `response.json()`.  What `AuthProvider.tsx` does about a
failed request for the profile is part of the action that ends the request (`Failed`, `ShutOut`).  The session epoch is
kept as "moved since" (`current`), so that no counter grows.  A request is for the profile (`me`), for the profile but
no longer awaited by the query cache (`dropped`), or any other.  `Reload` forgets a tab's memory; `RefreshFails`,
`RefreshBreaks` and `LostAtServer` are broken connections, errors of the server, and what the server did all the same;
`EndFamily` is a password reset, a suspension or the end of a token's life.  The server serves one refresh at a time
(overlapping ones are `Accounts`).  Requests that need no session are left out.

## 4. The runs

Every run finishes within two minutes with two workers.

| run | instance | shows |
|---|---|---|
| `businesses_overlap` | 2 businesses, 2 NIPTs, 2 overlapping requests | `NiptUnique`, `RowsCoherent`, `MailFollowsDecision`, `DecisionsStand`, and that the table implements `Approval` (`KeepsPromise`) |
| `listings_overlap` | 1 job, 2 overlapping requests, bodies with part of the salary and with or without a date, promotions of two lengths, the clock passing the expiry | `JobsCoherent`, `SalariesValid`, `JobsNeedVetting`, `DeletedIsFrozen`, `PromotionKept`, `PublicationDateKept`, and under `FairSpec` `DueJobsExpire` |
| `listings_no_page` | 1 job, 1 request | counterexample to `ListedHasPage` |
| `applications_race` | 1 job, 1 listing request, 2 calls, 2 users | `OneApplication`, `ToldOnce`, `AppliedJobsStayDated` |
| `accounts_overlap` | 2 accounts, 1 address (the administrator's), 2 links, 2 overlapping requests of every kind | `OneAccountPerEmail`, `VerifiedByLink`, `OneLink`, `StaysVerified` |
| `accounts_overtaken` | 1 account, 2 passwords, 3 sessions, 1 link, 2 overlapping requests, cut off anywhere | `Rotation`, `SessionsCurrent` |
| `accounts_lost_verification` | 1 account, 2 requests | counterexample to `ProfileKeepsRest` |
| `queue_faults` | 3 mails, 2 workers, batches of 2, 2 attempts, 2 faults | `Exclusive`, `AttemptsBounded`, `DeliveriesBounded`, `StrandedByFaults`, and that the queue implements `Outbox` (`ImplementsOutbox`) |
| `queue_stranded` | 1 mail, 1 worker, 1 fault | counterexample to `EventuallySettled` |
| `platform_fair` | 1 job, 1 request at a time, 1 mail, 1 worker, 2 attempts, 1 fault, shutdowns | `ImplementsParts`, `MailSettles` |
| `search_walk` | 3 rows, every order, both databases, pages of 1 and 2 rows, 3 changes, typed page 3 (which overflows with pages of 2) | `WalkComplete`, `NoRepeat` |
| `client_tabs` | 2 tabs, 2 requests and 1 logout under way, 2 logins, 2 token pairs | `StoredIsCurrent`, `RefusedForCause`, `LateAnswerIgnored` |

**Why these bounds.**  A conflict in this code needs two requests on one row; a third adds no new pair
of read and write.  Two businesses are needed for one tax number, two accounts for one address, two
calls for one pair of job and user.  Three sessions let two refreshes of one login overlap, or a login
be refreshed twice; two links let two requests for a link overlap.  Two faults let a crash follow a failed statement; two attempts give a
retry and a give-up; a back-off of 1 and 2 shows the cap.  `MaxTime` lets an expiry pass and the
clock go on; `MaxFeatured` bounds how far promotions add up; ids are used once, which bounds the
number of rows.  In `client_tabs` two requests of one tab share a refresh or two tabs race with one token; two
pairs give a login and its rotation, or two logins in turn.  In `platform_fair` one mail with two attempts keeps the
worker away from the sweep through a send, a retry and a give-up, and the fault hits a sweep, a claim, a mark or the
process; that the clock stops at `MaxTime` = 1, the publication period of 1 and `MaxFeatured` = 2 let a job expire, be
promoted twice and be published again.  In `search_walk` three rows on pages of one give three pages, three changes let a
row leave, move unseen and come back; at the start one row at most is off the list and one featured, and rows with a
salary and without tie in pairs (`SmallTables`); `Width` = 8 makes page 3 of two rows overflow as 2^63 does for real
pages.  Symmetry is used only where no liveness property is checked.

**Lost updates and overtaken requests.**  Whole-row writes without transactions lose updates, and the code does not
prevent it: an edit that overlaps a suspension restores the status it replaced, an overtaken takedown takes a
publication back while somebody applies, two overlapping refreshes leave two live tokens.  Nine properties are
therefore about what a request that was *not* overtaken may do, in states that overlaps have produced:
`DecisionsStand`, `DeletedIsFrozen`, `PromotionKept` and `PublicationDateKept` allow what they exclude to the write of a
`stale` copy alone, `AppliedJobsStayDated` to such a write or to a call it struck, `StaysVerified` to an
overtaken request, and `OneLink`, `Rotation` and `SessionsCurrent` set aside the sessions and links in `late`.  They are
checked with two overlapping requests and proved for any number; `accounts_lost_verification` shows the lost update itself
where a document says otherwise most plainly.  `applications_race` has one listing request beside the two calls, and the sweep
beside it; that nothing else takes a date when listing requests overlap as well is the theorem `AppliedStayDated`.

### Findings

Each is a disagreement between a document and what the code does, reproduced by a violation run.

* `listings_no_page`: `GET /jobs` does not look at the business, `GET /jobs/{id}` does; a listed job
  can answer 404 (`handler/job.rs` get_public, `docs/API.md:506`).
* `accounts_lost_verification`: `update_profile` writes the row the extractor read and undoes a
  verification, a reset or a suspension committed in between (`docs/API.md:418`).
* `queue_stranded`: nothing ever takes a row out of `processing` when no worker holds it.  In the trace the claim commits
  and its answer is lost: `process_tick` returns on the error (`queue/worker.rs:54-60`) and loses the rows.  (`queue/sqlite.rs`
  claim_due, `README.md:47`.)

## 5. Fairness

* `Listings!FairSpec`: `ExpireDue` is weakly fair.  The worker calls `expire_due` at the head of every
  tick (`queue/worker.rs`), for ever.  No request is fair: a client owes nothing.
* `EmailQueue!FairSpec`: each worker's own steps are weakly fair (the task is scheduled by the runtime and a
  process that was shut down is started again), time passes (`Elapse`), and the provider answers (`Send`).
  The last is an assumption the code does not enforce: the HTTP client of `email/resend.rs` has no
  timeout.  Nothing is assumed about `Enqueue`, `Stop` and the faults.
* `Platform!PlatformFairSpec`: the same as the queue's, with the sweep inside the worker's own steps, and nothing
  about `ExpireDue` itself.  `ImplementsParts` shows that the fairness of both parts follows, even with a fault and
  with shutdowns: the assumption of `Listings!FairSpec` is therefore as good as a provider that answers.

## 6. Proofs

TLAPS proves the following for every number of rows, requests, workers, mails and every value of the limits.

| module | theorem | statement |
|---|---|---|
| `BusinessesProofs` | `TypeCorrect`, `Coherence`, `OneNipt`, `MailAfterDecision`, `DecisionStands` | the five safety properties of `businesses_overlap` |
| | `Decided` | `StatusWasDecided`: every status but pending was once committed by an administrator |
| | `ImplementsApproval` | `Spec => Approval`'s specification, under the mapping of `Promise` |
| `ListingsProofs` | `TypeCorrect`, `Coherence`, `Salaries`, `Vetting` | the four invariants of `listings_overlap` |
| | `DeletedFrozen`, `PromotionStays`, `PublicationDateStays` | `DeletedIsFrozen`, `PromotionKept`, `PublicationDateKept`, for any number of overlapping requests |
| `ApplicationsProofs` | `OncePerJob`, `OwnerToldOnce`, `ApplyTypeCorrect` | uniqueness and mails under any number of racing calls |
| | `ListingsUndisturbed` | `ApplySpec => Spec`: theorems on listings carry over to the composition |
| | `AppliedStayDated` | `AppliedJobsStayDated`, for any number of listing requests and racing calls |
| `EmailQueueProofs` | `TypeCorrect`, `OneSender`, `AttemptLimit`, `CopiesLimit`, `FaultsStrand` | the five invariants of `queue_faults` |
| | `KeepsOutbox` | the queue implements `Outbox` for any number of workers and faults |
| `AccountsProofs` | `TypeCorrect`, `OneAccount`, `LinkVerified`, `OneUsableLink`, `VerificationStays` | the five properties of `accounts_overlap` |
| | `RotationHolds`, `SessionsAreCurrent` | the two of `accounts_overtaken`, for any number of overlapping requests |
| `PlatformProofs` | `ServesListings`, `ServesQueue` | the server implements (the safety part of) `Listings` and of `EmailQueue`, for any number of workers, mails, jobs and requests |
| | `ServerListings` | `JobsCoherent`, `SalariesValid` and `JobsNeedVetting` hold of the server |
| | `ServerHistory` | and so do `DeletedIsFrozen`, `PromotionKept` and `PublicationDateKept` |
| | `ServerMails` | `Exclusive`, `AttemptsBounded`, `DeliveriesBounded` and `StrandedByFaults` hold of the server's mails |
| | `ServerOutbox` | the server implements `Outbox`: a fate is final whatever else it does |
| `ClientProofs` | `TypeCorrect`, `StoredCurrent`, `Refused`, `LateAnswers` | the four properties of `client_tabs` |
| `SearchProofs` | `TypeCorrect`, `Complete`, `Repeats` | the three invariants of `search_walk` |
| | `Partition` | in a table that stands still, each row is on one page exactly, and no page is longer than its size |

**The arguments.**

* *Businesses and listings.*  The stored rows alone are not inductive: a row becomes what some request
  holds.  `IInv` says of every private copy what it says of the stored rows (`CopyBacked`, `CopiesSound`).
  A write then only moves a row; an overlap can lose an update but cannot mix columns.
  For `StatusWasDecided` a copy's status is backed by a committed decision or by the
  decision this very request commits.  For `DecisionsStand` the copy of an edit that nobody overtook has the status the edit
  gives to the row as it is stored now (`CopyCurrent`).  For `NiptUnique` the id of a row about to be inserted is
  nobody else's, and an update keeps the NIPT of the row it replaces.
* *Refinement of `Approval`.*  An approval's `Update` maps to `Vet`, `Insert` to `Register`, any other write to
  `Move`; a stale copy that restores "approved" is allowed because `IInv` has the decision on record.
* *Applications.*  A call that has inserted and not yet told is the only one for its job and user
  (`Untold`).  The unique index is the only reason.
* *Queue.*  A claim takes pending rows only and counts the attempt in the same statement, so the copy in a
  batch agrees with its row until it is dropped (`CopiesAgree`), no row is in two batches (`OneHolder`), and an
  attempt without an answer has delivered nothing (`Unanswered`).  For `KeepsOutbox`, `Send` maps to
  `Deliver` or a stutter, `MarkSent` and `MarkFailed` to `Settle`, everything else is hidden.
* *Accounts.*  What a request may do next depends on its place in its plan.  `Ordered` says so without listing the suffixes
  of every plan: creation and the second read come first, a link is mailed right after its token is
  stored, a mark follows the read; `TailOrdered` carries it from statement to statement.  `IInv` then says of the row a request
  carries that it has the address and the role of the account (`RowCurrent`), that the link it works on was mailed
  to that account (`TokenCurrent`), and that it is verified only when a link was followed or is about to be marked
  (`RowVerified`): every statement that writes a whole row needs all three.  `Grows` is what no step takes
  back (accounts, their address and role, followed links); from it the requests that take no part in a step stay sound.  One
  administrator follows from one account per address: every administrator has the configured one (`AdminHasAddress`).
* *Server.*  A step of the server is a step of listings, a step of the queue, or hidden from one of them; a sweep with
  nothing due stutters.  A sweep that *fails* uses up a fault and is otherwise invisible: to the queue it is the crash of a
  worker with empty hands.  `HandsFree` (a worker between two batches holds nothing) is the invariant this needs.
  The theorems of `EmailQueueProofs` then hold of the server: `SameQueue` shows that the queue inside `Platform` and the
  one those theorems are about are the same, action by action.
* *Lost updates of jobs.*  `SInv` adds that the copy a request holds *continues* the stored row unless it is stale
  (`CopyCurrent`): same publication date, no shorter promotion, not deleted.  The sweep writes one column, so it keeps that;
  whatever a handler makes of its copy continues it again (`CopiesContinue`); and a write makes every other copy of the
  row stale.  `DatedInv` follows a call to apply: the job it found published had a date, and keeps it until the insert
  unless the call was struck.
* *Overtaken requests of accounts.*  `OInv` says of each request that was not overtaken what its place in its plan implies of the
  tables: no link in time is usable when it is about to store one (`NoneActive`); the session it replaces is the only
  one of its login that stands in time, and none is live when the replacement is opened (`Replaces`); its copy differs from
  the stored row only in what it changes (`CopyFresh`).  A statement that would break this for another request marks that
  request as overtaken in the same step.  Of sessions it says that one in time that is live, or is being replaced in
  time, has the user's activity and password, or the revocation is due (`Standing`, `Current`): the login's
  copy may be older than its session, so the copy itself is held to the same (`Copy`).  A revocation ends all of them, and
  a revocation that is cut off makes them late.
* *Stranded mails.*  A mail becomes stranded when the worker that holds it dies or fails to record it, a whole batch at
  once.  `BatchesSmall` bounds the ids a worker holds by `BatchSize`, so each fault adds one batch to the count at most; other
  steps only move mails between rows and hands (`StrandedGrows`).
* *Browser.*  A pair that a refresh got is known to nobody else until it is stored (`NextUnseen`).  A stored pair that was
  rotated away is in the hands of the tab that did it, and that tab will store its successor (`StoredReplaced`), or
  the refresh broke down and the pair is `lost`.  A pair being presented was not rotated by its own tab before
  (`SentIsNew`), which is the whole argument for `RefusedForCause`.
* *Search.*  `Ordered` shows that each order is a strict total order on the rows of the list, so a row's position is the number
  of rows before it and no two rows share one (`Positions`).  A change of one row shifts any other by one place at
  most, and carries it over the edge of what was shown only if the changed row crosses the edge the other way
  (`Crossing`); so a change takes at most one row past the visitor, or brings one back.  The invariants count
  what is still to happen with what did: rows that were shown and lie beyond the edge are repetitions to come
  (`RepeatsCounted`), rows before the edge that were not seen, and rows the total lacks, are losses to come (`MissesCounted`).  The
  first attempt at this proof failed, and showed that `NoRepeat` had only held because two changes were too few: a row that
  was shown may leave, be moved while it is off the list, and come back beyond the edge.  `Enter` counts that now,
  and the run has the three changes it takes.

**Assumptions.**  The named `ASSUME`s only: `None` is not a value of the data, the constants have the
types their comments give, and `PowersOfTwo`, an arithmetic fact that the provers lack and TLC evaluates.
`MailAssumption` repeats for `Platform` what `EmailQueue` assumes.  The batch size is a natural number, which `config.rs` does not
enforce.  In `Search` there are fewer rows than half the
integers have values, and no two rows have the same date (`Dated`): the `ORDER BY` clauses end with a timestamp
and no column breaks a tie, so rows dated in the same microsecond could change places between two pages.

**Only model-checked.**  Liveness (`DueJobsExpire`, `MailSettles`, the fairness in `ImplementsParts`) and what rests on
ENABLED is beyond TLAPS here.  Every safety property of a passing run is stated by a theorem; the safety part of
`ImplementsParts` is `ServesListings` and `ServesQueue`.

## 7. Not modelled

* Formats, texts and validation of single fields, HTTP routing, opening of the database and its migrations, mail
  templates: no state that another part relies on.
* Statistics: eight `COUNT` statements one after the other.  Their numbers may come from different moments and need not add
  up; nothing reads them but the administrator's page.
* Hashing, signatures and random tokens: taken to work.  An access token is stateless; a request's
  right to act is read from the row at its start.
* Of the browser application, all but its session, its pager and the page in the address.
* Text matching in search (`LIKE` and `ILIKE`): a row matches or does not.
* A page number so large that its offset overflows is answered with the first page by SQLite and with an error by Postgres
  (a build with overflow checks panics).  `NoRepeat` names the case; no document says what should happen.
* `salary_low` shows jobs without a salary first on SQLite and last on Postgres.  `Search` has both orders; no document
  says which one is meant.
* A login that overlaps a suspension keeps its session until the next refresh, and one that overlaps a reset, with the old
  password, for as long as it is refreshed; so do the sessions of a suspension or reset that ends before the revocation.
  `SessionsCurrent` says that no others do.
* A decision or an application whose request ends before the mail is queued is never announced, and a refresh whose answer
  is lost costs the user the session: nothing in the code repairs either, and no document promises it.
* Two races of the browser session that the code allows and no document excludes: a logout between the headers and
  the body of a refresh is followed by `setTokens` (the epoch is not compared again), and two tabs that present one
  token sign each other out.  The properties of `Client` are what holds in spite of them.
* Resubmitting the same request is just another request; nothing in the code identifies retries.
