---------------------------- MODULE Applications ----------------------------
(***************************************************************************)
(* Applications to jobs (service/application.rs).  A call to apply reads   *)
(* the job, then the business and the applications, inserts its row and    *)
(* queues a mail to the owner, one statement after the other, while        *)
(* Listings goes on changing the job.  Owners of businesses do not change, *)
(* so the reads that only look at them are taken with the next statement.  *)
(***************************************************************************)
EXTENDS Listings
CONSTANTS
  Aids,            \* ids of applications
  Calls            \* calls the server can be serving at one time

VARIABLES
  application,     \* the table: id -> row, or None
  call,            \* what each call is doing, or Idle
  mails            \* how many mails told an owner that a user applied to a job

allVars == <<standing, vetted, now, job, req, application, call, mails>>

ApplicationStatuses == {"submitted", "reviewed", "shortlisted", "rejected", "hired"}
Application == [job : Jids, applicant : Users, status : ApplicationStatuses]

ASSUME ApplicationsAssumption == None \notin Application

\* struck is history: a lost update has hit the job since this call read it.
Applying == [stage : {"check", "insert", "mail"}, job : Jids, user : Users, struck : BOOLEAN]
Reviewing == [stage : {"status"}, id : Aids, status : ApplicationStatuses]

ApplyTypeOK ==
  /\ TypeOK
  /\ application \in [Aids -> Application \cup {None}]
  /\ call \in [Calls -> Applying \cup Reviewing \cup {Idle}]
  /\ mails \in [Jids -> [Users -> Nat]]

ApplyInit ==
  /\ Init
  /\ application = [a \in Aids |-> None]
  /\ call = [c \in Calls |-> Idle]
  /\ mails = [j \in Jids |-> [u \in Users |-> 0]]

At(c, stage) == call[c].stage = stage

Applied(j, u) ==
  \E a \in Aids : application[a] # None /\ application[a].job = j /\ application[a].applicant = u

-----------------------------------------------------------------------------
\* Mutant: any job that is not a draft is open.
OpenUnlessDraft(c, u, j) ==
  /\ call[c] = Idle
  /\ Findable(j)
  /\ job[j].status # "draft"
  /\ call' = [call EXCEPT ![c] = [stage |-> "check", job |-> j, user |-> u,
                                  struck |-> FALSE]]
  /\ UNCHANGED <<application, mails>>

\* apply: the job is read and must be published; its dates, and the standing
\* of its business, are not looked at.
Open(c, u, j) ==
  /\ call[c] = Idle
  /\ Findable(j)
  /\ job[j].status = "published"
  /\ call' = [call EXCEPT ![c] = [stage |-> "check", job |-> j, user |-> u,
                                  struck |-> FALSE]]
  /\ UNCHANGED <<application, mails>>

\* The user does not own the business, and exists() finds no application.
CheckNew(c) ==
  /\ At(c, "check")
  /\ job[call[c].job] # None /\ Owner[job[call[c].job].business] # call[c].user
  /\ ~Applied(call[c].job, call[c].user)
  /\ call' = [call EXCEPT ![c].stage = "insert"]
  /\ UNCHANGED <<application, mails>>

NewApplication(c) ==
  [job |-> call[c].job, applicant |-> call[c].user, status |-> "submitted"]

\* Mutants: there is no unique index; a conflict is taken for a success.
InsertDuplicate(c) ==
  /\ At(c, "insert")
  /\ \E a \in Aids : /\ application[a] = None
                     /\ application' = [application EXCEPT ![a] = NewApplication(c)]
  /\ call' = [call EXCEPT ![c].stage = "mail"]
  /\ UNCHANGED mails

InsertIgnoringConflict(c) ==
  /\ At(c, "insert")
  /\ IF Applied(call[c].job, call[c].user)
       THEN UNCHANGED application
       ELSE \E a \in Aids : /\ application[a] = None
                            /\ application' = [application EXCEPT ![a] = NewApplication(c)]
  /\ call' = [call EXCEPT ![c].stage = "mail"]
  /\ UNCHANGED mails

\* The unique index on (job_id, applicant_id); a conflict ends the call.
Insert(c) ==
  /\ At(c, "insert")
  /\ ~Applied(call[c].job, call[c].user)
  /\ \E a \in Aids : /\ application[a] = None
                     /\ application' = [application EXCEPT ![a] = NewApplication(c)]
  /\ call' = [call EXCEPT ![c].stage = "mail"]
  /\ UNCHANGED mails

Notify(c) ==
  /\ At(c, "mail")
  /\ mails' = [mails EXCEPT ![call[c].job][call[c].user] = @ + 1]
  /\ call' = [call EXCEPT ![c] = Idle]
  /\ UNCHANGED application

\* update_status: the application and its job are found, the user owns the
\* business; the statement changes the status alone.
Review(c, u, a, status) ==
  /\ call[c] = Idle
  /\ application[a] # None
  /\ Findable(application[a].job)
  /\ Owner[job[application[a].job].business] = u
  /\ call' = [call EXCEPT ![c] = [stage |-> "status", id |-> a, status |-> status]]
  /\ UNCHANGED <<application, mails>>

SetStatus(c) ==
  /\ At(c, "status")
  /\ application' = [application EXCEPT ![call[c].id].status = call[c].status]
  /\ call' = [call EXCEPT ![c] = Idle]
  /\ UNCHANGED mails

\* A refusal, a time-out, an error of the database or a crash, at any await.
Hangup(c) ==
  /\ call[c] # Idle
  /\ call' = [call EXCEPT ![c] = Idle]
  /\ UNCHANGED <<application, mails>>

Call(c) ==
  \/ \E u \in Users, j \in Jids : Open(c, u, j)
  \/ CheckNew(c)
  \/ Insert(c)
  \/ Notify(c)
  \/ \E u \in Users, a \in Aids, s \in ApplicationStatuses : Review(c, u, a, s)
  \/ SetStatus(c)
  \/ Hangup(c)

\* A step of Listings beside the calls.
Struck(c) == call[c] \in Applying /\ StaleWrite(call[c].job)

ListingsStep ==
  /\ Next
  /\ call' = [c \in Calls |-> IF Struck(c) THEN [call[c] EXCEPT !.struck = TRUE] ELSE call[c]]
  /\ UNCHANGED <<application, mails>>

ApplyNext ==
  \/ ListingsStep
  \/ \E c \in Calls : Call(c) /\ UNCHANGED vars

ApplySpec == ApplyInit /\ [][ApplyNext]_allVars

-----------------------------------------------------------------------------
\* A user applies to a job at most once, also when two calls have both found
\* no application before either inserts (docs/API.md:577, 409 conflict).
OneApplication ==
  \A a, b \in Aids :
    application[a] # None /\ application[b] # None
      /\ application[a].job = application[b].job
      /\ application[a].applicant = application[b].applicant => a = b

\* The owner is told at most once of an application, and never of one that is
\* not stored, whichever of two racing calls loses and wherever one hangs up.
ToldOnce == \A j \in Jids, u \in Users : mails[j][u] <= IF Applied(j, u) THEN 1 ELSE 0

\* Whoever applied, applied to a job that had been published, and the job keeps
\* its publication date when it is closed, taken down or expires before the row
\* is inserted or after (service/application.rs:61): only a lost update of the
\* job takes it away.
Undated(a) == application[a] # None /\ job[application[a].job].published_at = None

AppliedJobsStayDated ==
  [][\A a \in Aids :
       Undated(a)' => \/ Undated(a)
                      \/ application[a] # None /\ StaleWrite(application[a].job)
                      \/ \E c \in Calls : Insert(c) /\ call[c].struck]_allVars
=============================================================================
