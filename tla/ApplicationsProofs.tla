------------------------- MODULE ApplicationsProofs -------------------------
(***************************************************************************)
(* Applications for any number of users, jobs, ids and calls.  A call that *)
(* has inserted its row and not yet queued its mail is the only one for    *)
(* its job and user, and no mail has been queued for them: that is what    *)
(* makes ToldOnce inductive.                                               *)
(***************************************************************************)
EXTENDS Applications, ListingsProofs

TablesTyped ==
  /\ application \in [Aids -> Application \cup {None}]
  /\ call \in [Calls -> Applying \cup Reviewing \cup {Idle}]
  /\ mails \in [Jids -> [Users -> Nat]]

\* The owner is still to be told, by this call alone.
Untold ==
  \A c \in Calls : At(c, "mail") =>
    /\ Applied(call[c].job, call[c].user)
    /\ mails[call[c].job][call[c].user] = 0
    /\ \A d \in Calls : At(d, "mail") /\ call[d].job = call[c].job /\ call[d].user = call[c].user
                          => d = c

\* The application whose status is about to be set is in the table.
ReviewsStored == \A c \in Calls : At(c, "status") => application[call[c].id] # None

ApplyInv ==
  /\ TablesTyped
  /\ ReviewsStored
  /\ OneApplication
  /\ ToldOnce
  /\ Untold

-----------------------------------------------------------------------------
USE ApplicationsAssumption

LEMMA ApplyInitInv == ApplyInit => ApplyInv
  BY DEF ApplyInit, ApplyInv, TablesTyped, ReviewsStored, OneApplication, ToldOnce, Untold, At, Idle, Applied

\* A call in a stage has the record of that stage.
LEMMA CallTyped ==
  ASSUME ApplyInv, NEW c \in Calls
  PROVE  /\ At(c, "check") \/ At(c, "insert") \/ At(c, "mail") =>
              call[c] \in Applying /\ call[c].job \in Jids /\ call[c].user \in Users
         /\ At(c, "status") => call[c] \in Reviewing /\ call[c].id \in Aids
                               /\ call[c].status \in ApplicationStatuses
  BY DEF ApplyInv, TablesTyped, At, Applying, Reviewing, Idle

\* Steps of one call that neither start a mail nor touch the tables.
LEMMA QuietInv ==
  ASSUME ApplyInv, NEW c \in Calls,
         Hangup(c) \/ CheckNew(c)
           \/ (\E u \in Users, j \in Jids : Open(c, u, j))
           \/ (\E u \in Users, a \in Aids, s \in ApplicationStatuses : Review(c, u, a, s))
  PROVE  ApplyInv'
<1>1. application' = application /\ mails' = mails
  BY DEF Hangup, CheckNew, Open, Review
<1>2. \E new \in Applying \cup Reviewing \cup {Idle} :
        /\ call' = [call EXCEPT ![c] = new]
        /\ new.stage # "mail"
        /\ new.stage = "status" => application[new.id] # None
  <2> DEFINE Fits(new) == /\ new \in Applying \cup Reviewing \cup {Idle}
                          /\ call' = [call EXCEPT ![c] = new]
                          /\ new.stage # "mail"
                          /\ new.stage = "status" => application[new.id] # None
  <2> SUFFICES \E new : Fits(new)
    OBVIOUS
  <2>1. CASE Hangup(c)
    <3>1. Fits(Idle)
      BY <2>1 DEF Hangup, Idle
    <3> QED BY <3>1
  <2>2. CASE CheckNew(c)
    <3> DEFINE new == [call[c] EXCEPT !.stage = "insert"]
    <3>1. call[c] \in Applying /\ call' = [call EXCEPT ![c] = new]
      BY <2>2, CallTyped DEF CheckNew, ApplyInv, TablesTyped
    <3>2. new \in Applying /\ new.stage = "insert"
      BY <3>1 DEF Applying
    <3>3. Fits(new)
      BY <3>1, <3>2
    <3> QED BY <3>3
  <2>3. ASSUME NEW u \in Users, NEW j \in Jids, Open(c, u, j)
        PROVE  \E new : Fits(new)
    <3>1. Fits([stage |-> "check", job |-> j, user |-> u, struck |-> FALSE])
      BY <2>3 DEF Open, Applying
    <3> QED BY <3>1
  <2>4. ASSUME NEW u \in Users, NEW a \in Aids, NEW s \in ApplicationStatuses, Review(c, u, a, s)
        PROVE  \E new : Fits(new)
    <3> DEFINE new == [stage |-> "status", id |-> a, status |-> s]
    <3>1. new \in Reviewing
      BY DEF Reviewing
    <3>2. call' = [call EXCEPT ![c] = new] /\ application[a] # None
      BY <2>4 DEF Review
    <3>3. Fits(new)
      BY <3>1, <3>2
    <3> QED BY <3>3
  <2> QED BY <2>1, <2>2, <2>3, <2>4
<1> PICK new \in Applying \cup Reviewing \cup {Idle} :
        /\ call' = [call EXCEPT ![c] = new]
        /\ new.stage # "mail"
        /\ new.stage = "status" => application[new.id] # None
  BY <1>2
<1>3. call'[c] = new /\ \A d \in Calls \ {c} : call'[d] = call[d]
  BY DEF ApplyInv, TablesTyped
<1>4. TablesTyped'
  BY <1>1 DEF ApplyInv, TablesTyped
<1>5. OneApplication' /\ ToldOnce'
  BY <1>1 DEF ApplyInv, OneApplication, ToldOnce, Applied
<1>6. Untold'
  BY <1>1, <1>3 DEF ApplyInv, Untold, At, Applied
<1>7. ReviewsStored'
  BY <1>1, <1>3 DEF ApplyInv, ReviewsStored, At
<1> QED BY <1>4, <1>5, <1>6, <1>7 DEF ApplyInv

\* The insert: the index guarantees that nobody has applied for the pair yet,
\* so no mail was queued for it and no other call is about to queue one.
LEMMA InsertInv == ASSUME ApplyInv, NEW c \in Calls, Insert(c) PROVE ApplyInv'
<1>1. PICK j \in Jids, u \in Users : j = call[c].job /\ u = call[c].user
  BY CallTyped DEF Insert
<1>2. PICK a \in Aids :
        /\ application[a] = None
        /\ application' = [application EXCEPT ![a] = [job |-> j, applicant |-> u, status |-> "submitted"]]
  BY <1>1 DEF Insert, NewApplication
<1>3. /\ At(c, "insert") /\ ~Applied(j, u) /\ mails' = mails
      /\ call' = [call EXCEPT ![c].stage = "mail"]
  BY <1>1 DEF Insert
<1>4. /\ call'[c].stage = "mail" /\ call'[c].job = j /\ call'[c].user = u
      /\ call' \in [Calls -> Applying \cup Reviewing \cup {Idle}]
      /\ \A d \in Calls \ {c} : call'[d] = call[d]
  BY <1>1, <1>3, CallTyped DEF ApplyInv, TablesTyped, Applying
<1>5. /\ application'[a] # None /\ application'[a].job = j /\ application'[a].applicant = u
      /\ application' \in [Aids -> Application \cup {None}]
      /\ \A b \in Aids \ {a} : application'[b] = application[b]
  BY <1>2 DEF ApplyInv, TablesTyped, Application, ApplicationStatuses
<1>6. \A b \in Aids : application[b] # None => ~(application[b].job = j /\ application[b].applicant = u)
  BY <1>3 DEF Applied
<1>7. TablesTyped'
  BY <1>3, <1>4, <1>5 DEF ApplyInv, TablesTyped
<1>8. OneApplication'
  BY <1>5, <1>6 DEF ApplyInv, OneApplication
<1>9. mails[j][u] = 0
  <2>1. mails[j][u] \in Nat /\ mails[j][u] <= 0
    BY <1>3 DEF ApplyInv, TablesTyped, ToldOnce
  <2> QED BY <2>1
<1>10. ToldOnce'
  <2> SUFFICES ASSUME NEW i \in Jids, NEW v \in Users
               PROVE  mails[i][v] <= IF Applied(i, v)' THEN 1 ELSE 0
    BY <1>3 DEF ToldOnce
  <2>1. mails[i][v] \in Nat /\ mails[i][v] <= IF Applied(i, v) THEN 1 ELSE 0
    BY DEF ApplyInv, TablesTyped, ToldOnce
  <2>2. Applied(i, v) => Applied(i, v)'
    BY <1>2, <1>5 DEF Applied
  <2> QED BY <2>1, <2>2
<1>11. Untold'
  <2>1. Applied(j, u)'
    BY <1>5 DEF Applied
  <2>2. \A d \in Calls \ {c} : At(d, "mail") => ~(call[d].job = j /\ call[d].user = u)
    BY <1>3 DEF ApplyInv, Untold
  <2>3. ASSUME NEW d \in Calls \ {c}, call[d].stage = "mail"
        PROVE  Applied(call[d].job, call[d].user)'
    <3>1. \E b \in Aids : /\ application[b] # None /\ application[b].job = call[d].job
                        /\ application[b].applicant = call[d].user
      BY <2>3 DEF ApplyInv, Untold, At, Applied
    <3> QED BY <1>2, <1>4, <1>5, <3>1 DEF Applied
  <2> QED BY <1>3, <1>4, <1>9, <2>1, <2>2, <2>3 DEF ApplyInv, Untold, At
<1>12. ReviewsStored'
  BY <1>4, <1>5, CallTyped DEF ApplyInv, ReviewsStored, At
<1> QED BY <1>7, <1>8, <1>10, <1>11, <1>12 DEF ApplyInv

LEMMA NotifyInv == ASSUME ApplyInv, NEW c \in Calls, Notify(c) PROVE ApplyInv'
<1>1. PICK j \in Jids, u \in Users : j = call[c].job /\ u = call[c].user
  BY CallTyped DEF Notify
<1>2. /\ At(c, "mail") /\ application' = application /\ call' = [call EXCEPT ![c] = Idle]
      /\ mails' = [mails EXCEPT ![j][u] = @ + 1]
  BY <1>1 DEF Notify
<1>3. Applied(j, u) /\ mails[j][u] = 0
      /\ \A d \in Calls : At(d, "mail") /\ call[d].job = j /\ call[d].user = u => d = c
  BY <1>1, <1>2 DEF ApplyInv, Untold
<1>4. call'[c].stage = "idle" /\ \A d \in Calls \ {c} : call'[d] = call[d]
  BY <1>2 DEF ApplyInv, TablesTyped, Idle
<1>5. /\ mails' \in [Jids -> [Users -> Nat]] /\ mails'[j][u] = 1
      /\ \A i \in Jids, v \in Users : (i # j \/ v # u) => mails'[i][v] = mails[i][v]
  <2>1. /\ mails \in [Jids -> [Users -> Nat]] /\ mails[j] \in [Users -> Nat]
        /\ mails' = [mails EXCEPT ![j] = [mails[j] EXCEPT ![u] = 1]]
    BY <1>2, <1>3 DEF ApplyInv, TablesTyped
  <2>2. mails'[j] = [mails[j] EXCEPT ![u] = 1] /\ \A i \in Jids \ {j} : mails'[i] = mails[i]
    BY <2>1
  <2>3. mails'[j] \in [Users -> Nat] /\ mails'[j][u] = 1
        /\ \A v \in Users \ {u} : mails'[j][v] = mails[j][v]
    BY <2>1, <2>2
  <2> QED BY <2>1, <2>2, <2>3
<1>6. TablesTyped'
  BY <1>2, <1>5 DEF ApplyInv, TablesTyped
<1>7. OneApplication'
  BY <1>2 DEF ApplyInv, OneApplication
<1>8. ToldOnce'
  <2>1. Applied(j, u)'
    BY <1>2, <1>3 DEF Applied
  <2>2. \A i \in Jids, v \in Users : Applied(i, v) <=> Applied(i, v)'
    BY <1>2 DEF Applied
  <2>3. ASSUME NEW i \in Jids, NEW v \in Users
        PROVE  mails'[i][v] <= IF Applied(i, v)' THEN 1 ELSE 0
    <3>1. CASE i = j /\ v = u
      BY <1>5, <2>1, <3>1
    <3>2. CASE i # j \/ v # u
      BY <1>5, <2>2, <3>2 DEF ApplyInv, ToldOnce
    <3> QED BY <3>1, <3>2
  <2> QED BY <2>3 DEF ToldOnce
<1>9. Untold'
  <2>1. ASSUME NEW d \in Calls, call'[d].stage = "mail"
        PROVE  /\ d # c /\ call'[d] = call[d] /\ At(d, "mail")
               /\ mails'[call[d].job][call[d].user] = mails[call[d].job][call[d].user]
    <3>1. d # c /\ call'[d] = call[d] /\ At(d, "mail")
      BY <1>4, <2>1 DEF At
    <3>2. call[d].job \in Jids /\ call[d].user \in Users /\ (call[d].job # j \/ call[d].user # u)
      BY <1>3, <3>1, CallTyped
    <3> QED BY <1>5, <3>1, <3>2
  <2> QED BY <1>2, <2>1 DEF ApplyInv, Untold, At, Applied
<1>10. ReviewsStored'
  BY <1>2, <1>4 DEF ApplyInv, ReviewsStored, At
<1> QED BY <1>6, <1>7, <1>8, <1>9, <1>10 DEF ApplyInv

\* The statement that changes a status changes neither job nor applicant.
LEMMA SetStatusInv == ASSUME ApplyInv, NEW c \in Calls, SetStatus(c) PROVE ApplyInv'
<1>1. PICK b \in Aids, s \in ApplicationStatuses : b = call[c].id /\ s = call[c].status
  BY CallTyped DEF SetStatus
<1>2. /\ application' = [application EXCEPT ![b].status = s]
      /\ call' = [call EXCEPT ![c] = Idle] /\ mails' = mails
  BY <1>1 DEF SetStatus
<1>3. application[b] \in Application /\ application[b] # None
  BY <1>1 DEF SetStatus, ApplyInv, ReviewsStored, TablesTyped
<1>4. /\ application'[b] \in Application /\ application'[b] # None
      /\ application'[b].job = application[b].job
      /\ application'[b].applicant = application[b].applicant
      /\ \A a \in Aids \ {b} : application'[a] = application[a]
      /\ application' \in [Aids -> Application \cup {None}]
  BY <1>2, <1>3 DEF ApplyInv, TablesTyped, Application
<1>5. call'[c].stage = "idle" /\ \A d \in Calls \ {c} : call'[d] = call[d]
  BY <1>2 DEF ApplyInv, TablesTyped, Idle
<1>6. \A j, u : Applied(j, u) <=> Applied(j, u)'
  BY <1>3, <1>4 DEF Applied
<1>7. TablesTyped'
  BY <1>2, <1>4 DEF ApplyInv, TablesTyped
<1>8. OneApplication'
  BY <1>3, <1>4 DEF ApplyInv, OneApplication
<1>9. ToldOnce'
  BY <1>2, <1>6 DEF ApplyInv, ToldOnce
<1>10. Untold' /\ ReviewsStored'
  BY <1>2, <1>3, <1>4, <1>5 DEF ApplyInv, Untold, ReviewsStored, At, Applied
<1> QED BY <1>7, <1>8, <1>9, <1>10 DEF ApplyInv

\* A step of Listings only marks calls as struck.
LEMMA ListingsStepCalls ==
  ASSUME ApplyInv, ListingsStep
  PROVE  /\ application' = application /\ mails' = mails
         /\ call' \in [Calls -> Applying \cup Reviewing \cup {Idle}]
         /\ \A c \in Calls :
              /\ call'[c].stage = call[c].stage
              /\ call[c] \notin Applying => call'[c] = call[c]
              /\ call[c] \in Applying => call'[c].job = call[c].job /\ call'[c].user = call[c].user
<1>1. /\ application' = application /\ mails' = mails
      /\ call' = [c \in Calls |-> IF Struck(c) THEN [call[c] EXCEPT !.struck = TRUE] ELSE call[c]]
  BY DEF ListingsStep
<1>2. ASSUME NEW old \in Applying
      PROVE  LET new == [old EXCEPT !.struck = TRUE] IN
               /\ new \in Applying /\ new.stage = old.stage
               /\ new.job = old.job /\ new.user = old.user
  BY DEF Applying
<1>3. \A c \in Calls :
        \/ call'[c] = call[c]
        \/ call[c] \in Applying /\ call'[c] = [call[c] EXCEPT !.struck = TRUE]
  BY <1>1 DEF Struck
<1>4. \A c \in Calls : call[c] \in Applying \cup Reviewing \cup {Idle}
  BY DEF ApplyInv, TablesTyped
<1>5. \A c \in Calls : call'[c] \in Applying \cup Reviewing \cup {Idle}
  BY <1>2, <1>3, <1>4
<1>6. call' \in [Calls -> Applying \cup Reviewing \cup {Idle}]
  BY <1>1, <1>5
<1> QED BY <1>1, <1>2, <1>3, <1>6

LEMMA ListingsStepInv == ASSUME ApplyInv, ListingsStep PROVE ApplyInv'
<1>1. /\ application' = application /\ mails' = mails
      /\ call' \in [Calls -> Applying \cup Reviewing \cup {Idle}]
      /\ \A c \in Calls : call'[c].stage = call[c].stage
  BY ListingsStepCalls
<1>2. \A c \in Calls : At(c, "mail") => call'[c].job = call[c].job /\ call'[c].user = call[c].user
  BY ListingsStepCalls, CallTyped
<1>3. \A c \in Calls : At(c, "status") => call'[c].id = call[c].id
  BY ListingsStepCalls DEF At, Applying
<1>4. TablesTyped' /\ OneApplication' /\ ToldOnce'
  BY <1>1 DEF ApplyInv, TablesTyped, OneApplication, ToldOnce, Applied
<1>5. Untold'
  BY <1>1, <1>2 DEF ApplyInv, Untold, At, Applied
<1>6. ReviewsStored'
  BY <1>1, <1>3 DEF ApplyInv, ReviewsStored, At
<1> QED BY <1>4, <1>5, <1>6 DEF ApplyInv

LEMMA ApplyNextInv == ASSUME ApplyInv, [ApplyNext]_allVars PROVE ApplyInv'
<1>1. ASSUME NEW c \in Calls, Call(c)
      PROVE  ApplyInv'
  BY <1>1, QuietInv, InsertInv, NotifyInv, SetStatusInv DEF Call
<1>2. ASSUME application' = application, call' = call, mails' = mails
      PROVE  ApplyInv'
  BY <1>2 DEF ApplyInv, TablesTyped, ReviewsStored, OneApplication, ToldOnce, Untold, At, Applied
<1> QED BY <1>1, <1>2, ListingsStepInv DEF ApplyNext, allVars

THEOREM ApplyInvariant == ApplySpec => []ApplyInv
<1>1. ApplyInv /\ [ApplyNext]_allVars => ApplyInv'
  BY ApplyNextInv
<1> QED BY ApplyInitInv, <1>1, PTL DEF ApplySpec

\* Two racing calls never store two applications of one user to one job
\* (service/application.rs:83-102, application_repo.rs:129-145).
THEOREM OncePerJob == ApplySpec => []OneApplication
<1>1. ApplyInv => OneApplication
  BY DEF ApplyInv
<1> QED BY ApplyInvariant, <1>1, PTL

\* An owner gets at most one mail for an application, and none for one that
\* lost the race (service/application.rs:102-113).
THEOREM OwnerToldOnce == ApplySpec => []ToldOnce
<1>1. ApplyInv => ToldOnce
  BY DEF ApplyInv
<1> QED BY ApplyInvariant, <1>1, PTL

\* Applications do not interfere with Listings: every behaviour of the two
\* together is one of Listings, so its theorems hold of the composition.
THEOREM ListingsUndisturbed == ApplySpec => Spec
<1>1. ApplyInit => Init
  BY DEF ApplyInit
<1>2. [ApplyNext]_allVars => [Next]_vars
  BY DEF ApplyNext, ListingsStep, allVars, vars
<1> QED BY <1>1, <1>2, PTL DEF ApplySpec, Spec

\* The tables of listings and applications keep their types together.
THEOREM ApplyTypeCorrect == ApplySpec => []ApplyTypeOK
<1>1. ApplyInv /\ TypeOK => ApplyTypeOK
  BY DEF ApplyInv, TablesTyped, ApplyTypeOK
<1> QED BY <1>1, ApplyInvariant, ListingsUndisturbed, TypeCorrect, PTL

-----------------------------------------------------------------------------
(***************************************************************************)
(* The dates of jobs that somebody applies to.  The job a call reads is    *)
(* stored and dated, and stays so unless a lost update strikes it.         *)
(***************************************************************************)
Stored(j) == j \in Jids /\ job[j] # None
Dated(j) == job[j].published_at # None
Pending(c) == At(c, "check") \/ At(c, "insert")

DatedInv ==
  /\ \A a \in Aids : application[a] # None => Stored(application[a].job)
  /\ \A c \in Calls : Pending(c) => /\ Stored(call[c].job)
                                    /\ call[c].struck \/ Dated(call[c].job)

\* No request removes a row.
LEMMA StoredStays ==
  ASSUME SInv, [Next]_vars, NEW j, Stored(j)
  PROVE  Stored(j)' /\ (Dated(j) => Dated(j)' \/ StaleWrite(j))
<1>1. j \in Jids /\ job[j] # None /\ JobKept(j)
  BY CurrentNext DEF Stored
<1>2. ASSUME NEW r \in Requests, req[r] # Idle, req[r].id = j, Write(r)
      PROVE  job'[j] # None
  <2>1. req[r].row \in Row /\ job' = [job EXCEPT ![j] = req[r].row]
    BY <1>2, SlotTyped DEF Write, SInv, IInv
  <2> QED BY <1>1, <2>1, ListingsAssumption DEF SInv, IInv, TypeOK
<1>3. job'[j] # None
  BY <1>1, <1>2 DEF JobKept, StaleWrite
<1>4. Dated(j) => Dated(j)' \/ StaleWrite(j)
  BY <1>1 DEF Dated, JobKept, Continues
<1> QED BY <1>1, <1>3, <1>4 DEF Stored

LEMMA SetStatusKeeps ==
  ASSUME ApplyInv, NEW c \in Calls, SetStatus(c)
  PROVE  /\ call' = [call EXCEPT ![c] = Idle]
         /\ \A a \in Aids : application'[a] # None =>
              application[a] # None /\ application'[a].job = application[a].job
<1>1. PICK b \in Aids, s \in ApplicationStatuses : b = call[c].id /\ s = call[c].status
  BY CallTyped DEF SetStatus
<1>2. /\ application' = [application EXCEPT ![b].status = s]
      /\ call' = [call EXCEPT ![c] = Idle]
      /\ application[b] # None /\ application[b] \in Application
  BY <1>1 DEF SetStatus, ApplyInv, ReviewsStored, TablesTyped
<1>3. /\ application'[b].job = application[b].job
      /\ \A a \in Aids \ {b} : application'[a] = application[a]
  BY <1>2 DEF ApplyInv, TablesTyped, Application
<1> QED BY <1>2, <1>3

LEMMA DatedNext ==
  ASSUME SInv, ApplyInv, DatedInv, [ApplyNext]_allVars
  PROVE  DatedInv'
<1>1. CASE ListingsStep
  <2>1. application' = application /\ [Next]_vars
    BY <1>1 DEF ListingsStep
  <2>2. ASSUME NEW a \in Aids, application[a] # None PROVE Stored(application[a].job)'
    <3>1. PICK j : j = application[a].job /\ Stored(j)
      BY <2>2 DEF DatedInv
    <3>2. Stored(j)'
      BY <2>1, <3>1, StoredStays
    <3> QED BY <2>1, <3>1, <3>2 DEF Stored
  <2>3. ASSUME NEW c \in Calls, Pending(c)'
        PROVE  Stored(call[c].job)' /\ (call[c].struck \/ Dated(call[c].job))'
    <3>1. Pending(c)
      BY <1>1, <2>3, ListingsStepCalls DEF Pending, At
    <3>2. PICK j : j = call[c].job /\ call[c] \in Applying /\ Stored(j)
      BY <3>1, CallTyped DEF Pending, DatedInv
    <3>3. call'[c].job = j
      BY <1>1, <3>2, ListingsStepCalls
    <3>4. /\ Struck(c) => call'[c] = [call[c] EXCEPT !.struck = TRUE]
          /\ ~Struck(c) => call'[c] = call[c]
      BY <1>1 DEF ListingsStep
    <3>5. Struck(c) \/ call[c].struck => call'[c].struck
      BY <3>2, <3>4 DEF Applying
    <3>6. Stored(j)' /\ (Dated(j) => Dated(j)' \/ StaleWrite(j))
      BY <2>1, <3>2, StoredStays
    <3>7. ~Struck(c) /\ ~call[c].struck => Dated(j)'
      <4>1. StaleWrite(j) => Struck(c)
        BY <3>2 DEF Struck
      <4>2. call[c].struck \/ Dated(j)
        BY <3>1, <3>2 DEF DatedInv
      <4> QED BY <3>6, <4>1, <4>2
    <3> QED BY <3>3, <3>5, <3>6, <3>7 DEF Stored, Dated
  <2> QED BY <2>1, <2>2, <2>3 DEF DatedInv
<1>2. CASE UNCHANGED allVars
  BY <1>2 DEF allVars, DatedInv, Stored, Dated, Pending, At
<1>3. ASSUME NEW c \in Calls, Call(c), UNCHANGED vars PROVE DatedInv'
  <2>1. job' = job
    BY <1>3 DEF vars
  <2>2. ASSUME NEW u \in Users, NEW j \in Jids, Open(c, u, j) PROVE DatedInv'
    <3>1. /\ Stored(j) /\ Dated(j) /\ application' = application
          /\ call' = [call EXCEPT ![c] = [stage |-> "check", job |-> j, user |-> u,
                                          struck |-> FALSE]]
      BY <2>2 DEF Open, Findable, Stored, Dated, SInv, IInv, TableSound, Sound, Coherent
    <3>2. call'[c].job = j /\ \A d \in Calls \ {c} : call'[d] = call[d]
      BY <3>1 DEF ApplyInv, TablesTyped
    <3> QED BY <2>1, <3>1, <3>2 DEF DatedInv, Stored, Dated, Pending, At
  <2>3. CASE CheckNew(c)
    <3>1. /\ At(c, "check") /\ application' = application
          /\ call' = [call EXCEPT ![c].stage = "insert"]
      BY <2>3 DEF CheckNew
    <3>2. call[c] \in Applying
      BY <3>1, CallTyped
    <3>3. /\ call'[c].job = call[c].job /\ call'[c].struck = call[c].struck
          /\ \A d \in Calls \ {c} : call'[d] = call[d]
      BY <3>1, <3>2 DEF ApplyInv, TablesTyped, Applying
    <3> QED BY <2>1, <3>1, <3>3 DEF DatedInv, Stored, Dated, Pending, At
  <2>4. CASE Insert(c)
    <3>1. PICK j \in Jids, u \in Users : j = call[c].job /\ u = call[c].user
      BY <2>4, CallTyped DEF Insert
    <3>2. PICK a \in Aids :
            application' = [application EXCEPT
                              ![a] = [job |-> j, applicant |-> u, status |-> "submitted"]]
      BY <2>4, <3>1 DEF Insert, NewApplication
    <3>3. At(c, "insert") /\ call' = [call EXCEPT ![c].stage = "mail"] /\ Stored(j)
      BY <2>4, <3>1 DEF Insert, DatedInv, Pending
    <3>4. call[c] \in Applying
      BY <3>3, CallTyped
    <3>5. call'[c].stage = "mail" /\ \A d \in Calls \ {c} : call'[d] = call[d]
      BY <3>3, <3>4 DEF ApplyInv, TablesTyped, Applying
    <3>6. application'[a].job = j /\ \A b \in Aids \ {a} : application'[b] = application[b]
      BY <3>2 DEF ApplyInv, TablesTyped
    <3> QED BY <2>1, <3>3, <3>5, <3>6 DEF DatedInv, Stored, Dated, Pending, At
  <2>5. CASE Notify(c) \/ Hangup(c)
    <3>1. application' = application /\ call' = [call EXCEPT ![c] = Idle]
      BY <2>5 DEF Notify, Hangup
    <3>2. call'[c].stage = "idle" /\ \A d \in Calls \ {c} : call'[d] = call[d]
      BY <3>1 DEF ApplyInv, TablesTyped, Idle
    <3> QED BY <2>1, <3>1, <3>2 DEF DatedInv, Stored, Dated, Pending, At
  <2>6. ASSUME NEW u \in Users, NEW a \in Aids, NEW s \in ApplicationStatuses, Review(c, u, a, s)
        PROVE  DatedInv'
    <3>1. /\ application' = application
          /\ call' = [call EXCEPT ![c] = [stage |-> "status", id |-> a, status |-> s]]
      BY <2>6 DEF Review
    <3>2. call'[c].stage = "status" /\ \A d \in Calls \ {c} : call'[d] = call[d]
      BY <3>1 DEF ApplyInv, TablesTyped
    <3> QED BY <2>1, <3>1, <3>2 DEF DatedInv, Stored, Dated, Pending, At
  <2>7. CASE SetStatus(c)
    <3>1. /\ call' = [call EXCEPT ![c] = Idle]
          /\ \A a \in Aids : application'[a] # None =>
               application[a] # None /\ application'[a].job = application[a].job
      BY <2>7, SetStatusKeeps
    <3>2. call'[c].stage = "idle" /\ \A d \in Calls \ {c} : call'[d] = call[d]
      BY <3>1 DEF ApplyInv, TablesTyped, Idle
    <3> QED BY <2>1, <3>1, <3>2 DEF DatedInv, Stored, Dated, Pending, At
  <2> QED BY <1>3, <2>2, <2>3, <2>4, <2>5, <2>6, <2>7 DEF Call
<1> QED BY <1>1, <1>2, <1>3 DEF ApplyNext

\* The step that leaves a job with an application undated.
LEMMA UndatedStep ==
  ASSUME SInv, ApplyInv, DatedInv, [ApplyNext]_allVars, NEW a \in Aids, Undated(a)'
  PROVE  \/ Undated(a)
         \/ application[a] # None /\ StaleWrite(application[a].job)
         \/ \E c \in Calls : Insert(c) /\ call[c].struck
<1>1. CASE ListingsStep
  <2>1. application' = application /\ [Next]_vars
    BY <1>1 DEF ListingsStep
  <2>2. PICK j : j = application[a].job
    OBVIOUS
  <2>3. application[a] # None /\ Stored(j) /\ ~Dated(j)'
    BY <2>1, <2>2 DEF Undated, Dated, DatedInv
  <2>4. ~Dated(j) \/ StaleWrite(j)
    BY <2>1, <2>3, StoredStays
  <2> QED BY <2>2, <2>3, <2>4 DEF Undated, Dated
<1>2. CASE UNCHANGED allVars
  BY <1>2 DEF allVars, Undated
<1>3. ASSUME NEW c \in Calls, Call(c), UNCHANGED vars
      PROVE  Undated(a) \/ (Insert(c) /\ call[c].struck)
  <2>1. job' = job
    BY <1>3 DEF vars
  <2>2. CASE Insert(c)
    <3>1. PICK b \in Aids :
            application' = [application EXCEPT ![b] = NewApplication(c)]
      BY <2>2 DEF Insert
    <3>2. Pending(c)
      BY <2>2 DEF Insert, Pending
    <3>3. CASE a = b
      <4>1. application'[a].job = call[c].job
        BY <3>1, <3>3 DEF NewApplication, ApplyInv, TablesTyped
      <4>2. ~Dated(call[c].job)
        BY <2>1, <4>1 DEF Undated, Dated
      <4> QED BY <2>2, <3>2, <4>2 DEF DatedInv
    <3>4. CASE a # b
      BY <2>1, <3>1, <3>4 DEF Undated, ApplyInv, TablesTyped
    <3> QED BY <3>3, <3>4
  <2>3. CASE SetStatus(c)
    BY <2>1, <2>3, SetStatusKeeps DEF Undated
  <2>4. CASE application' = application
    BY <2>1, <2>4 DEF Undated
  <2>5. Insert(c) \/ SetStatus(c) \/ application' = application
    BY <1>3 DEF Call, Open, CheckNew, Notify, Review, Hangup
  <2> QED BY <2>2, <2>3, <2>4, <2>5
<1> QED BY <1>1, <1>2, <1>3 DEF ApplyNext

\* Whoever applied, applied to a job that has been published: its row stays and
\* keeps the date, also when it is closed, taken down or expires between the
\* read of the job and the insert, or later (service/application.rs apply), for
\* any number of overlapping calls and requests; only a lost update takes it.
THEOREM AppliedStayDated == ApplySpec => AppliedJobsStayDated
<1>1. ApplyInit => DatedInv
  BY DEF ApplyInit, DatedInv, Pending, At, Idle
<1>2. SInv /\ ApplyInv /\ DatedInv /\ [ApplyNext]_allVars => DatedInv'
  BY DatedNext
<1>3. SInv /\ ApplyInv /\ DatedInv /\ [ApplyNext]_allVars =>
        [\A a \in Aids :
           Undated(a)' => \/ Undated(a)
                          \/ application[a] # None /\ StaleWrite(application[a].job)
                          \/ \E c \in Calls : Insert(c) /\ call[c].struck]_allVars
  BY UndatedStep
<1> QED BY <1>1, <1>2, <1>3, CurrentInvariant, ApplyInvariant, ListingsUndisturbed,
           PTL DEF ApplySpec, AppliedJobsStayDated
=============================================================================
