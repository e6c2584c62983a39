--------------------------- MODULE ListingsProofs ---------------------------
(***************************************************************************)
(* The properties of Listings for any number of businesses, jobs, requests *)
(* and instants.  The inductive invariant says of the private copy of each *)
(* request what it says of the stored rows: a write only moves a row from  *)
(* the one to the other, so an overlap can lose an update but can never    *)
(* mix the columns of two rows.                                            *)
(***************************************************************************)
EXTENDS Listings, TLAPS

\* A row that may be stored: coherent, with a valid salary, of a business that
\* was approved at some time.
Sound(row) == Coherent(row) /\ ValidSalary(row) /\ row.business \in vetted

TableSound == \A j \in Jids : job[j] # None => Sound(job[j])
CopiesSound == \A r \in Requests : req[r] # Idle => Sound(req[r].row)

\* The body and the length a handler uses are there when it uses them.
Equipped ==
  \A r \in Requests : req[r] # Idle =>
    /\ req[r].op = "update" => req[r].form \in Forms
    /\ req[r].op = "promote" => req[r].days \in Days

IInv == TypeOK /\ ApprovedWasVetted /\ TableSound /\ CopiesSound /\ Equipped

-----------------------------------------------------------------------------
USE ListingsAssumption DEF Opt

LEMMA DraftSound ==
  ASSUME NEW b \in Bids, NEW form \in Forms, ValidSalary(form)
  PROVE  /\ Draft(b, form) \in Row
         /\ Coherent(Draft(b, form)) /\ ValidSalary(Draft(b, form))
         /\ Draft(b, form).business = b
<1>1. form \in Form
  OBVIOUS
<1> QED BY <1>1 DEF Draft, Row, Form, JobStatuses, Coherent, ValidSalary

LEMMA UpdatedSound ==
  ASSUME NEW row \in Row, Coherent(row), NEW form \in Forms
  PROVE  /\ Updated(row, form) \in Row /\ Coherent(Updated(row, form))
         /\ Updated(row, form).business = row.business
<1>1. form \in Form
  OBVIOUS
<1>2. /\ Given(form.salary_min, row.salary_min) \in Opt(Nat)
      /\ Given(form.salary_max, row.salary_max) \in Opt(Nat)
      /\ Given(form.expires_at, row.expires_at) \in Opt(Nat)
      /\ row.expires_at # None => Given(form.expires_at, row.expires_at) # None
  BY <1>1 DEF Given, Row, Form
<1> DEFINE u == Updated(row, form)
<1>3. /\ u.business = row.business /\ u.status = row.status
      /\ u.published_at = row.published_at /\ u.featured_until = row.featured_until
      /\ u.expires_at = Given(form.expires_at, row.expires_at)
  BY DEF Updated, Row
<1>4. u \in Row
  BY <1>1, <1>2 DEF Updated, Row, Form
<1> QED BY <1>2, <1>3, <1>4 DEF Coherent

LEMMA PublishedSound ==
  ASSUME NEW row \in Row, Coherent(row), ValidSalary(row), now \in Nat
  PROVE  /\ Published(row) \in Row
         /\ Coherent(Published(row)) /\ ValidSalary(Published(row))
         /\ Published(row).business = row.business
<1>1. /\ Given(row.published_at, now) \in Nat
      /\ Given(row.expires_at, now + PublishDays) \in Nat
  BY DEF Given, Row
<1> QED BY <1>1 DEF Published, Row, JobStatuses, Coherent, ValidSalary

LEMMA ClosedSound ==
  ASSUME NEW row \in Row, Coherent(row), ValidSalary(row)
  PROVE  /\ Closed(row) \in Row /\ Coherent(Closed(row)) /\ ValidSalary(Closed(row))
         /\ Closed(row).business = row.business
         /\ Deleted(row) \in Row /\ Coherent(Deleted(row)) /\ ValidSalary(Deleted(row))
         /\ Deleted(row).business = row.business
  BY DEF Closed, Deleted, Row, JobStatuses, Coherent, ValidSalary

LEMMA PromotedSound ==
  ASSUME NEW row \in Row, Coherent(row), ValidSalary(row), now \in Nat,
         NEW days \in Days, row.status = "published"
  PROVE  /\ Promoted(row, days) \in Row
         /\ Coherent(Promoted(row, days)) /\ ValidSalary(Promoted(row, days))
         /\ Promoted(row, days).business = row.business
<1>1. FeaturedFrom(row) + days \in Nat
  BY DEF FeaturedFrom, Row
<1> QED BY <1>1 DEF Promoted, Row, Coherent, ValidSalary

-----------------------------------------------------------------------------
LEMMA InitInv == Init => IInv
  BY DEF Init, IInv, TypeOK, ApprovalTypeOK, ApprovalInit, ApprovedWasVetted,
         TableSound, CopiesSound, Equipped, Idle, Statuses

LEMMA SlotTyped ==
  ASSUME TypeOK, NEW r \in Requests, req[r] # Idle
  PROVE  /\ req[r] \in InFlight /\ req[r].row \in Row /\ req[r].id \in Jids
  BY DEF TypeOK, InFlight

\* A slot takes a request whose copy is sound.
LEMMA TakeInv ==
  ASSUME IInv, NEW r \in Requests, NEW q \in InFlight,
         req' = [req EXCEPT ![r] = q],
         UNCHANGED <<standing, vetted, now, job>>,
         Coherent(q.row), ValidSalary(q.row), q.row.business \in vetted,
         q.op = "update" => q.form \in Forms,
         q.op = "promote" => q.days \in Days
  PROVE  IInv'
<1>1. /\ req'[r] = q /\ \A s \in Requests \ {r} : req'[s] = req[s]
      /\ vetted' = vetted /\ job' = job /\ standing' = standing /\ now' = now
  BY DEF IInv, TypeOK
<1>2. TypeOK'
  BY <1>1 DEF IInv, TypeOK, ApprovalTypeOK
<1>3. ApprovedWasVetted' /\ TableSound'
  BY <1>1 DEF IInv, ApprovedWasVetted, TableSound, Sound
<1>4. CopiesSound'
  BY <1>1 DEF IInv, CopiesSound, Sound
<1>5. Equipped'
  BY <1>1 DEF IInv, Equipped
<1> QED BY <1>2, <1>3, <1>4, <1>5 DEF IInv

\* What the business read leaves in the slot: the same request with a new copy.
LEMMA CheckInv ==
  ASSUME IInv, NEW r \in Requests, NEW operation, NEW copy \in Row,
         CheckBusiness(r, operation, copy),
         Coherent(copy), ValidSalary(copy), copy.business = req[r].row.business
  PROVE  IInv'
<1> DEFINE q == [req[r] EXCEPT !.stage = "write", !.row = copy]
<1>1. /\ req[r] # Idle /\ req[r] \in InFlight
      /\ UNCHANGED <<standing, vetted, now, job>>
  BY SlotTyped DEF CheckBusiness, IInv
<1>2. /\ q \in InFlight /\ q.row = copy /\ q.op = req[r].op
      /\ q.form = req[r].form /\ q.days = req[r].days
  BY <1>1 DEF InFlight
<1>3. req' = [req EXCEPT ![r] = q]
  BY DEF CheckBusiness, IInv, TypeOK
<1>4. /\ q.row.business \in vetted
      /\ q.op = "update" => q.form \in Forms
      /\ q.op = "promote" => q.days \in Days
  BY <1>1, <1>2 DEF IInv, CopiesSound, Sound, Equipped
<1>5. Coherent(q.row) /\ ValidSalary(q.row)
  BY <1>2
<1> QED BY <1>1, <1>2, <1>3, <1>4, <1>5, TakeInv

LEMMA CreateInv ==
  ASSUME IInv, NEW r \in Requests, NEW u \in Users, NEW b \in Bids, NEW form \in Forms,
         NEW j \in Jids, CheckCreate(r, u, b, form, j)
  PROVE  IInv'
<1> DEFINE q == [stage |-> "write", op |-> "create", user |-> u, id |-> j,
                 row |-> Draft(b, form), form |-> form, days |-> None, stale |-> FALSE]
<1>1. /\ Draft(b, form) \in Row /\ Coherent(Draft(b, form)) /\ ValidSalary(Draft(b, form))
      /\ Draft(b, form).business = b
  BY DraftSound DEF CheckCreate
<1>2. b \in vetted
  BY DEF CheckCreate, IInv, ApprovedWasVetted
<1>3. q \in InFlight
  BY <1>1 DEF InFlight, Ops
<1>4. req' = [req EXCEPT ![r] = q] /\ UNCHANGED <<standing, vetted, now, job>>
  BY DEF CheckCreate
<1> QED BY <1>1, <1>2, <1>3, <1>4, TakeInv

LEMMA LoadInv ==
  ASSUME IInv, NEW r \in Requests, NEW u \in Users, NEW j \in Jids, NEW operation \in OwnerOps,
         NEW form \in Opt(Forms), NEW days \in Opt(Days),
         Load(r, operation, u, j, form, days),
         operation = "update" => form \in Forms,
         operation = "promote" => days \in Days
  PROVE  IInv'
<1> DEFINE q == [stage |-> "business", op |-> operation, user |-> u, id |-> j,
                 row |-> job[j], form |-> form, days |-> days,
                 stale |-> FALSE]
<1>1. job[j] # None /\ job[j] \in Row
  BY DEF Load, Findable, IInv, TypeOK
<1>2. Coherent(job[j]) /\ ValidSalary(job[j]) /\ job[j].business \in vetted
  BY <1>1 DEF IInv, TableSound, Sound
<1>3. q \in InFlight
  BY <1>1 DEF InFlight, Ops
<1>4. req' = [req EXCEPT ![r] = q] /\ UNCHANGED <<standing, vetted, now, job>>
  BY DEF Load
<1> QED BY <1>2, <1>3, <1>4, TakeInv

LEMMA LoadJobInv ==
  ASSUME IInv, NEW r \in Requests, LoadJob(r)
  PROVE  IInv'
<1>1. PICK u \in Users, j \in Jids :
        \/ \E operation \in {"delete", "publish", "close"} : Load(r, operation, u, j, None, None)
        \/ \E form \in Forms : Load(r, "update", u, j, form, None)
        \/ \E days \in Days : Load(r, "promote", u, j, None, days)
  BY DEF LoadJob
<1>2. ASSUME NEW operation \in {"delete", "publish", "close"},
             Load(r, operation, u, j, None, None)
      PROVE  IInv'
  <2>1. operation \in OwnerOps /\ operation # "update" /\ operation # "promote"
    BY DEF OwnerOps
  <2> QED BY <1>2, <2>1, LoadInv
<1>3. ASSUME NEW form \in Forms, Load(r, "update", u, j, form, None)
      PROVE  IInv'
  BY <1>3, LoadInv DEF OwnerOps
<1>4. ASSUME NEW days \in Days, Load(r, "promote", u, j, None, days)
      PROVE  IInv'
  BY <1>4, LoadInv DEF OwnerOps
<1> QED BY <1>1, <1>2, <1>3, <1>4

LEMMA TakedownInv ==
  ASSUME IInv, NEW r \in Requests, NEW j \in Jids, LoadForTakedown(r, j)
  PROVE  IInv'
<1> DEFINE q == [stage |-> "write", op |-> "takedown", user |-> None, id |-> j,
                 row |-> Deleted(job[j]), form |-> None, days |-> None, stale |-> FALSE]
<1>1. job[j] # None /\ job[j] \in Row
  BY DEF LoadForTakedown, Findable, IInv, TypeOK
<1>2. Coherent(job[j]) /\ ValidSalary(job[j]) /\ job[j].business \in vetted
  BY <1>1 DEF IInv, TableSound, Sound
<1>3. /\ Deleted(job[j]) \in Row /\ Coherent(Deleted(job[j])) /\ ValidSalary(Deleted(job[j]))
      /\ Deleted(job[j]).business = job[j].business
  BY <1>1, <1>2, ClosedSound
<1>4. q \in InFlight
  BY <1>3 DEF InFlight, Ops
<1>5. req' = [req EXCEPT ![r] = q] /\ UNCHANGED <<standing, vetted, now, job>>
  BY DEF LoadForTakedown
<1> QED BY <1>2, <1>3, <1>4, <1>5, TakeInv

\* The checks after the business is read, one per handler.
LEMMA ChecksInv ==
  ASSUME IInv, NEW r \in Requests,
         CheckUpdate(r) \/ CheckDelete(r) \/ CheckPublish(r) \/ CheckClose(r) \/ CheckPromote(r)
  PROVE  IInv'
<1> DEFINE row == req[r].row
<1>1. /\ req[r] # Idle
      /\ row \in Row /\ Coherent(row) /\ ValidSalary(row) /\ now \in Nat
      /\ req[r].op = "update" => req[r].form \in Forms
      /\ req[r].op = "promote" => req[r].days \in Days
  <2>1. req[r] # Idle
    BY DEF CheckUpdate, CheckDelete, CheckPublish, CheckClose, CheckPromote, CheckBusiness
  <2> QED BY <2>1, SlotTyped DEF IInv, CopiesSound, Sound, Equipped, TypeOK
<1>2. CASE CheckUpdate(r)
  <2>1. req[r].form \in Forms
    BY <1>1, <1>2 DEF CheckUpdate, CheckBusiness
  <2>2. /\ Updated(row, req[r].form) \in Row /\ Coherent(Updated(row, req[r].form))
        /\ Updated(row, req[r].form).business = row.business
    BY <1>1, <2>1, UpdatedSound
  <2>3. /\ CheckBusiness(r, "update", Updated(row, req[r].form))
        /\ ValidSalary(Updated(row, req[r].form))
    BY <1>2 DEF CheckUpdate
  <2> QED BY <2>2, <2>3, CheckInv
<1>3. CASE CheckDelete(r)
  BY <1>1, <1>3, ClosedSound, CheckInv DEF CheckDelete
<1>4. CASE CheckPublish(r)
  BY <1>1, <1>4, PublishedSound, CheckInv DEF CheckPublish
<1>5. CASE CheckClose(r)
  BY <1>1, <1>5, ClosedSound, CheckInv DEF CheckClose
<1>6. CASE CheckPromote(r)
  <2>1. req[r].days \in Days /\ row.status = "published"
    BY <1>1, <1>6 DEF CheckPromote, CheckBusiness
  <2>2. CheckBusiness(r, "promote", Promoted(row, req[r].days))
    BY <1>6 DEF CheckPromote
  <2> QED BY <1>1, <2>1, <2>2, PromotedSound, CheckInv
<1> QED BY <1>2, <1>3, <1>4, <1>5, <1>6

\* What a write leaves in the slots: its own is free, and every other request
\* for the job works on a stale copy now.
LEMMA WriteStep ==
  ASSUME IInv, NEW r \in Requests, Write(r)
  PROVE  /\ req[r] # Idle /\ req'[r] = Idle
         /\ \A q \in Requests \ {r} :
              req'[q] = IF SameJob(q, r) THEN [req[q] EXCEPT !.stale = TRUE] ELSE req[q]
         /\ \A q \in Requests : req'[q] # Idle =>
              /\ req[q] # Idle /\ req[q] \in InFlight
              /\ req'[q] = req[q] \/ req'[q] = [req[q] EXCEPT !.stale = TRUE]
<1>1. /\ req[r] # Idle
      /\ req' = [q \in Requests |->
                   IF q = r THEN Idle
                   ELSE IF SameJob(q, r) THEN [req[q] EXCEPT !.stale = TRUE]
                   ELSE req[q]]
  BY DEF Write
<1>2. \A q \in Requests : req[q] # Idle => req[q] \in InFlight
  BY SlotTyped DEF IInv
<1> QED BY <1>1, <1>2 DEF SameJob

\* The slots may be freed and marked, and a sound copy stored.
LEMMA EndInv ==
  ASSUME IInv, NEW r \in Requests, req[r] # Idle,
         req' \in [Requests -> InFlight \cup {Idle}],
         \A q \in Requests : req'[q] # Idle =>
           /\ req[q] # Idle
           /\ req'[q].row = req[q].row /\ req'[q].op = req[q].op
           /\ req'[q].form = req[q].form /\ req'[q].days = req[q].days,
         UNCHANGED <<standing, vetted, now>>,
         job' = job \/ job' = [job EXCEPT ![req[r].id] = req[r].row]
  PROVE  IInv'
<1>1. standing' = standing /\ vetted' = vetted /\ now' = now
  OBVIOUS
<1>2. req[r].row \in Row /\ req[r].id \in Jids /\ Sound(req[r].row)
  BY SlotTyped DEF IInv, CopiesSound
<1>3. TypeOK'
  BY <1>1, <1>2 DEF IInv, TypeOK, ApprovalTypeOK
<1>4. ApprovedWasVetted'
  BY <1>1 DEF IInv, ApprovedWasVetted
<1>5. TableSound'
  BY <1>1, <1>2 DEF IInv, TypeOK, TableSound, Sound
<1>6. CopiesSound' /\ Equipped'
  BY <1>1 DEF IInv, CopiesSound, Sound, Equipped
<1> QED BY <1>3, <1>4, <1>5, <1>6 DEF IInv

LEMMA WriteInv ==
  ASSUME IInv, NEW r \in Requests, Write(r) \/ Abandon(r)
  PROVE  IInv'
<1>1. CASE Write(r)
  <2>1. /\ req[r] # Idle /\ UNCHANGED <<standing, vetted, now>>
        /\ job' = [job EXCEPT ![req[r].id] = req[r].row]
    BY <1>1 DEF Write
  <2>2. \A q \in Requests : req'[q] # Idle =>
          /\ req[q] # Idle /\ req[q] \in InFlight
          /\ req'[q] = req[q] \/ req'[q] = [req[q] EXCEPT !.stale = TRUE]
    BY <1>1, WriteStep
  <2>3. ASSUME NEW q \in Requests, req'[q] # Idle
        PROVE  /\ req[q] # Idle /\ req'[q] \in InFlight
               /\ req'[q].row = req[q].row /\ req'[q].op = req[q].op
               /\ req'[q].form = req[q].form /\ req'[q].days = req[q].days
    <3>1. PICK old \in InFlight :
            /\ req[q] = old /\ req[q] # Idle
            /\ req'[q] = old \/ req'[q] = [old EXCEPT !.stale = TRUE]
      BY <2>2, <2>3
    <3>2. [old EXCEPT !.stale = TRUE] \in InFlight
      BY DEF InFlight
    <3>3. /\ [old EXCEPT !.stale = TRUE].row = old.row /\ [old EXCEPT !.stale = TRUE].op = old.op
          /\ [old EXCEPT !.stale = TRUE].form = old.form
          /\ [old EXCEPT !.stale = TRUE].days = old.days
      BY DEF InFlight
    <3> QED BY <3>1, <3>2, <3>3
  <2>4. req' \in [Requests -> InFlight \cup {Idle}]
    <3>1. req' = [q \in Requests |-> req'[q]]
      BY <1>1 DEF Write
    <3> QED BY <2>3, <3>1
  <2> QED BY <2>1, <2>3, <2>4, EndInv
<1>2. CASE Abandon(r)
  <2>1. /\ req[r] # Idle /\ req' = [req EXCEPT ![r] = Idle]
        /\ UNCHANGED <<standing, vetted, now>> /\ job' = job
    BY <1>2 DEF Abandon
  <2>2. /\ req' \in [Requests -> InFlight \cup {Idle}]
        /\ \A q \in Requests : req'[q] # Idle => req'[q] = req[q]
    BY <2>1 DEF IInv, TypeOK
  <2> QED BY <2>1, <2>2, EndInv
<1> QED BY <1>1, <1>2

LEMMA ExpireInv == IInv /\ ExpireDue => IInv'
<1> SUFFICES ASSUME IInv, ExpireDue
             PROVE  IInv'
  OBVIOUS
<1>1. /\ standing' = standing /\ vetted' = vetted /\ now' = now /\ req' = req
      /\ job' = [j \in Jids |-> IF Due(j) THEN [job[j] EXCEPT !.status = "expired"] ELSE job[j]]
  BY DEF ExpireDue
<1>2. ASSUME NEW j \in Jids, Due(j)
      PROVE  /\ job'[j] \in Row /\ Sound(job[j]) /\ job[j] \in Row
             /\ job'[j] = [job[j] EXCEPT !.status = "expired"]
             /\ job[j].status = "published"
  <2>1. job[j] # None /\ job[j] \in Row /\ job[j].status = "published"
    BY <1>2 DEF Due, IInv, TypeOK
  <2>2. job'[j] = [job[j] EXCEPT !.status = "expired"]
    BY <1>1, <1>2
  <2>3. job'[j] \in Row
    BY <2>1, <2>2 DEF Row, JobStatuses
  <2> QED BY <2>1, <2>2, <2>3 DEF IInv, TableSound
<1>3. \A j \in Jids : ~Due(j) => job'[j] = job[j]
  BY <1>1
<1>4. TypeOK'
  BY <1>1, <1>2, <1>3 DEF IInv, TypeOK, ApprovalTypeOK
<1>5. TableSound'
  <2> SUFFICES ASSUME NEW j \in Jids, job'[j] # None
               PROVE  /\ Coherent(job'[j]) /\ ValidSalary(job'[j])
                      /\ job'[j].business \in vetted'
    BY DEF TableSound, Sound
  <2>1. CASE Due(j)
    BY <1>1, <1>2, <2>1 DEF Sound, Coherent, ValidSalary, Row
  <2>2. CASE ~Due(j)
    BY <1>1, <1>3, <2>2 DEF IInv, TableSound, Sound
  <2> QED BY <2>1, <2>2
<1>6. ApprovedWasVetted' /\ CopiesSound' /\ Equipped'
  BY <1>1 DEF IInv, ApprovedWasVetted, CopiesSound, Sound, Equipped
<1> QED BY <1>4, <1>5, <1>6 DEF IInv

LEMMA EnvironmentInv ==
  ASSUME IInv, ApprovalNext, UNCHANGED <<now, job, req>>
  PROVE  IInv'
<1>1. vetted \subseteq vetted' /\ ApprovalTypeOK' /\ ApprovedWasVetted'
  BY DEF IInv, TypeOK, ApprovalTypeOK, ApprovedWasVetted, ApprovalNext, Register, Vet, Move,
         Statuses
<1>2. now' = now /\ job' = job /\ req' = req
  OBVIOUS
<1>3. TypeOK'
  BY <1>1, <1>2 DEF IInv, TypeOK
<1>4. TableSound' /\ CopiesSound' /\ Equipped'
  BY <1>1, <1>2 DEF IInv, TableSound, CopiesSound, Sound, Equipped
<1> QED BY <1>1, <1>3, <1>4 DEF IInv

LEMMA NextInv == IInv /\ [Next]_vars => IInv'
<1> SUFFICES ASSUME IInv, [Next]_vars
             PROVE  IInv'
  OBVIOUS
<1>1. CASE UNCHANGED vars
  BY <1>1 DEF vars, IInv, TypeOK, ApprovalTypeOK, ApprovedWasVetted, TableSound, CopiesSound,
              Sound, Equipped
<1>2. CASE ApprovalNext /\ UNCHANGED <<now, job, req>>
  BY <1>2, EnvironmentInv
<1>3. ASSUME NEW r \in Requests, Request(r)
      PROVE  IInv'
  BY <1>3, CreateInv, LoadJobInv, TakedownInv, ChecksInv, WriteInv DEF Request
<1>4. CASE ExpireDue
  BY <1>4, ExpireInv
<1>5. CASE Tick
  <2>1. /\ now' \in Nat /\ standing' = standing /\ vetted' = vetted
        /\ job' = job /\ req' = req
    BY <1>5 DEF Tick, IInv, TypeOK
  <2> QED BY <2>1 DEF IInv, TypeOK, ApprovalTypeOK, ApprovedWasVetted, TableSound,
                      CopiesSound, Sound, Equipped
<1> QED BY <1>1, <1>2, <1>3, <1>4, <1>5 DEF Next

\* IInv holds in every reachable state.
THEOREM Invariant == Spec => []IInv
<1>1. Init => IInv
  BY InitInv
<1>2. IInv /\ [Next]_vars => IInv'
  BY NextInv
<1> QED BY <1>1, <1>2, PTL DEF Spec

\* Rows, copies and the clock keep their types.
THEOREM TypeCorrect == Spec => []TypeOK
BY Invariant, PTL DEF IInv

LEMMA InvariantParts == IInv => JobsCoherent /\ SalariesValid /\ JobsNeedVetting
  BY DEF IInv, TableSound, Sound, JobsCoherent, SalariesValid, JobsNeedVetting

\* Status, publication date, expiry and promotion of every stored job agree
\* (service/job.rs), for any number of overlapping requests and sweeps.
THEOREM Coherence == Spec => []JobsCoherent
BY Invariant, InvariantParts, PTL

\* No overlap of updates stores a salary range that breaks the rules
\* (service/job.rs validate_salary).
THEOREM Salaries == Spec => []SalariesValid
BY Invariant, InvariantParts, PTL

\* A job belongs to a business that an administrator approved at some time.
THEOREM Vetting == Spec => []JobsNeedVetting
BY Invariant, InvariantParts, PTL

-----------------------------------------------------------------------------
(***************************************************************************)
(* Lost updates.  As long as no other request has written the job it read,  *)
(* a request works on a row that nobody deleted, dated or promoted: what   *)
(* the sweep does meanwhile and what other requests do to other jobs does  *)
(* not count.  Only a stale copy can undo what was done to a job.          *)
(***************************************************************************)
\* A later row of the same job: the date it has is kept, and its promotion is
\* not shortened.
Continues(old, new) ==
  /\ old.published_at # None => new.published_at = old.published_at
  /\ old.featured_until # None =>
       new.featured_until # None /\ new.featured_until >= old.featured_until

CopyCurrent(r) ==
  req[r] # Idle /\ ~req[r].stale =>
    IF req[r].op = "create"
      THEN job[req[r].id] = None
      ELSE /\ job[req[r].id] # None /\ ~job[req[r].id].deleted
           /\ Continues(job[req[r].id], req[r].row)

SInv == IInv /\ \A r \in Requests : CopyCurrent(r)

\* What a handler makes of its copy continues it.
LEMMA CopiesContinue ==
  ASSUME NEW old \in Row, NEW row \in Row, Continues(old, row), now \in Nat
  PROVE  /\ \A form \in Forms : Continues(old, Updated(row, form))
         /\ Continues(old, Published(row))
         /\ Continues(old, Closed(row)) /\ Continues(old, Deleted(row))
         /\ \A days \in Days : Continues(old, Promoted(row, days))
<1>1. ASSUME NEW form \in Forms PROVE Continues(old, Updated(row, form))
  <2>1. /\ Updated(row, form).published_at = row.published_at
        /\ Updated(row, form).featured_until = row.featured_until
    BY DEF Updated, Row
  <2> QED BY <2>1 DEF Continues
<1>2. Continues(old, Published(row))
  <2>1. /\ Published(row).published_at = Given(row.published_at, now)
        /\ Published(row).featured_until = row.featured_until
    BY DEF Published, Row
  <2> QED BY <2>1 DEF Continues, Given
<1>3. Continues(old, Closed(row)) /\ Continues(old, Deleted(row))
  <2>1. /\ Closed(row).published_at = row.published_at
        /\ Closed(row).featured_until = row.featured_until
        /\ Deleted(row).published_at = row.published_at
        /\ Deleted(row).featured_until = row.featured_until
    BY DEF Closed, Deleted, Row
  <2> QED BY <2>1 DEF Continues
<1>4. ASSUME NEW days \in Days PROVE Continues(old, Promoted(row, days))
  <2>1. /\ Promoted(row, days).published_at = row.published_at
        /\ Promoted(row, days).featured_until = FeaturedFrom(row) + days
    BY DEF Promoted, Row
  <2>2. days \in Nat /\ old.featured_until \in Opt(Nat) /\ row.featured_until \in Opt(Nat)
    BY DEF Row
  <2>3. FeaturedFrom(row) \in Nat
        /\ (row.featured_until # None => FeaturedFrom(row) >= row.featured_until)
    BY <2>2 DEF FeaturedFrom
  <2>4. FeaturedFrom(row) + days # None
    BY <2>2, <2>3
  <2>5. old.featured_until # None => FeaturedFrom(row) + days >= old.featured_until
    BY <2>2, <2>3 DEF Continues
  <2> QED BY <2>1, <2>4, <2>5 DEF Continues
<1> QED BY <1>1, <1>2, <1>3, <1>4

LEMMA Reflexive == ASSUME NEW row \in Row PROVE Continues(row, row)
BY DEF Continues, Row

\* The row that is there and the one the step leaves.
JobKept(j) ==
  job[j] # None =>
    \/ /\ job'[j] # None /\ Continues(job[j], job'[j])
       /\ job[j].deleted => job'[j] \in {job[j], [job[j] EXCEPT !.status = "expired"]}
    \/ StaleWrite(j)

LEMMA WriteKeeps ==
  ASSUME SInv, NEW r \in Requests, Write(r)
  PROVE  SInv' /\ \A j \in Jids : JobKept(j)
<1>1. /\ req[r] # Idle /\ job' = [job EXCEPT ![req[r].id] = req[r].row]
  BY DEF Write
<1>2. PICK i \in Jids, row \in Row : i = req[r].id /\ row = req[r].row
  BY <1>1, SlotTyped DEF SInv, IInv
<1>3. job'[i] = row /\ row # None /\ \A j \in Jids \ {i} : job'[j] = job[j]
  BY <1>1, <1>2 DEF SInv, IInv, TypeOK
<1>4. ~req[r].stale /\ job[i] # None => ~job[i].deleted /\ Continues(job[i], row)
  BY <1>1, <1>2 DEF SInv, CopyCurrent
<1>5. req[r].stale => StaleWrite(i)
  BY <1>1, <1>2 DEF StaleWrite
<1>6. ASSUME NEW j \in Jids PROVE JobKept(j)
  <2>1. CASE j = i
    BY <1>3, <1>4, <1>5, <2>1 DEF JobKept
  <2>2. CASE j # i
    BY <1>3, <2>2, Reflexive DEF JobKept, SInv, IInv, TypeOK
  <2> QED BY <2>1, <2>2
<1>7. ASSUME NEW q \in Requests PROVE CopyCurrent(q)'
  <2>1. /\ req'[r] = Idle
        /\ q # r => req'[q] = IF SameJob(q, r) THEN [req[q] EXCEPT !.stale = TRUE] ELSE req[q]
    BY WriteStep DEF SInv
  <2>2. CASE q = r
    BY <2>1, <2>2 DEF CopyCurrent
  <2>3. CASE q # r /\ SameJob(q, r)
    <3>1. req[q] # Idle /\ req[q] \in InFlight
      BY <2>3, SlotTyped DEF SameJob, SInv, IInv
    <3>2. req'[q].stale
      BY <2>1, <2>3, <3>1 DEF InFlight
    <3> QED BY <3>2 DEF CopyCurrent
  <2>4. CASE q # r /\ ~SameJob(q, r)
    <3>1. req'[q] = req[q]
      BY <2>1, <2>4
    <3>2. req[q] # Idle => req[q].id \in Jids \ {i}
      BY <1>1, <1>2, <2>4, SlotTyped DEF SameJob, SInv, IInv
    <3>3. req[q] # Idle => job'[req[q].id] = job[req[q].id]
      BY <1>3, <3>2
    <3> QED BY <3>1, <3>3 DEF SInv, CopyCurrent
  <2> QED BY <2>2, <2>3, <2>4
<1>8. IInv'
  BY WriteInv DEF SInv
<1> QED BY <1>6, <1>7, <1>8 DEF SInv

\* A step that changes one slot, and no job, leaves the other copies current.
LEMMA OthersCurrent ==
  ASSUME SInv, NEW r \in Requests, NEW q, req' = [req EXCEPT ![r] = q], job' = job,
         CopyCurrent(r)'
  PROVE  \A s \in Requests : CopyCurrent(s)'
<1>1. \A s \in Requests \ {r} : req'[s] = req[s]
  BY DEF SInv, IInv, TypeOK
<1> QED BY <1>1 DEF SInv, CopyCurrent

LEMMA SweepKeeps ==
  ASSUME SInv, ExpireDue
  PROVE  SInv' /\ \A j \in Jids : JobKept(j)
<1>1. /\ req' = req
      /\ job' = [j \in Jids |-> IF Due(j) THEN [job[j] EXCEPT !.status = "expired"] ELSE job[j]]
  BY DEF ExpireDue
<1>2. ASSUME NEW j \in Jids, job[j] # None
      PROVE  /\ job'[j] \in Row /\ job'[j] \in {job[j], [job[j] EXCEPT !.status = "expired"]}
             /\ job'[j].published_at = job[j].published_at
             /\ job'[j].featured_until = job[j].featured_until
             /\ job'[j].deleted = job[j].deleted
  <2>1. job[j] \in Row
    BY <1>2 DEF SInv, IInv, TypeOK
  <2>2. job'[j] \in {job[j], [job[j] EXCEPT !.status = "expired"]}
    BY <1>1
  <2> QED BY <2>1, <2>2 DEF Row, JobStatuses
<1>3. \A j \in Jids : job[j] = None => job'[j] = None
  BY <1>1 DEF Due
<1>4. ASSUME NEW j \in Jids PROVE JobKept(j)
  <2>1. job[j] # None => Continues(job[j], job'[j])
    BY <1>2, Reflexive DEF Continues, SInv, IInv, TypeOK
  <2> QED BY <1>2, <2>1 DEF JobKept
<1>5. ASSUME NEW q \in Requests PROVE CopyCurrent(q)'
  BY <1>1, <1>2, <1>3, SlotTyped DEF SInv, CopyCurrent, Continues, IInv
<1>6. IInv'
  BY ExpireInv DEF SInv
<1> QED BY <1>4, <1>5, <1>6 DEF SInv

\* A request that begins has the row that is stored, or marks it deleted.
LEMMA BeginningsKeep ==
  ASSUME SInv, NEW r \in Requests,
         \/ \E u \in Users, b \in Bids, form \in Forms, j \in Jids : CheckCreate(r, u, b, form, j)
         \/ LoadJob(r)
         \/ \E j \in Jids : LoadForTakedown(r, j)
  PROVE  \A q \in Requests : CopyCurrent(q)'
<1>1. CASE \E u \in Users, b \in Bids, form \in Forms, j \in Jids : CheckCreate(r, u, b, form, j)
  <2>1. PICK u \in Users, b \in Bids, form \in Forms, j \in Jids : CheckCreate(r, u, b, form, j)
    BY <1>1
  <2> DEFINE q == [stage |-> "write", op |-> "create", user |-> u, id |-> j,
                   row |-> Draft(b, form), form |-> form, days |-> None, stale |-> FALSE]
  <2>2. q.op = "create" /\ q.id = j
    OBVIOUS
  <2>3. job[j] = None /\ job' = job /\ req' = [req EXCEPT ![r] = q]
    BY <2>1 DEF CheckCreate
  <2> HIDE DEF q
  <2>4. req'[r] = q
    BY <2>3 DEF SInv, IInv, TypeOK
  <2> QED BY <2>2, <2>3, <2>4, OthersCurrent DEF CopyCurrent
<1>2. CASE LoadJob(r)
  <2>1. PICK q :
          /\ q.id \in Jids /\ Findable(q.id) /\ job' = job /\ req' = [req EXCEPT ![r] = q]
          /\ q.op # "create" /\ q.row = job[q.id]
    <3>1. PICK u \in Users, j \in Jids :
            \E op \in OwnerOps : \E form, days : Load(r, op, u, j, form, days)
      BY <1>2 DEF LoadJob, OwnerOps
    <3> PICK op \in OwnerOps : \E form, days : Load(r, op, u, j, form, days)
      BY <3>1
    <3> PICK form, days : Load(r, op, u, j, form, days)
      OBVIOUS
    <3> DEFINE q == [stage |-> "business", op |-> op, user |-> u, id |-> j,
                     row |-> job[j], form |-> form, days |-> days,
                     stale |-> FALSE]
    <3>2. q.op # "create" /\ q.id = j /\ q.row = job[j]
      BY DEF OwnerOps
    <3>3. Findable(j) /\ job' = job /\ req' = [req EXCEPT ![r] = q]
      BY DEF Load
    <3> HIDE DEF q
    <3> QED BY <3>2, <3>3
  <2>2. PICK j \in Jids : j = q.id /\ job[j] \in Row /\ Continues(job[j], job[j])
    BY <2>1, Reflexive DEF Findable, SInv, IInv, TypeOK
  <2>3. req'[r] = q
    BY <2>1 DEF SInv, IInv, TypeOK
  <2>4. CopyCurrent(r)'
    BY <2>1, <2>2, <2>3 DEF Findable, CopyCurrent
  <2> QED BY <2>1, <2>4, OthersCurrent
<1>3. CASE \E j \in Jids : LoadForTakedown(r, j)
  <2>1. PICK q :
          /\ q.id \in Jids /\ Findable(q.id) /\ job' = job /\ req' = [req EXCEPT ![r] = q]
          /\ q.op # "create" /\ q.row = Deleted(job[q.id])
    <3>1. PICK j \in Jids : LoadForTakedown(r, j)
      BY <1>3
    <3> DEFINE q == [stage |-> "write", op |-> "takedown", user |-> None, id |-> j,
                     row |-> Deleted(job[j]), form |-> None, days |-> None, stale |-> FALSE]
    <3>2. q.op # "create" /\ q.id = j /\ q.row = Deleted(job[j])
      OBVIOUS
    <3>3. Findable(j) /\ job' = job /\ req' = [req EXCEPT ![r] = q]
      BY <3>1 DEF LoadForTakedown
    <3> HIDE DEF q
    <3> QED BY <3>2, <3>3
  <2>2. PICK j \in Jids : j = q.id /\ job[j] \in Row /\ Continues(job[j], job[j])
    BY <2>1, Reflexive DEF Findable, SInv, IInv, TypeOK
  <2>3. Continues(job[j], Deleted(job[j]))
    BY <2>2, CopiesContinue DEF SInv, IInv, TypeOK
  <2>4. req'[r] = q
    BY <2>1 DEF SInv, IInv, TypeOK
  <2>5. CopyCurrent(r)'
    BY <2>1, <2>2, <2>3, <2>4 DEF Findable, CopyCurrent
  <2> QED BY <2>1, <2>5, OthersCurrent
<1> QED BY <1>1, <1>2, <1>3

LEMMA ChecksKeep ==
  ASSUME SInv, NEW r \in Requests,
         CheckUpdate(r) \/ CheckDelete(r) \/ CheckPublish(r) \/ CheckClose(r) \/ CheckPromote(r)
  PROVE  \A q \in Requests : CopyCurrent(q)'
<1> SUFFICES ASSUME ~req[r].stale PROVE CopyCurrent(r)'
  <2>1. PICK q : job' = job /\ req' = [req EXCEPT ![r] = q] /\ (req[r].stale => q.stale)
    <3>1. PICK operation, copy : CheckBusiness(r, operation, copy)
      BY DEF CheckUpdate, CheckDelete, CheckPublish, CheckClose, CheckPromote
    <3> DEFINE q == [req[r] EXCEPT !.stage = "write", !.row = copy]
    <3>2. /\ req[r] \in InFlight /\ job' = job /\ req' = [req EXCEPT ![r] = q]
      BY <3>1, SlotTyped DEF CheckBusiness, SInv, IInv, TypeOK
    <3>3. q.stale = req[r].stale
      BY <3>2 DEF InFlight
    <3> HIDE DEF q
    <3> QED BY <3>2, <3>3
  <2>2. req[r].stale => CopyCurrent(r)'
    BY <2>1 DEF CopyCurrent, SInv, IInv, TypeOK
  <2> QED BY <2>1, <2>2, OthersCurrent
<1>1. /\ req[r] # Idle /\ req[r].op # "create" /\ req[r] \in InFlight
      /\ req[r].op = "update" => req[r].form \in Forms
      /\ req[r].op = "promote" => req[r].days \in Days
  <2>1. req[r] # Idle /\ req[r].op # "create"
    BY DEF CheckUpdate, CheckDelete, CheckPublish, CheckClose, CheckPromote, CheckBusiness
  <2> QED BY <2>1, SlotTyped DEF SInv, IInv, Equipped
<1>2. PICK i \in Jids, row \in Row : i = req[r].id /\ row = req[r].row
  BY <1>1 DEF InFlight
<1>3. job[i] \in Row /\ ~job[i].deleted /\ job[i] # None /\ Continues(job[i], row)
  BY <1>1, <1>2 DEF SInv, CopyCurrent, IInv, TypeOK
<1>4. PICK copy : /\ Continues(job[i], copy) /\ job' = job
                  /\ req' = [req EXCEPT ![r] = [req[r] EXCEPT !.stage = "write", !.row = copy]]
  <2>1. now \in Nat
    BY DEF SInv, IInv, TypeOK
  <2>2. ASSUME NEW operation, NEW copy, Continues(job[i], copy), CheckBusiness(r, operation, copy)
        PROVE  /\ job' = job
               /\ req' = [req EXCEPT ![r] = [req[r] EXCEPT !.stage = "write", !.row = copy]]
    BY <2>2 DEF CheckBusiness, SInv, IInv, TypeOK
  <2>3. CASE CheckUpdate(r)
    <3>1. PICK form \in Forms : CheckBusiness(r, "update", Updated(row, form))
      BY <1>1, <1>2, <2>3 DEF CheckUpdate, CheckBusiness
    <3> QED BY <1>3, <2>1, <2>2, <3>1, CopiesContinue
  <2>4. CASE CheckDelete(r)
    <3>1. CheckBusiness(r, "delete", Deleted(row))
      BY <1>2, <2>4 DEF CheckDelete
    <3> QED BY <1>3, <2>1, <2>2, <3>1, CopiesContinue
  <2>5. CASE CheckPublish(r)
    <3>1. CheckBusiness(r, "publish", Published(row))
      BY <1>2, <2>5 DEF CheckPublish
    <3> QED BY <1>3, <2>1, <2>2, <3>1, CopiesContinue
  <2>6. CASE CheckClose(r)
    <3>1. CheckBusiness(r, "close", Closed(row))
      BY <1>2, <2>6 DEF CheckClose
    <3> QED BY <1>3, <2>1, <2>2, <3>1, CopiesContinue
  <2>7. CASE CheckPromote(r)
    <3>1. PICK days \in Days : CheckBusiness(r, "promote", Promoted(row, days))
      BY <1>1, <1>2, <2>7 DEF CheckPromote, CheckBusiness
    <3> QED BY <1>3, <2>1, <2>2, <3>1, CopiesContinue
  <2> QED BY <2>3, <2>4, <2>5, <2>6, <2>7
<1> DEFINE new == [req[r] EXCEPT !.stage = "write", !.row = copy]
<1>5. new.op = req[r].op /\ new.id = i /\ new.row = copy
  BY <1>1, <1>2 DEF InFlight
<1>6. req'[r] = new
  BY <1>4 DEF SInv, IInv, TypeOK
<1> HIDE DEF new
<1>7. CopyCurrent(r)'
  BY <1>1, <1>3, <1>4, <1>5, <1>6 DEF CopyCurrent
<1> QED BY <1>7

LEMMA CurrentNext == SInv /\ [Next]_vars => SInv' /\ \A j \in Jids : JobKept(j)
<1> SUFFICES ASSUME SInv, [Next]_vars
             PROVE  SInv' /\ \A j \in Jids : JobKept(j)
  OBVIOUS
<1>1. IInv'
  BY NextInv DEF SInv
<1>2. job' = job => \A j \in Jids : JobKept(j)
  BY Reflexive DEF JobKept, SInv, IInv, TypeOK
<1>3. job' = job /\ req' = req => \A q \in Requests : CopyCurrent(q)'
  BY DEF SInv, CopyCurrent
<1>4. ASSUME NEW r \in Requests, Request(r)
      PROVE  SInv' /\ \A j \in Jids : JobKept(j)
  <2>1. CASE Write(r)
    BY <2>1, WriteKeeps
  <2>2. CASE Abandon(r)
    <3>1. job' = job /\ req' = [req EXCEPT ![r] = Idle]
      BY <2>2 DEF Abandon
    <3>2. CopyCurrent(r)'
      BY <3>1 DEF CopyCurrent, SInv, IInv, TypeOK
    <3>3. \A q \in Requests : CopyCurrent(q)'
      BY <3>1, <3>2, OthersCurrent
    <3> QED BY <1>1, <1>2, <3>1, <3>3 DEF SInv
  <2>3. CASE \/ \E u \in Users, b \in Bids, form \in Forms, j \in Jids :
                  CheckCreate(r, u, b, form, j)
             \/ LoadJob(r)
             \/ \E j \in Jids : LoadForTakedown(r, j)
    <3>1. job' = job
      BY <2>3 DEF CheckCreate, LoadJob, Load, LoadForTakedown
    <3> QED BY <1>1, <1>2, <2>3, <3>1, BeginningsKeep DEF SInv
  <2>4. CASE CheckUpdate(r) \/ CheckDelete(r) \/ CheckPublish(r) \/ CheckClose(r)
               \/ CheckPromote(r)
    <3>1. job' = job
      BY <2>4 DEF CheckUpdate, CheckDelete, CheckPublish, CheckClose, CheckPromote, CheckBusiness
    <3> QED BY <1>1, <1>2, <2>4, <3>1, ChecksKeep DEF SInv
  <2> QED BY <1>4, <2>1, <2>2, <2>3, <2>4 DEF Request
<1>5. CASE ExpireDue
  BY <1>5, SweepKeeps
<1>6. CASE (ApprovalNext /\ UNCHANGED <<now, job, req>>) \/ Tick \/ UNCHANGED vars
  <2>1. job' = job /\ req' = req
    BY <1>6 DEF Tick, vars
  <2> QED BY <1>1, <1>2, <1>3, <2>1 DEF SInv
<1> QED BY <1>4, <1>5, <1>6 DEF Next

\* A copy is current until another request writes the job.
THEOREM CurrentInvariant == Spec => []SInv
<1>1. Init => SInv
  BY InitInv DEF Init, SInv, CopyCurrent
<1>2. SInv /\ [Next]_vars => SInv'
  BY CurrentNext
<1> QED BY <1>1, <1>2, PTL DEF Spec

\* A job that its owner deleted or an administrator took down is edited,
\* published, promoted or restored by a lost update only, however many requests
\* the server serves at one time (job_repo update, find_by_id).
THEOREM DeletedFrozen == Spec => DeletedIsFrozen
<1>1. SInv /\ [Next]_vars =>
        [\A j \in Jids : job[j] # None /\ job[j].deleted
           => \/ job'[j] \in {job[j], [job[j] EXCEPT !.status = "expired"]}
              \/ StaleWrite(j)]_vars
  BY CurrentNext DEF JobKept
<1> QED BY <1>1, CurrentInvariant, PTL DEF Spec, DeletedIsFrozen

\* A promotion is shortened by a lost update only: another adds to it, and
\* publishing again, closing, editing and the sweep leave it.
THEOREM PromotionStays == Spec => PromotionKept
<1>1. SInv /\ [Next]_vars =>
        [\A j \in Jids : job[j] # None /\ job[j].featured_until # None
           => \/ /\ job'[j].featured_until # None
                 /\ job'[j].featured_until >= job[j].featured_until
              \/ StaleWrite(j)]_vars
  BY CurrentNext DEF JobKept, Continues
<1> QED BY <1>1, CurrentInvariant, PTL DEF Spec, PromotionKept

\* The date of the first publication stays, however often a job is closed or
\* expires and is published again, unless an update is lost.
THEOREM PublicationDateStays == Spec => PublicationDateKept
<1>1. SInv /\ [Next]_vars =>
        [\A j \in Jids : job[j] # None /\ job[j].published_at # None
           => job'[j].published_at = job[j].published_at \/ StaleWrite(j)]_vars
  BY CurrentNext DEF JobKept, Continues
<1> QED BY <1>1, CurrentInvariant, PTL DEF Spec, PublicationDateKept
=============================================================================
