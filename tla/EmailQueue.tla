----------------------------- MODULE EmailQueue -----------------------------
(***************************************************************************)
(* The durable email queue: the queue_jobs table (queue/sqlite.rs and      *)
(* queue/postgres.rs), the worker of each server process (queue/worker.rs) *)
(* and the mail provider it calls (email/resend.rs).                       *)
(* Claiming is one atomic statement.  Everything after it is a sequence of *)
(* awaits: send, then one statement that records the outcome.  A process   *)
(* may crash anywhere, and a statement may fail.  run_at is kept as the    *)
(* time left until it, so the clock needs no bound.                        *)
(***************************************************************************)
EXTENDS Integers, FiniteSets
CONSTANTS
  Mails,          \* ids of queue rows
  Workers,        \* the worker task of each server process
  MaxAttempts,    \* queue_max_attempts
  BatchSize,      \* queue_batch_size
  BackoffBase,    \* BACKOFF_BASE_SECONDS
  BackoffMax,     \* BACKOFF_MAX_SECONDS
  MaxFaults,      \* bound: crashes and failed statements
  None            \* no such row, no current job

ASSUME QueueAssumption ==
  /\ MaxAttempts \in Int
  /\ BatchSize \in Nat
  /\ BackoffBase \in Nat \ {0}
  /\ BackoffMax \in Nat
  /\ MaxFaults \in Nat

VARIABLES
  row,            \* the table: id -> row, or None
  phase,          \* what each worker is doing
  batch,          \* the jobs a worker has claimed and not finished
  current,        \* the job of the batch it is handling
  deliveries,     \* history: how often the provider delivered each mail
  faults          \* faults so far

vars == <<row, phase, batch, current, deliveries, faults>>

RowStatuses == {"pending", "processing", "sent", "failed"}
Row == [status : RowStatuses, attempts : Nat, due_in : Nat]
Claimed == [id : Mails, attempts : Nat]     \* the copy of a row a worker holds
Phases == {"ready", "asleep", "stopped", "working", "sending", "delivered", "refused"}

ASSUME NoneIsNoRow == None \notin Row \cup Claimed

TypeOK ==
  /\ row \in [Mails -> Row \cup {None}]
  /\ phase \in [Workers -> Phases]
  /\ batch \in [Workers -> SUBSET Claimed]
  /\ current \in [Workers -> Claimed \cup {None}]
  /\ deliveries \in [Mails -> Nat]
  /\ faults \in Nat

Init ==
  /\ row = [m \in Mails |-> None]
  /\ phase = [w \in Workers |-> "ready"]
  /\ batch = [w \in Workers |-> {}]
  /\ current = [w \in Workers |-> None]
  /\ deliveries = [m \in Mails |-> 0]
  /\ faults = 0

Least(a, b) == IF a < b THEN a ELSE b
Clamp(n, lo, hi) == IF n < lo THEN lo ELSE Least(n, hi)

\* A fact of arithmetic that the provers do not have; TLC evaluates it.
ASSUME PowersOfTwo == \A e \in 0..15 : 2 ^ e \in Nat

\* backoff: 30 s doubled with every attempt, at most an hour.
Backoff(attempts) == Least(BackoffBase * 2 ^ (Clamp(attempts, 1, 16) - 1), BackoffMax)

-----------------------------------------------------------------------------
\* EmailService::enqueue, called by the services at any time.
Enqueue(m) ==
  /\ row[m] = None
  /\ row' = [row EXCEPT ![m] = [status |-> "pending", attempts |-> 0, due_in |-> 0]]
  /\ UNCHANGED <<phase, batch, current, deliveries, faults>>

\* Mutant: rows left in processing are claimed again.
DueOrProcessing == {m \in Mails : row[m] # None /\ row[m].status \in {"pending", "processing"}
                                                /\ row[m].due_in = 0}

Due == {m \in Mails : row[m] # None /\ row[m].status = "pending" /\ row[m].due_in = 0}

\* The statement takes the due rows, at most BatchSize of them.
Claimable == {S \in SUBSET Due : Cardinality(S) = Least(BatchSize, Cardinality(Due))}

\* Mutant: the claim does not count an attempt.
ClaimRowsUncounted(S) ==
  row' = [m \in Mails |-> IF m \in S THEN [row[m] EXCEPT !.status = "processing"] ELSE row[m]]

ClaimRows(S) ==
  row' = [m \in Mails |->
            IF m \in S THEN [row[m] EXCEPT !.status = "processing", !.attempts = @ + 1]
                       ELSE row[m]]

\* process_tick up to the first send; the rows come back as the worker's batch.
ClaimDue(w) ==
  /\ phase[w] = "ready"
  /\ \E S \in Claimable :
       /\ ClaimRows(S)
       /\ batch' = [batch EXCEPT ![w] =
                      {[id |-> m, attempts |-> row[m].attempts + 1] : m \in S}]
  /\ phase' = [phase EXCEPT ![w] = "working"]
  /\ UNCHANGED <<current, deliveries, faults>>

\* The loop over the batch; when it is empty the worker waits for the next
\* poll, or for the shutdown that is only looked at here.
TakeNext(w) ==
  /\ phase[w] = "working"
  /\ \E c \in batch[w] : current' = [current EXCEPT ![w] = c]
  /\ phase' = [phase EXCEPT ![w] = "sending"]
  /\ UNCHANGED <<row, batch, deliveries, faults>>

FinishBatch(w) ==
  /\ phase[w] = "working"
  /\ batch[w] = {}
  /\ phase' = [phase EXCEPT ![w] = "asleep"]
  /\ UNCHANGED <<row, batch, current, deliveries, faults>>

Wake(w) ==
  /\ phase[w] = "asleep"
  /\ phase' = [phase EXCEPT ![w] = "ready"]
  /\ UNCHANGED <<row, batch, current, deliveries, faults>>

\* Mutant: the shutdown interrupts a batch.
StopMidBatch(w) ==
  /\ phase[w] \in {"asleep", "working"}
  /\ phase' = [phase EXCEPT ![w] = "stopped"]
  /\ batch' = [batch EXCEPT ![w] = {}]
  /\ UNCHANGED <<row, current, deliveries, faults>>

Stop(w) ==
  /\ phase[w] = "asleep"
  /\ phase' = [phase EXCEPT ![w] = "stopped"]
  /\ UNCHANGED <<row, batch, current, deliveries, faults>>

Start(w) ==
  /\ phase[w] = "stopped"
  /\ phase' = [phase EXCEPT ![w] = "ready"]
  /\ UNCHANGED <<row, batch, current, deliveries, faults>>

\* Mutant: every answer of the provider counts as a success.
SendAnyAnswer(w) ==
  /\ phase[w] = "sending"
  /\ \E reached \in BOOLEAN :
       deliveries' = IF reached THEN [deliveries EXCEPT ![current[w].id] = @ + 1]
                                ELSE deliveries
  /\ phase' = [phase EXCEPT ![w] = "delivered"]
  /\ UNCHANGED <<row, batch, current, faults>>

\* The provider delivers and answers, or refuses; it may also deliver while
\* the answer is lost or is an error, which the worker takes for a refusal.
Send(w) ==
  /\ phase[w] = "sending"
  /\ \E reached \in BOOLEAN, confirmed \in BOOLEAN :
       /\ confirmed => reached
       /\ deliveries' = IF reached THEN [deliveries EXCEPT ![current[w].id] = @ + 1]
                                   ELSE deliveries
       /\ phase' = [phase EXCEPT ![w] = IF confirmed THEN "delivered" ELSE "refused"]
  /\ UNCHANGED <<row, batch, current, faults>>

\* The worker drops the job from its batch, whatever became of the statement.
Drop(w) ==
  /\ batch' = [batch EXCEPT ![w] = @ \ {current[w]}]
  /\ current' = [current EXCEPT ![w] = None]
  /\ phase' = [phase EXCEPT ![w] = "working"]

\* Mutant: a status that queue_jobs does not have.
MarkSentAsDelivered(w) ==
  /\ phase[w] = "delivered"
  /\ row' = [row EXCEPT ![current[w].id].status = "delivered"]
  /\ Drop(w)
  /\ UNCHANGED <<deliveries, faults>>

MarkSent(w) ==
  /\ phase[w] = "delivered"
  /\ row' = [row EXCEPT ![current[w].id].status = "sent"]
  /\ Drop(w)
  /\ UNCHANGED <<deliveries, faults>>

\* Mutant: one attempt too many.
ExhaustedAfter(c) == c.attempts > MaxAttempts

\* The decision is taken on the copy of the row, not on the row.
Exhausted(c) == c.attempts >= MaxAttempts

MarkFailed(w) ==
  /\ phase[w] = "refused"
  /\ Exhausted(current[w])
  /\ row' = [row EXCEPT ![current[w].id].status = "failed"]
  /\ Drop(w)
  /\ UNCHANGED <<deliveries, faults>>

\* Mutant: the row is not made pending again.
RescheduleKeepsStatus(w) ==
  /\ phase[w] = "refused"
  /\ ~Exhausted(current[w])
  /\ row' = [row EXCEPT ![current[w].id].due_in = Backoff(current[w].attempts)]
  /\ Drop(w)
  /\ UNCHANGED <<deliveries, faults>>

Reschedule(w) ==
  /\ phase[w] = "refused"
  /\ ~Exhausted(current[w])
  /\ row' = [row EXCEPT ![current[w].id] =
               [@ EXCEPT !.status = "pending", !.due_in = Backoff(current[w].attempts)]]
  /\ Drop(w)
  /\ UNCHANGED <<deliveries, faults>>

\* Time passes for the rows that wait for a retry.
Elapse ==
  /\ \E m \in Mails : row[m] # None /\ row[m].due_in > 0
  /\ row' = [m \in Mails |-> IF row[m] # None /\ row[m].due_in > 0
                               THEN [row[m] EXCEPT !.due_in = @ - 1] ELSE row[m]]
  /\ UNCHANGED <<phase, batch, current, deliveries, faults>>

-----------------------------------------------------------------------------
Fault == faults < MaxFaults /\ faults' = faults + 1

\* The statement that records the outcome fails; the error is only logged.
MarkLost(w) ==
  /\ Fault
  /\ phase[w] \in {"delivered", "refused"}
  /\ Drop(w)
  /\ UNCHANGED <<row, deliveries>>

\* The claim is committed but its answer is lost, or a row does not decode:
\* the tick returns without the batch.
ClaimLost(w) ==
  /\ Fault
  /\ phase[w] = "ready"
  /\ \E S \in Claimable : ClaimRows(S)
  /\ phase' = [phase EXCEPT ![w] = "asleep"]
  /\ UNCHANGED <<batch, current, deliveries>>

\* The process dies and is started again; the batch was only in memory.
Crash(w) ==
  /\ Fault
  /\ phase[w] # "stopped"
  /\ phase' = [phase EXCEPT ![w] = "ready"]
  /\ batch' = [batch EXCEPT ![w] = {}]
  /\ current' = [current EXCEPT ![w] = None]
  /\ UNCHANGED <<row, deliveries>>

Step(w) ==
  \/ ClaimDue(w) \/ TakeNext(w) \/ FinishBatch(w) \/ Wake(w) \/ Start(w)
  \/ MarkSent(w) \/ MarkFailed(w) \/ Reschedule(w)

Next ==
  \/ \E m \in Mails : Enqueue(m)
  \/ \E w \in Workers : Step(w) \/ Send(w) \/ Stop(w)
  \/ \E w \in Workers : MarkLost(w) \/ ClaimLost(w) \/ Crash(w)
  \/ Elapse

Spec == Init /\ [][Next]_vars

\* The worker's task is scheduled, the process is started again after a
\* shutdown, time passes, and the provider answers (the HTTP client of
\* email/resend.rs has no timeout, so the last is an assumption).
FairSpec ==
  /\ Spec
  /\ WF_vars(Elapse)
  /\ \A w \in Workers : WF_vars(Step(w)) /\ WF_vars(Send(w))

-----------------------------------------------------------------------------
Limit == IF MaxAttempts < 1 THEN 1 ELSE MaxAttempts

Settled(m) == row[m] # None /\ row[m].status \in {"sent", "failed"}

\* A mail is handled by one worker at a time, and its row says so: two workers
\* (or a worker and its restarted successor) never send the same mail at once.
Exclusive ==
  \A w, v \in Workers : \A c \in batch[w], d \in batch[v] :
    /\ row[c.id] # None /\ row[c.id].status = "processing"
    /\ c.id = d.id => w = v /\ c = d

\* The number of attempts never passes the limit, a row that waits has one
\* left, and a row is given up only when none is left, also for limits <= 0.
AttemptsBounded ==
  \A m \in Mails : row[m] # None =>
    /\ row[m].attempts <= Limit
    /\ row[m].status = "pending" => row[m].attempts < Limit
    /\ row[m].status = "failed" => row[m].attempts = Limit

\* A recipient never gets more copies than there were attempts, and a mail
\* recorded as sent was delivered.
DeliveriesBounded ==
  \A m \in Mails :
    /\ row[m] = None => deliveries[m] = 0
    /\ row[m] # None => deliveries[m] <= row[m].attempts
    /\ row[m] # None /\ row[m].status = "sent" => deliveries[m] >= 1

\* In processing, and in no worker's batch: nothing claims the row again.
Stranded(m) ==
  /\ row[m] # None /\ row[m].status = "processing"
  /\ \A w \in Workers : \A c \in batch[w] : c.id # m

\* Only a fault strands mails, and one fault strands no more than a batch: a
\* shutdown leaves nothing behind (main.rs:126-128), a second worker that goes
\* on neither (queue/worker.rs:55).
StrandedByFaults == Cardinality({m \in Mails : Stranded(m)}) <= faults * BatchSize

\* Every mail that is queued is sent or given up in the end (README.md:47).
EventuallySettled == \A m \in Mails : row[m] # None ~> Settled(m)

\* What is true of it: every mail is sent or given up, or a fault has stranded it.
SettledUnlessStranded ==
  \A m \in Mails : row[m] # None ~> Settled(m) \/ (faults > 0 /\ Stranded(m))

\* What the services see of a row, and of the provider.
Fate(r) == IF r = None THEN "none"
           ELSE IF r.status \in {"sent", "failed"} THEN r.status ELSE "queued"
Fates == [m \in Mails |-> Fate(row[m])]
Reached == {m \in Mails : deliveries[m] > 0}

Delivery == INSTANCE Outbox WITH fate <- Fates, delivered <- Reached

\* The queue implements Outbox: a mail is in the queue until its fate is
\* settled, once, and it counts as sent only if it was delivered.
ImplementsOutbox == Delivery!OutboxSpec
=============================================================================
