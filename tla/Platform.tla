------------------------------ MODULE Platform ------------------------------
(***************************************************************************)
(* The server as main.rs puts it together: the requests on jobs (Listings),*)
(* the mail queue (EmailQueue), and the one task that serves both.  A tick *)
(* of the worker sweeps the jobs that are due, then claims mails and sends *)
(* them one after the other, so that the sweep waits for the provider.     *)
(***************************************************************************)
EXTENDS Listings
CONSTANTS
  Mails, Workers, MaxAttempts, BatchSize, BackoffBase, BackoffMax, MaxFaults

VARIABLES
  mail,            \* the table queue_jobs
  phase, batch, current, deliveries, faults,
  swept            \* the workers whose tick has done its sweep

Queue == INSTANCE EmailQueue WITH row <- mail

\* What EmailQueue assumes of the constants.
ASSUME MailAssumption ==
  /\ MaxAttempts \in Int /\ BatchSize \in Nat
  /\ BackoffBase \in Nat \ {0} /\ BackoffMax \in Nat /\ MaxFaults \in Nat
  /\ None \notin Queue!Row \cup Queue!Claimed
  /\ \A e \in 0..15 : 2 ^ e \in Nat

queueVars == <<mail, phase, batch, current, deliveries, faults>>
platformVars == <<vars, queueVars, swept>>

PlatformInit ==
  /\ Init
  /\ Queue!Init
  /\ swept = {}

-----------------------------------------------------------------------------
BeginsTick(w) == phase[w] = "ready" /\ w \notin swept

NothingDue == ~(\E j \in Jids : Due(j)) /\ UNCHANGED vars

\* Mutant: a tick without mail ends before the sweep.
SweepIfMail(w) ==
  /\ BeginsTick(w)
  /\ IF Queue!Due # {} THEN ExpireDue \/ NothingDue ELSE UNCHANGED vars
  /\ swept' = swept \cup {w}
  /\ UNCHANGED queueVars

\* process_tick begins with expire_due.
Sweep(w) ==
  /\ BeginsTick(w)
  /\ ExpireDue \/ NothingDue
  /\ swept' = swept \cup {w}
  /\ UNCHANGED queueVars

\* An error of expire_due is logged and the tick goes on.
SweepFails(w) ==
  /\ Queue!Fault
  /\ BeginsTick(w)
  /\ swept' = swept \cup {w}
  /\ UNCHANGED <<vars, mail, phase, batch, current, deliveries>>

\* The second half of the tick; a claim that fails ends it.
Claim(w) ==
  /\ w \in swept
  /\ Queue!ClaimDue(w) \/ Queue!ClaimLost(w)
  /\ swept' = swept \ {w}
  /\ UNCHANGED vars

Crash(w) ==
  /\ Queue!Crash(w)
  /\ swept' = swept \ {w}
  /\ UNCHANGED vars

\* What the worker does with its batch, and between two ticks.
Handle(w) ==
  \/ Queue!TakeNext(w) \/ Queue!FinishBatch(w) \/ Queue!Wake(w) \/ Queue!Start(w)
  \/ Queue!MarkSent(w) \/ Queue!MarkFailed(w) \/ Queue!Reschedule(w)

QueueStep ==
  \/ \E m \in Mails : Queue!Enqueue(m)
  \/ \E w \in Workers : Handle(w) \/ Queue!Send(w) \/ Queue!Stop(w) \/ Queue!MarkLost(w)
  \/ Queue!Elapse

\* Requests, administrators and the clock; the sweep is the worker's.
Server ==
  \/ ApprovalNext /\ UNCHANGED <<now, job, req>>
  \/ \E r \in Requests : Request(r)
  \/ Tick

PlatformNext ==
  \/ Server /\ UNCHANGED <<queueVars, swept>>
  \/ QueueStep /\ UNCHANGED <<vars, swept>>
  \/ \E w \in Workers : Sweep(w) \/ SweepFails(w) \/ Claim(w) \/ Crash(w)

PlatformSpec == PlatformInit /\ [][PlatformNext]_platformVars

\* The worker's own steps: the task runs, the process is started again after a
\* shutdown.
Worker(w) ==
  \/ Sweep(w)
  \/ w \in swept /\ Queue!ClaimDue(w) /\ swept' = swept \ {w} /\ UNCHANGED vars
  \/ Handle(w) /\ UNCHANGED <<vars, swept>>

\* As in EmailQueue!FairSpec, and nothing about the sweep: that it happens is
\* to be shown.
PlatformFairSpec ==
  /\ PlatformSpec
  /\ WF_platformVars(Queue!Elapse /\ UNCHANGED <<vars, swept>>)
  /\ \A w \in Workers : /\ WF_platformVars(Worker(w))
                        /\ WF_platformVars(Queue!Send(w) /\ UNCHANGED <<vars, swept>>)

-----------------------------------------------------------------------------
\* The server is a behaviour of each of its parts with the fairness each was
\* checked under: in spite of mails, retries, faults and shutdowns the worker
\* comes back to the sweep (queue/worker.rs:41), and requests and the sweep do
\* not disturb the queue.
ImplementsParts == FairSpec /\ Queue!FairSpec

\* Every mail is sent, given up, or stranded by a fault, while the same task
\* sweeps jobs (README.md:47).
MailSettles == Queue!SettledUnlessStranded
=============================================================================
