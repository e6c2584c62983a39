--------------------------- MODULE PlatformProofs ---------------------------
(***************************************************************************)
(* The server disturbs neither of its parts: every behaviour of Platform   *)
(* is one of Listings and one of EmailQueue, for any number of workers,    *)
(* mails, jobs and requests.  What is proved of listings holds of the      *)
(* server.                                                                 *)
(***************************************************************************)
EXTENDS Platform, ListingsProofs

\* Steps of the queue, of a tick and of a crash leave the listings alone, but for the sweep.
LEMMA ListingsStep == [PlatformNext]_platformVars => [Next]_vars
<1> SUFFICES ASSUME [PlatformNext]_platformVars PROVE [Next]_vars
  OBVIOUS
<1>1. CASE Server /\ UNCHANGED <<queueVars, swept>>
  BY <1>1 DEF Server, Next
<1>2. CASE QueueStep /\ UNCHANGED <<vars, swept>>
  BY <1>2
<1>3. ASSUME NEW w \in Workers, Sweep(w) PROVE [Next]_vars
  BY <1>3 DEF Sweep, NothingDue, Next
<1>4. ASSUME NEW w \in Workers, SweepFails(w) \/ Claim(w) \/ Crash(w) PROVE [Next]_vars
  BY <1>4 DEF SweepFails, Claim, Crash, vars
<1>5. CASE UNCHANGED platformVars
  BY <1>5 DEF platformVars
<1> QED BY <1>1, <1>2, <1>3, <1>4, <1>5 DEF PlatformNext

\* The composition implements Listings: a sweep is one whole step of a tick.
THEOREM ServesListings == PlatformSpec => Spec
<1>1. PlatformInit => Init
  BY DEF PlatformInit
<1> QED BY <1>1, ListingsStep, PTL DEF PlatformSpec, Spec

\* The three invariants of listings hold of the server, mails and worker included.
THEOREM ServerListings == PlatformSpec => [](JobsCoherent /\ SalariesValid /\ JobsNeedVetting)
BY ServesListings, Coherence, Salaries, Vetting, PTL

\* What a job keeps for good, it keeps in the server, whatever requests overlap
\* and whatever mails and faults keep the worker from its sweep: lost updates
\* alone take it away (service/job.rs, queue/worker.rs).
THEOREM ServerHistory ==
  PlatformSpec => DeletedIsFrozen /\ PromotionKept /\ PublicationDateKept
BY ServesListings, DeletedFrozen, PromotionStays, PublicationDateStays, PTL

-----------------------------------------------------------------------------
\* A worker between two batches holds no mail, and one between two mails has
\* none in hand.
HandsFree ==
  \A w \in Workers :
    /\ phase[w] \in {"ready", "asleep", "stopped"} => batch[w] = {} /\ current[w] = None
    /\ phase[w] = "working" => current[w] = None

Hands ==
  /\ DOMAIN phase = Workers /\ phase = [w \in Workers |-> phase[w]]
  /\ DOMAIN batch = Workers /\ batch = [w \in Workers |-> batch[w]]
  /\ DOMAIN current = Workers /\ current = [w \in Workers |-> current[w]]
  /\ HandsFree

LEMMA HandsInit == PlatformInit => Hands
BY DEF PlatformInit, Queue!Init, Hands, HandsFree

LEMMA HandsKept ==
  ASSUME Hands, UNCHANGED <<phase, batch, current>>
  PROVE  Hands'
BY DEF Hands, HandsFree

\* The steps of one worker leave the others' hands alone.
LEMMA HandleHands ==
  ASSUME Hands, NEW w \in Workers, Handle(w) \/ Queue!Send(w) \/ Queue!Stop(w) \/ Queue!MarkLost(w)
  PROVE  Hands'
<1> USE DEF Hands, HandsFree
<1>1. CASE Queue!TakeNext(w)
  BY <1>1 DEF Queue!TakeNext
<1>2. CASE Queue!FinishBatch(w) \/ Queue!Wake(w) \/ Queue!Start(w) \/ Queue!Stop(w)
  BY <1>2 DEF Queue!FinishBatch, Queue!Wake, Queue!Start, Queue!Stop
<1>3. CASE Queue!MarkSent(w) \/ Queue!MarkFailed(w) \/ Queue!Reschedule(w) \/ Queue!MarkLost(w)
  BY <1>3 DEF Queue!MarkSent, Queue!MarkFailed, Queue!Reschedule, Queue!MarkLost, Queue!Drop
<1>4. CASE Queue!Send(w)
  BY <1>4 DEF Queue!Send
<1> QED BY <1>1, <1>2, <1>3, <1>4 DEF Handle

LEMMA TickHands ==
  ASSUME Hands, NEW w \in Workers, Claim(w) \/ Crash(w)
  PROVE  Hands'
<1> USE DEF Hands, HandsFree
<1>1. CASE Queue!ClaimDue(w)
  BY <1>1 DEF Queue!ClaimDue
<1>2. CASE Queue!ClaimLost(w)
  BY <1>2 DEF Queue!ClaimLost
<1>3. CASE Queue!Crash(w)
  BY <1>3 DEF Queue!Crash
<1> QED BY <1>1, <1>2, <1>3 DEF Claim, Crash

LEMMA HandsNext == Hands /\ [PlatformNext]_platformVars => Hands'
<1> SUFFICES ASSUME Hands, [PlatformNext]_platformVars PROVE Hands'
  OBVIOUS
<1>1. CASE Server /\ UNCHANGED <<queueVars, swept>>
  BY <1>1, HandsKept DEF queueVars
<1>2. CASE QueueStep
  <2>1. ASSUME NEW m \in Mails, Queue!Enqueue(m) PROVE Hands'
    BY <2>1, HandsKept DEF Queue!Enqueue
  <2>2. CASE Queue!Elapse
    BY <2>2, HandsKept DEF Queue!Elapse
  <2> QED BY <1>2, <2>1, <2>2, HandleHands DEF QueueStep
<1>3. ASSUME NEW w \in Workers, Sweep(w) \/ SweepFails(w) PROVE Hands'
  BY <1>3, HandsKept DEF Sweep, SweepFails, queueVars
<1>4. CASE UNCHANGED platformVars
  BY <1>4, HandsKept DEF platformVars, queueVars
<1> QED BY <1>1, <1>2, <1>3, <1>4, TickHands DEF PlatformNext

-----------------------------------------------------------------------------
\* A tick is a step of the queue or hidden from it; a sweep that fails looks to
\* the queue like a crash of a worker that holds nothing.
LEMMA QueueStepRefines ==
  ASSUME Hands, [PlatformNext]_platformVars
  PROVE  [Queue!Next]_(Queue!vars)
<1>1. CASE Server /\ UNCHANGED <<queueVars, swept>>
  BY <1>1 DEF queueVars, Queue!vars
<1>2. CASE QueueStep
  BY <1>2 DEF QueueStep, Handle, Queue!Next, Queue!Step
<1>3. ASSUME NEW w \in Workers, Sweep(w) PROVE [Queue!Next]_(Queue!vars)
  BY <1>3 DEF Sweep, queueVars, Queue!vars
<1>4. ASSUME NEW w \in Workers, SweepFails(w) PROVE [Queue!Next]_(Queue!vars)
  <2>1. phase[w] = "ready" /\ batch[w] = {} /\ current[w] = None
    BY <1>4 DEF SweepFails, BeginsTick, Hands, HandsFree
  <2>2. /\ phase = [phase EXCEPT ![w] = "ready"]
        /\ batch = [batch EXCEPT ![w] = {}]
        /\ current = [current EXCEPT ![w] = None]
    BY <2>1 DEF Hands
  <2>3. Queue!Crash(w)
    BY <1>4, <2>1, <2>2 DEF SweepFails, Queue!Crash
  <2> QED BY <2>3 DEF Queue!Next
<1>5. ASSUME NEW w \in Workers, Claim(w) \/ Crash(w) PROVE [Queue!Next]_(Queue!vars)
  BY <1>5 DEF Claim, Crash, Queue!Next, Queue!Step
<1>6. CASE UNCHANGED platformVars
  BY <1>6 DEF platformVars, queueVars, Queue!vars
<1> QED BY <1>1, <1>2, <1>3, <1>4, <1>5, <1>6 DEF PlatformNext

\* The composition implements the queue: requests and the sweep do not touch it.
THEOREM ServesQueue == PlatformSpec => Queue!Spec
<1>1. PlatformInit => Queue!Init
  BY DEF PlatformInit
<1>2. PlatformSpec => []Hands
  BY HandsInit, HandsNext, PTL DEF PlatformSpec
<1>3. Hands /\ [PlatformNext]_platformVars => [Queue!Next]_(Queue!vars)
  BY QueueStepRefines
<1> QED BY <1>1, <1>2, <1>3, PTL DEF PlatformSpec, Queue!Spec

-----------------------------------------------------------------------------
\* The queue of the server is the one EmailQueueProofs is about: the instances
\* are one by definition.
Mailing == INSTANCE EmailQueueProofs WITH row <- mail

LEMMA SameCardinality == \A S : Queue!Cardinality(S) = Mailing!Cardinality(S)
BY DEF Queue!Cardinality, Mailing!Cardinality

LEMMA SameQueue == Queue!Next <=> Mailing!Next
<1>1. Queue!Claimable = Mailing!Claimable
  <2>1. Queue!Due = Mailing!Due
    BY DEF Queue!Due, Mailing!Due
  <2> QED BY <2>1, SameCardinality DEF Queue!Claimable, Mailing!Claimable, Queue!Least,
         Mailing!Least
<1>2. \A S : Queue!ClaimRows(S) <=> Mailing!ClaimRows(S)
  BY DEF Queue!ClaimRows, Mailing!ClaimRows
<1>3. \A w : Queue!Drop(w) <=> Mailing!Drop(w)
  BY DEF Queue!Drop, Mailing!Drop
<1>4. \A w : /\ Queue!ClaimDue(w) <=> Mailing!ClaimDue(w)
             /\ Queue!ClaimLost(w) <=> Mailing!ClaimLost(w)
  BY <1>1, <1>2 DEF Queue!ClaimDue, Mailing!ClaimDue, Queue!ClaimLost, Mailing!ClaimLost,
         Queue!Fault, Mailing!Fault
<1>5. \A w : Queue!Step(w) <=> Mailing!Step(w)
  BY <1>3, <1>4 DEF Queue!Step, Mailing!Step, Queue!TakeNext, Mailing!TakeNext,
         Queue!FinishBatch, Mailing!FinishBatch, Queue!Wake, Mailing!Wake, Queue!Start,
         Mailing!Start, Queue!MarkSent, Mailing!MarkSent, Queue!MarkFailed,
         Mailing!MarkFailed, Queue!Reschedule, Mailing!Reschedule, Queue!Exhausted,
         Mailing!Exhausted, Queue!Backoff, Mailing!Backoff, Queue!Clamp, Mailing!Clamp,
         Queue!Least, Mailing!Least
<1>6. \A w : (Queue!Send(w) <=> Mailing!Send(w)) /\ (Queue!Stop(w) <=> Mailing!Stop(w))
  BY DEF Queue!Send, Mailing!Send, Queue!Stop, Mailing!Stop
<1>7. \A w : /\ Queue!MarkLost(w) <=> Mailing!MarkLost(w)
             /\ Queue!Crash(w) <=> Mailing!Crash(w)
  BY <1>3 DEF Queue!MarkLost, Mailing!MarkLost, Queue!Crash, Mailing!Crash, Queue!Fault,
         Mailing!Fault
<1>8. (Queue!Elapse <=> Mailing!Elapse) /\ \A m : Queue!Enqueue(m) <=> Mailing!Enqueue(m)
  BY DEF Queue!Elapse, Mailing!Elapse, Queue!Enqueue, Mailing!Enqueue
<1> QED BY <1>4, <1>5, <1>6, <1>7, <1>8 DEF Queue!Next, Mailing!Next

LEMMA ServesMailing == PlatformSpec => Mailing!Spec
<1>1. Queue!Init => Mailing!Init
  BY DEF Queue!Init, Mailing!Init
<1>2. [Queue!Next]_(Queue!vars) => [Mailing!Next]_(Mailing!vars)
  BY SameQueue DEF Queue!vars, Mailing!vars
<1> QED BY <1>1, <1>2, ServesQueue, PTL DEF Queue!Spec, Mailing!Spec

LEMMA MailAssumed == Mailing!QueueAssumption /\ Mailing!NoneIsNoRow /\ Mailing!PowersOfTwo
BY MailAssumption DEF Queue!Row, Mailing!Row, Queue!Claimed, Mailing!Claimed,
       Queue!RowStatuses, Mailing!RowStatuses

\* The four promises of the queue hold of the server, requests and sweeps
\* included: one holder per mail, bounded attempts, bounded copies, and no more
\* stranded mails than faults explain.
THEOREM ServerMails ==
  PlatformSpec => []( /\ Queue!Exclusive /\ Queue!AttemptsBounded
                      /\ Queue!DeliveriesBounded /\ Queue!StrandedByFaults )
<1>1. Mailing!Spec => []Mailing!Exclusive
  BY MailAssumed, Mailing!OneSender
<1>2. Mailing!Spec => []Mailing!AttemptsBounded
  BY MailAssumed, Mailing!AttemptLimit
<1>3. Mailing!Spec => []Mailing!DeliveriesBounded
  BY MailAssumed, Mailing!CopiesLimit
<1>4. Mailing!Spec => []Mailing!StrandedByFaults
  BY MailAssumed, Mailing!FaultsStrand
<1>5. Mailing!Exclusive => Queue!Exclusive
  BY DEF Queue!Exclusive, Mailing!Exclusive
<1>6. Mailing!AttemptsBounded => Queue!AttemptsBounded
  BY DEF Queue!AttemptsBounded, Mailing!AttemptsBounded, Queue!Limit, Mailing!Limit
<1>7. Mailing!DeliveriesBounded => Queue!DeliveriesBounded
  BY DEF Queue!DeliveriesBounded, Mailing!DeliveriesBounded
<1>8. Mailing!StrandedByFaults => Queue!StrandedByFaults
  BY SameCardinality DEF Queue!StrandedByFaults, Mailing!StrandedByFaults, Queue!Stranded,
         Mailing!Stranded
<1> QED BY <1>1, <1>2, <1>3, <1>4, <1>5, <1>6, <1>7, <1>8, ServesMailing, PTL

\* A fate is final in the server too, and nothing is sent after it.
THEOREM ServerOutbox == PlatformSpec => Mailing!ImplementsOutbox
<1>1. Mailing!Spec => Mailing!ImplementsOutbox
  BY MailAssumed, Mailing!KeepsOutbox
<1> QED BY <1>1, ServesMailing, PTL
=============================================================================
