-------------------------- MODULE EmailQueueProofs --------------------------
(***************************************************************************)
(* The safety of EmailQueue for any number of mails, workers, faults and   *)
(* any limit on attempts, and the step simulation of Outbox.  The heart of *)
(* the argument is that a claim is the only way a row becomes processing,  *)
(* it takes pending rows only, and it counts the attempt in the same       *)
(* statement: the copy in a batch agrees with its row until it is dropped. *)
(***************************************************************************)
EXTENDS EmailQueue, FiniteSetTheorems, TLAPS

Handling == {"sending", "delivered", "refused"}
Answered(w) == phase[w] \in {"delivered", "refused"}

\* A copy in a batch agrees with its row, and the claim counted an attempt.
CopiesAgree ==
  \A w \in Workers : \A c \in batch[w] :
    /\ row[c.id] # None
    /\ row[c.id].status = "processing"
    /\ row[c.id].attempts = c.attempts
    /\ c.attempts >= 1

\* No two copies of a row are held.
OneHolder ==
  \A w, v \in Workers : \A c \in batch[w], d \in batch[v] :
    c.id = d.id => w = v /\ c = d

CurrentHeld == \A w \in Workers : phase[w] \in Handling => current[w] \in batch[w]

\* An attempt that has not been answered has not been delivered.
Unanswered ==
  \A w \in Workers : \A c \in batch[w] :
    deliveries[c.id] < c.attempts \/ (Answered(w) /\ c = current[w])

Confirmed == \A w \in Workers : phase[w] = "delivered" => deliveries[current[w].id] >= 1

IInv ==
  /\ TypeOK
  /\ CopiesAgree
  /\ OneHolder
  /\ CurrentHeld
  /\ Unanswered
  /\ Confirmed
  /\ AttemptsBounded
  /\ DeliveriesBounded

-----------------------------------------------------------------------------
USE QueueAssumption, NoneIsNoRow

LEMMA LimitPositive == Limit \in Nat /\ Limit >= 1 /\ Limit >= MaxAttempts
                       /\ \A n \in Nat : n >= 1 /\ n >= MaxAttempts => n >= Limit
  BY DEF Limit

LEMMA BackoffNat == ASSUME NEW n \in Nat PROVE Backoff(n) \in Nat
<1> DEFINE e == Clamp(n, 1, 16) - 1
<1>1. e \in 0..15
  BY DEF Clamp, Least
<1>2. 2 ^ e \in Nat
  BY <1>1, PowersOfTwo
<1>3. BackoffBase * 2 ^ e \in Nat
  BY <1>2
<1> QED BY <1>3 DEF Backoff, Least

LEMMA InitInv == Init => IInv
  BY DEF Init, IInv, TypeOK, CopiesAgree, OneHolder, CurrentHeld, Unanswered, Confirmed,
         AttemptsBounded, DeliveriesBounded, Phases, Handling

\* The copies a worker holds are typed; the current one is among them.
LEMMA HeldTyped ==
  ASSUME IInv, NEW w \in Workers, phase[w] \in Handling
  PROVE  /\ current[w] \in batch[w] /\ current[w] \in Claimed
         /\ current[w].id \in Mails /\ current[w].attempts \in Nat
         /\ row[current[w].id] \in Row /\ row[current[w].id] # None
         /\ row[current[w].id].status = "processing"
         /\ row[current[w].id].attempts = current[w].attempts
         /\ current[w].attempts >= 1
<1>1. current[w] \in batch[w]
  BY DEF IInv, CurrentHeld
<1>2. current[w] \in Claimed
  BY <1>1 DEF IInv, TypeOK
<1> QED BY <1>1, <1>2 DEF IInv, TypeOK, CopiesAgree, Claimed

\* Steps that change only phases, keep every answered job in hand and mark
\* nothing as delivered.
LEMMA PhaseInv ==
  ASSUME IInv, NEW w \in Workers, NEW p \in {"ready", "asleep", "stopped", "working"},
         phase' = [phase EXCEPT ![w] = p], ~Answered(w),
         UNCHANGED <<row, batch, current, deliveries>>, faults' \in Nat
  PROVE  IInv'
<1>1. /\ phase'[w] = p /\ \A v \in Workers \ {w} : phase'[v] = phase[v]
      /\ row' = row /\ batch' = batch /\ current' = current /\ deliveries' = deliveries
  BY DEF IInv, TypeOK
<1>2. TypeOK'
  BY <1>1 DEF IInv, TypeOK, Phases
<1>3. CurrentHeld' /\ Unanswered' /\ Confirmed'
  BY <1>1 DEF IInv, CurrentHeld, Unanswered, Confirmed, Handling, Answered
<1>4. CopiesAgree' /\ OneHolder' /\ AttemptsBounded' /\ DeliveriesBounded'
  BY <1>1 DEF IInv, CopiesAgree, OneHolder, AttemptsBounded, DeliveriesBounded
<1> QED BY <1>2, <1>3, <1>4 DEF IInv

LEMMA WaitInv ==
  ASSUME IInv, NEW w \in Workers, FinishBatch(w) \/ Wake(w) \/ Stop(w) \/ Start(w)
  PROVE  IInv'
<1>1. /\ ~Answered(w) /\ UNCHANGED <<row, batch, current, deliveries>> /\ faults' \in Nat
      /\ \E p \in {"ready", "asleep", "stopped", "working"} : phase' = [phase EXCEPT ![w] = p]
  BY DEF FinishBatch, Wake, Stop, Start, Answered, IInv, TypeOK
<1> QED BY <1>1, PhaseInv

LEMMA TakeNextInv ==
  ASSUME IInv, NEW w \in Workers, TakeNext(w)
  PROVE  IInv'
<1>1. PICK c \in batch[w] : current' = [current EXCEPT ![w] = c]
  BY DEF TakeNext
<1>2. /\ phase[w] = "working" /\ phase' = [phase EXCEPT ![w] = "sending"]
      /\ row' = row /\ batch' = batch /\ deliveries' = deliveries /\ faults' = faults
  BY DEF TakeNext
<1>3. /\ phase'[w] = "sending" /\ \A v \in Workers \ {w} : phase'[v] = phase[v]
      /\ current'[w] = c /\ \A v \in Workers \ {w} : current'[v] = current[v]
  BY <1>1, <1>2 DEF IInv, TypeOK
<1>4. TypeOK'
  <2>1. c \in Claimed
    BY <1>1 DEF IInv, TypeOK
  <2> QED BY <1>1, <1>2, <2>1 DEF IInv, TypeOK, Phases
<1>5. CurrentHeld' /\ Confirmed'
  BY <1>1, <1>2, <1>3 DEF IInv, CurrentHeld, Confirmed, Handling
<1>6. Unanswered'
  BY <1>2, <1>3 DEF IInv, Unanswered, Answered
<1>7. CopiesAgree' /\ OneHolder' /\ AttemptsBounded' /\ DeliveriesBounded'
  BY <1>2 DEF IInv, CopiesAgree, OneHolder, AttemptsBounded, DeliveriesBounded
<1> QED BY <1>4, <1>5, <1>6, <1>7 DEF IInv

LEMMA CrashInv ==
  ASSUME IInv, NEW w \in Workers, Crash(w)
  PROVE  IInv'
<1>1. /\ phase' = [phase EXCEPT ![w] = "ready"] /\ batch' = [batch EXCEPT ![w] = {}]
      /\ current' = [current EXCEPT ![w] = None]
      /\ row' = row /\ deliveries' = deliveries /\ faults' \in Nat
  BY DEF Crash, Fault, IInv, TypeOK
<1>2. /\ phase'[w] = "ready" /\ batch'[w] = {}
      /\ \A v \in Workers \ {w} : /\ phase'[v] = phase[v] /\ batch'[v] = batch[v]
                                  /\ current'[v] = current[v]
  BY <1>1 DEF IInv, TypeOK
<1>3. TypeOK'
  BY <1>1 DEF IInv, TypeOK, Phases
<1>4. CopiesAgree' /\ OneHolder' /\ CurrentHeld'
  BY <1>1, <1>2 DEF IInv, CopiesAgree, OneHolder, CurrentHeld, Handling
<1>5. Unanswered' /\ Confirmed'
  BY <1>1, <1>2 DEF IInv, Unanswered, Confirmed, Answered
<1>6. AttemptsBounded' /\ DeliveriesBounded'
  BY <1>1 DEF IInv, AttemptsBounded, DeliveriesBounded
<1> QED BY <1>3, <1>4, <1>5, <1>6 DEF IInv

LEMMA SendInv ==
  ASSUME IInv, NEW w \in Workers, Send(w)
  PROVE  IInv'
<1>1. PICK reached \in BOOLEAN, confirmed \in BOOLEAN :
        /\ confirmed => reached
        /\ deliveries' = IF reached THEN [deliveries EXCEPT ![current[w].id] = @ + 1]
                                    ELSE deliveries
        /\ phase' = [phase EXCEPT ![w] = IF confirmed THEN "delivered" ELSE "refused"]
  BY DEF Send
<1>2. /\ phase[w] = "sending" /\ phase[w] \in Handling
      /\ row' = row /\ batch' = batch /\ current' = current /\ faults' = faults
  BY DEF Send, Handling
<1>3. PICK m \in Mails : m = current[w].id
  BY <1>2, HeldTyped
<1>4. /\ current[w] \in batch[w] /\ current[w] \in Claimed /\ current[w].attempts \in Nat
      /\ row[m] # None /\ row[m].status = "processing"
      /\ row[m].attempts = current[w].attempts
  BY <1>2, <1>3, HeldTyped
<1>5. deliveries[m] < current[w].attempts
  BY <1>2, <1>3, <1>4 DEF IInv, Unanswered, Answered
<1>6. /\ \A n \in Mails : deliveries[n] \in Nat /\ deliveries'[n] \in Nat
      /\ \A n \in Mails : deliveries[n] <= deliveries'[n]
      /\ \A n \in Mails \ {m} : deliveries'[n] = deliveries[n]
      /\ deliveries'[m] <= current[w].attempts
      /\ confirmed => deliveries'[m] >= 1
  BY <1>1, <1>3, <1>4, <1>5 DEF IInv, TypeOK
<1>7. /\ phase'[w] = IF confirmed THEN "delivered" ELSE "refused"
      /\ \A v \in Workers \ {w} : phase'[v] = phase[v]
  BY <1>1 DEF IInv, TypeOK
<1>8. TypeOK'
  <2>1. deliveries' \in [Mails -> Nat]
    BY <1>1, <1>3 DEF IInv, TypeOK
  <2> QED BY <1>1, <1>2, <2>1 DEF IInv, TypeOK, Phases
<1>9. CopiesAgree' /\ OneHolder' /\ AttemptsBounded' /\ CurrentHeld'
  BY <1>2, <1>7 DEF IInv, CopiesAgree, OneHolder, AttemptsBounded, CurrentHeld, Handling
<1>10. Unanswered'
  <2> SUFFICES ASSUME NEW v \in Workers, NEW c \in batch[v]
               PROVE  deliveries'[c.id] < c.attempts
                      \/ (phase'[v] \in {"delivered", "refused"} /\ c = current[v])
    BY <1>2 DEF Unanswered, Answered
  <2>1. c.id \in Mails
    BY DEF IInv, TypeOK, Claimed
  <2>2. CASE c.id = m
    <3>1. v = w /\ c = current[w]
      BY <1>3, <1>4, <2>2 DEF IInv, OneHolder
    <3> QED BY <1>7, <3>1
  <2>3. CASE c.id # m
    <3>1. deliveries'[c.id] = deliveries[c.id] /\ ~(v = w /\ c = current[w])
      BY <1>3, <1>6, <2>1, <2>3
    <3>2. deliveries[c.id] < c.attempts \/ (Answered(v) /\ c = current[v])
      BY DEF IInv, Unanswered
    <3>3. v # w => phase'[v] = phase[v]
      BY <1>7
    <3>4. ~Answered(w)
      BY <1>2 DEF Answered
    <3> QED BY <3>1, <3>2, <3>3, <3>4 DEF Answered
  <2> QED BY <2>2, <2>3
<1>11. Confirmed'
  <2> SUFFICES ASSUME NEW v \in Workers, phase'[v] = "delivered"
               PROVE  deliveries'[current[v].id] >= 1
    BY <1>2 DEF Confirmed
  <2>1. CASE v = w
    BY <1>3, <1>6, <1>7, <2>1
  <2>2. CASE v # w
    <3>1. phase[v] = "delivered" /\ deliveries[current[v].id] >= 1 /\ phase[v] \in Handling
      BY <1>7, <2>2 DEF IInv, Confirmed, Handling
    <3>2. current[v].id \in Mails
      BY <3>1, HeldTyped
    <3> QED BY <1>6, <3>1, <3>2
  <2> QED BY <2>1, <2>2
<1>12. DeliveriesBounded'
  BY <1>2, <1>4, <1>6 DEF IInv, DeliveriesBounded
<1> QED BY <1>8, <1>9, <1>10, <1>11, <1>12 DEF IInv

\* The worker lets go of the job in hand, and its row becomes what the caller
\* shows: still processing (a lost statement), settled, or pending again.
LEMMA DropInv ==
  ASSUME IInv, NEW w \in Workers, phase[w] \in Handling, Drop(w),
         deliveries' = deliveries, faults' \in Nat,
         NEW s \in RowStatuses, NEW d \in Nat,
         row' = [row EXCEPT ![current[w].id] = [@ EXCEPT !.status = s, !.due_in = d]],
         s = "pending" => current[w].attempts < Limit,
         s = "failed" => current[w].attempts = Limit,
         s = "sent" => deliveries[current[w].id] >= 1
  PROVE  IInv'
<1>1. PICK m \in Mails : m = current[w].id
  BY HeldTyped
<1>2. /\ current[w] \in batch[w] /\ current[w].attempts \in Nat
      /\ row[m] \in Row /\ row[m] # None /\ row[m].status = "processing"
      /\ row[m].attempts = current[w].attempts
  BY <1>1, HeldTyped
<1>3. /\ row'[m] \in Row /\ row'[m] # None /\ row'[m].status = s
      /\ row'[m].attempts = row[m].attempts
      /\ \A n \in Mails \ {m} : row'[n] = row[n]
  BY <1>1, <1>2 DEF IInv, TypeOK, Row
<1>4. /\ phase'[w] = "working" /\ batch'[w] = batch[w] \ {current[w]}
      /\ \A v \in Workers \ {w} : /\ phase'[v] = phase[v] /\ batch'[v] = batch[v]
                                  /\ current'[v] = current[v]
  BY DEF Drop, IInv, TypeOK
<1>5. \A v \in Workers : \A c \in batch'[v] : c \in batch[v] /\ c.id # m /\ c.id \in Mails
  <2> SUFFICES ASSUME NEW v \in Workers, NEW c \in batch'[v]
               PROVE  c \in batch[v] /\ c.id # m /\ c.id \in Mails
    OBVIOUS
  <2>1. c \in batch[v] /\ ~(v = w /\ c = current[w])
    BY <1>4
  <2> QED BY <1>1, <1>2, <2>1 DEF IInv, OneHolder, TypeOK, Claimed
<1>6. TypeOK'
  <2>1. row' \in [Mails -> Row \cup {None}]
    BY <1>1, <1>3 DEF IInv, TypeOK
  <2> QED BY <2>1 DEF IInv, TypeOK, Drop, Phases
<1>7. CopiesAgree' /\ OneHolder'
  <2>1. \A v \in Workers : \A c \in batch'[v] : row'[c.id] = row[c.id]
    BY <1>3, <1>5
  <2>2. CopiesAgree'
    BY <1>5, <2>1 DEF IInv, CopiesAgree
  <2>3. OneHolder'
    BY <1>5 DEF IInv, OneHolder
  <2> QED BY <2>2, <2>3
<1>8. CurrentHeld' /\ Confirmed'
  BY <1>4 DEF IInv, CurrentHeld, Confirmed, Handling
<1>9. Unanswered'
  BY <1>1, <1>4, <1>5 DEF IInv, Unanswered, Answered
<1>10. AttemptsBounded' /\ DeliveriesBounded'
  <2> SUFFICES ASSUME NEW n \in Mails
               PROVE  /\ row'[n] # None =>
                           /\ row'[n].attempts <= Limit
                           /\ row'[n].status = "pending" => row'[n].attempts < Limit
                           /\ row'[n].status = "failed" => row'[n].attempts = Limit
                      /\ row'[n] = None => deliveries'[n] = 0
                      /\ row'[n] # None => deliveries'[n] <= row'[n].attempts
                      /\ row'[n] # None /\ row'[n].status = "sent" => deliveries'[n] >= 1
    BY DEF AttemptsBounded, DeliveriesBounded, Limit
  <2>1. CASE n = m
    BY <1>1, <1>2, <1>3, <2>1 DEF IInv, AttemptsBounded, DeliveriesBounded
  <2>2. CASE n # m
    BY <1>3, <2>2 DEF IInv, AttemptsBounded, DeliveriesBounded
  <2> QED BY <2>1, <2>2
<1> QED BY <1>6, <1>7, <1>8, <1>9, <1>10 DEF IInv

LEMMA MarkInv ==
  ASSUME IInv, NEW w \in Workers,
         MarkSent(w) \/ MarkFailed(w) \/ Reschedule(w) \/ MarkLost(w)
  PROVE  IInv'
<1>1. phase[w] \in Handling
  BY DEF MarkSent, MarkFailed, Reschedule, MarkLost, Handling
<1>2. PICK m \in Mails : m = current[w].id
  BY <1>1, HeldTyped
<1>3. /\ current[w].attempts \in Nat /\ current[w].attempts >= 1 /\ current[w].attempts <= Limit
      /\ row[m] \in Row /\ row[m].status = "processing"
  BY <1>1, <1>2, HeldTyped DEF IInv, AttemptsBounded
<1>4. Drop(w) /\ deliveries' = deliveries /\ faults' \in Nat
  BY DEF MarkSent, MarkFailed, Reschedule, MarkLost, Fault, IInv, TypeOK
<1>5. CASE MarkSent(w)
  <2>1. deliveries[current[w].id] >= 1
    BY <1>5 DEF MarkSent, IInv, Confirmed
  <2>2. row' = [row EXCEPT ![current[w].id] = [@ EXCEPT !.status = "sent", !.due_in = row[m].due_in]]
    BY <1>2, <1>3, <1>5 DEF MarkSent, Row, IInv, TypeOK
  <2>3. row[m].due_in \in Nat /\ "sent" \in RowStatuses
    BY <1>3 DEF Row, RowStatuses
  <2> QED BY <1>1, <1>4, <2>1, <2>2, <2>3, DropInv
<1>6. CASE MarkFailed(w)
  <2>1. current[w].attempts = Limit
    BY <1>3, <1>6, LimitPositive DEF MarkFailed, Exhausted
  <2>2. row' = [row EXCEPT ![current[w].id] = [@ EXCEPT !.status = "failed", !.due_in = row[m].due_in]]
    BY <1>2, <1>3, <1>6 DEF MarkFailed, Row, IInv, TypeOK
  <2>3. row[m].due_in \in Nat /\ "failed" \in RowStatuses
    BY <1>3 DEF Row, RowStatuses
  <2> QED BY <1>1, <1>4, <2>1, <2>2, <2>3, DropInv
<1>7. CASE Reschedule(w)
  <2>1. current[w].attempts < Limit
    BY <1>3, <1>7 DEF Reschedule, Exhausted, Limit
  <2>2. PICK d \in Nat : d = Backoff(current[w].attempts)
    BY <1>3, BackoffNat
  <2>3. row' = [row EXCEPT ![current[w].id] = [@ EXCEPT !.status = "pending", !.due_in = d]]
    BY <1>7, <2>2 DEF Reschedule
  <2>4. "pending" \in RowStatuses
    BY DEF RowStatuses
  <2> QED BY <1>1, <1>4, <2>1, <2>3, <2>4, DropInv
<1>8. CASE MarkLost(w)
  <2>1. row' = [row EXCEPT ![current[w].id] = [@ EXCEPT !.status = "processing", !.due_in = row[m].due_in]]
    BY <1>2, <1>3, <1>8 DEF MarkLost, Row, IInv, TypeOK
  <2>2. row[m].due_in \in Nat /\ "processing" \in RowStatuses
    BY <1>3 DEF Row, RowStatuses
  <2> QED BY <1>1, <1>4, <2>1, <2>2, DropInv
<1> QED BY <1>5, <1>6, <1>7, <1>8

-----------------------------------------------------------------------------
\* A claim takes pending rows, counts an attempt and changes nothing else.
LEMMA ClaimEffect ==
  ASSUME IInv, NEW S \in SUBSET Due, ClaimRows(S)
  PROVE  /\ \A m \in S : /\ m \in Mails /\ row[m] \in Row /\ row[m] # None
                        /\ row[m].status = "pending"
                        /\ row[m].attempts \in Nat /\ row[m].attempts < Limit
         /\ \A m \in S : /\ row'[m] \in Row /\ row'[m] # None
                        /\ row'[m].status = "processing"
                        /\ row'[m].attempts = row[m].attempts + 1
         /\ \A m \in Mails \ S : row'[m] = row[m]
         /\ row' \in [Mails -> Row \cup {None}]
<1>1. \A m \in S : /\ m \in Mails /\ row[m] \in Row /\ row[m] # None
                 /\ row[m].status = "pending"
                 /\ row[m].attempts \in Nat /\ row[m].attempts < Limit
  BY DEF Due, IInv, TypeOK, AttemptsBounded, Row
<1>2. \A m \in Mails :
        row'[m] = IF m \in S THEN [row[m] EXCEPT !.status = "processing", !.attempts = @ + 1]
                             ELSE row[m]
  BY DEF ClaimRows
<1>3. ASSUME NEW m \in S
      PROVE  /\ row'[m] \in Row /\ row'[m].status = "processing"
             /\ row'[m].attempts = row[m].attempts + 1
  <2>1. row[m] \in Row /\ row'[m] = [row[m] EXCEPT !.status = "processing", !.attempts = @ + 1]
    BY <1>1, <1>2
  <2>2. row'[m] = [status |-> "processing", attempts |-> row[m].attempts + 1,
                   due_in |-> row[m].due_in]
    BY <2>1 DEF Row
  <2>3. row[m].due_in \in Nat /\ row[m].attempts + 1 \in Nat
    BY <2>1 DEF Row
  <2> QED BY <2>2, <2>3 DEF Row, RowStatuses
<1>4. \A m \in Mails \ S : row'[m] = row[m]
  BY <1>2
<1>5. row' \in [Mails -> Row \cup {None}]
  <2>1. row' = [m \in Mails |-> row'[m]]
    BY DEF ClaimRows
  <2>2. \A m \in Mails : row'[m] \in Row \cup {None}
    BY <1>3, <1>4 DEF IInv, TypeOK
  <2> QED BY <2>1, <2>2
<1> QED BY <1>1, <1>3, <1>4, <1>5

\* The claimed rows were pending, so no copy of them was in any batch; the
\* worker ends with either the batch of the claim or, if the answer was lost,
\* the one it had.
LEMMA ClaimInv ==
  ASSUME IInv, NEW w \in Workers, ClaimDue(w) \/ ClaimLost(w)
  PROVE  IInv'
<1>1. PICK S \in SUBSET Due :
        /\ ClaimRows(S)
        /\ \/ batch' = batch
           \/ batch' = [batch EXCEPT ![w] = {[id |-> m, attempts |-> row[m].attempts + 1] : m \in S}]
  BY DEF ClaimDue, ClaimLost, Claimable
<1>2. /\ phase[w] = "ready" /\ current' = current /\ deliveries' = deliveries /\ faults' \in Nat
      /\ \E p \in {"working", "asleep"} : phase' = [phase EXCEPT ![w] = p]
  BY DEF ClaimDue, ClaimLost, Fault, IInv, TypeOK
<1>3. \A m \in S : /\ m \in Mails /\ row[m] \in Row /\ row[m] # None /\ row[m].status = "pending"
                 /\ row[m].attempts \in Nat /\ row[m].attempts < Limit
  BY <1>1, ClaimEffect
<1>4. /\ \A m \in S : /\ row'[m] \in Row /\ row'[m] # None /\ row'[m].status = "processing"
                     /\ row'[m].attempts = row[m].attempts + 1
      /\ \A m \in Mails \ S : row'[m] = row[m]
      /\ row' \in [Mails -> Row \cup {None}]
  BY <1>1, ClaimEffect
<1>5. /\ phase'[w] \notin Handling
      /\ \A v \in Workers \ {w} : phase'[v] = phase[v] /\ batch'[v] = batch[v]
      /\ phase' \in [Workers -> Phases]
  BY <1>1, <1>2 DEF IInv, TypeOK, Handling, Phases
<1>6. \A v \in Workers : \A c \in batch[v] : c.id \in Mails \ S
  BY <1>3 DEF IInv, TypeOK, CopiesAgree, Claimed
<1>7. \A c \in batch'[w] :
        \/ c \in batch[w]
        \/ c.id \in S /\ c = [id |-> c.id, attempts |-> row[c.id].attempts + 1]
  BY <1>1 DEF IInv, TypeOK
<1>8. batch'[w] = batch[w] \/ \A c \in batch'[w] : c.id \in S /\ c = [id |-> c.id, attempts |-> row[c.id].attempts + 1]
  BY <1>1 DEF IInv, TypeOK
<1>9. TypeOK'
  <2>1. batch' \in [Workers -> SUBSET Claimed]
    BY <1>1, <1>3 DEF IInv, TypeOK, Claimed
  <2> QED BY <1>2, <1>4, <1>5, <2>1 DEF IInv, TypeOK
<1>10. CopiesAgree'
  BY <1>3, <1>4, <1>5, <1>6, <1>7 DEF IInv, CopiesAgree
<1>11. OneHolder'
  BY <1>5, <1>6, <1>8 DEF IInv, OneHolder
<1>12. CurrentHeld' /\ Confirmed'
  BY <1>2, <1>5 DEF IInv, CurrentHeld, Confirmed, Handling
<1>13. Unanswered'
  BY <1>2, <1>3, <1>5, <1>7 DEF IInv, Unanswered, Answered, DeliveriesBounded, TypeOK
<1>14. AttemptsBounded' /\ DeliveriesBounded'
  BY <1>2, <1>3, <1>4 DEF IInv, AttemptsBounded, DeliveriesBounded, TypeOK, Limit
<1> QED BY <1>9, <1>10, <1>11, <1>12, <1>13, <1>14 DEF IInv

LEMMA EnqueueInv ==
  ASSUME IInv, NEW m \in Mails, Enqueue(m)
  PROVE  IInv'
<1>1. /\ row[m] = None /\ phase' = phase /\ batch' = batch /\ current' = current
      /\ deliveries' = deliveries /\ faults' = faults
  BY DEF Enqueue
<1>2. /\ row'[m] = [status |-> "pending", attempts |-> 0, due_in |-> 0]
      /\ row'[m] \in Row /\ row'[m] # None /\ row' \in [Mails -> Row \cup {None}]
      /\ \A n \in Mails \ {m} : row'[n] = row[n]
  BY DEF Enqueue, IInv, TypeOK, Row, RowStatuses
<1>3. TypeOK' /\ OneHolder' /\ CurrentHeld' /\ Unanswered' /\ Confirmed'
  BY <1>1, <1>2 DEF IInv, TypeOK, OneHolder, CurrentHeld, Unanswered, Confirmed, Answered
<1>4. CopiesAgree'
  BY <1>1, <1>2 DEF IInv, CopiesAgree, TypeOK, Claimed
<1>5. AttemptsBounded' /\ DeliveriesBounded'
  BY <1>1, <1>2, LimitPositive DEF IInv, AttemptsBounded, DeliveriesBounded, TypeOK
<1> QED BY <1>3, <1>4, <1>5 DEF IInv

\* Only due_in changes.
LEMMA ElapseEffect ==
  ASSUME IInv, Elapse
  PROVE  /\ row' \in [Mails -> Row \cup {None}]
         /\ \A n \in Mails : \/ row'[n] = row[n]
                            \/ /\ row[n] # None /\ row'[n] # None
                               /\ row'[n].status = row[n].status
                               /\ row'[n].attempts = row[n].attempts
<1>1. ASSUME NEW n \in Mails
      PROVE  /\ row'[n] \in Row \cup {None}
             /\ \/ row'[n] = row[n]
                \/ /\ row[n] # None /\ row'[n] # None
                   /\ row'[n].status = row[n].status
                   /\ row'[n].attempts = row[n].attempts
  <2>1. row'[n] = IF row[n] # None /\ row[n].due_in > 0
                    THEN [row[n] EXCEPT !.due_in = @ - 1] ELSE row[n]
    BY DEF Elapse
  <2>2. CASE row[n] # None /\ row[n].due_in > 0
    <3>1. row[n] \in Row
      BY <2>2 DEF IInv, TypeOK
    <3>2. /\ row'[n] \in Row /\ row'[n].status = row[n].status
          /\ row'[n].attempts = row[n].attempts
      BY <2>1, <2>2, <3>1 DEF Row
    <3> QED BY <2>2, <3>2
  <2>3. CASE ~(row[n] # None /\ row[n].due_in > 0)
    BY <2>1, <2>3 DEF IInv, TypeOK
  <2> QED BY <2>2, <2>3
<1>2. row' = [n \in Mails |-> row'[n]]
  BY DEF Elapse
<1> QED BY <1>1, <1>2

LEMMA ElapseInv == ASSUME IInv, Elapse PROVE IInv'
<1>1. /\ phase' = phase /\ batch' = batch /\ current' = current
      /\ deliveries' = deliveries /\ faults' = faults
  BY DEF Elapse
<1>2. /\ row' \in [Mails -> Row \cup {None}]
      /\ \A n \in Mails : \/ row'[n] = row[n]
                         \/ /\ row[n] # None /\ row'[n] # None
                            /\ row'[n].status = row[n].status
                            /\ row'[n].attempts = row[n].attempts
  BY ElapseEffect
<1>3. TypeOK' /\ OneHolder' /\ CurrentHeld' /\ Unanswered' /\ Confirmed'
  BY <1>1, <1>2 DEF IInv, TypeOK, OneHolder, CurrentHeld, Unanswered, Confirmed, Answered
<1>4. CopiesAgree'
  BY <1>1, <1>2 DEF IInv, CopiesAgree, TypeOK, Claimed
<1>5. AttemptsBounded' /\ DeliveriesBounded'
  BY <1>1, <1>2 DEF IInv, AttemptsBounded, DeliveriesBounded
<1> QED BY <1>3, <1>4, <1>5 DEF IInv

LEMMA NextInv == ASSUME IInv, [Next]_vars PROVE IInv'
<1>1. CASE \E m \in Mails : Enqueue(m)
  BY <1>1, EnqueueInv
<1>2. ASSUME NEW w \in Workers, Step(w) \/ Send(w) \/ Stop(w) \/ MarkLost(w) \/ ClaimLost(w) \/ Crash(w)
      PROVE  IInv'
  BY <1>2, ClaimInv, TakeNextInv, WaitInv, MarkInv, SendInv, CrashInv DEF Step
<1>3. CASE Elapse
  BY <1>3, ElapseInv
<1>4. CASE UNCHANGED vars
  <2>1. /\ row' = row /\ phase' = phase /\ batch' = batch /\ current' = current
        /\ deliveries' = deliveries /\ faults' = faults
    BY <1>4 DEF vars
  <2> QED BY <2>1 DEF IInv, TypeOK, CopiesAgree, OneHolder, CurrentHeld, Unanswered, Confirmed,
                      AttemptsBounded, DeliveriesBounded, Answered
<1> QED BY <1>1, <1>2, <1>3, <1>4 DEF Next

\* The inductive invariant holds in every reachable state of the queue.
THEOREM Invariant == Spec => []IInv
<1>1. IInv /\ [Next]_vars => IInv'
  BY NextInv
<1> QED BY InitInv, <1>1, PTL DEF Spec

\* Rows, phases and batches keep their types (queue/worker.rs, queue/sqlite.rs).
THEOREM TypeCorrect == Spec => []TypeOK
<1>1. IInv => TypeOK
  BY DEF IInv
<1> QED BY Invariant, <1>1, PTL

\* No two workers hold the same mail, whatever crashes (queue/sqlite.rs:90-104).
THEOREM OneSender == Spec => []Exclusive
<1>1. IInv => Exclusive
  BY DEF IInv, CopiesAgree, OneHolder, Exclusive
<1> QED BY Invariant, <1>1, PTL

\* No mail is attempted more often than the limit, for every limit, zero and
\* negative ones included (queue/worker.rs:80-93).
THEOREM AttemptLimit == Spec => []AttemptsBounded
<1>1. IInv => AttemptsBounded
  BY DEF IInv
<1> QED BY Invariant, <1>1, PTL

\* No recipient gets more copies than there were attempts, and what is
\* recorded as sent was delivered (queue/worker.rs:67-100).
THEOREM CopiesLimit == Spec => []DeliveriesBounded
<1>1. IInv => DeliveriesBounded
  BY DEF IInv
<1> QED BY Invariant, <1>1, PTL

-----------------------------------------------------------------------------
\* Counting the mails that are stranded.

StrandedMails == {m \in Mails : Stranded(m)}
HeldIds(w) == {c.id : c \in batch[w]}

RowsFinite == IsFiniteSet({m \in Mails : row[m] # None})

BatchesSmall ==
  \A w \in Workers : IsFiniteSet(HeldIds(w)) /\ Cardinality(HeldIds(w)) <= BatchSize

\* A worker that claims has finished its batch before.
IdleHoldsNothing ==
  \A w \in Workers : phase[w] \in {"ready", "asleep", "stopped"} => batch[w] = {}

CountInv == IInv /\ RowsFinite /\ BatchesSmall /\ IdleHoldsNothing /\ StrandedByFaults

LEMMA UnionBound ==
  ASSUME NEW A, NEW S, IsFiniteSet(A), IsFiniteSet(S), NEW B \in SUBSET (A \cup S)
  PROVE  IsFiniteSet(B) /\ Cardinality(B) <= Cardinality(A) + Cardinality(S)
<1>1. /\ IsFiniteSet(A \cup S)
      /\ Cardinality(A \cup S) = Cardinality(A) + Cardinality(S) - Cardinality(A \cap S)
  BY FS_Union
<1>2. IsFiniteSet(A \cap S)
  BY FS_Intersection
<1>3. /\ Cardinality(A \cap S) \in Nat /\ Cardinality(A) \in Nat /\ Cardinality(S) \in Nat
      /\ Cardinality(A \cup S) \in Nat
  BY <1>1, <1>2, FS_CardinalityType
<1>4. IsFiniteSet(B) /\ Cardinality(B) <= Cardinality(A \cup S)
  BY <1>1, FS_Subset
<1>5. Cardinality(B) \in Nat
  BY <1>4, FS_CardinalityType
<1> QED BY <1>1, <1>3, <1>4, <1>5

\* A fault strands no more than the ids in S; other steps strand none.
LEMMA StrandedGrows ==
  ASSUME CountInv, NEW S, IsFiniteSet(S), Cardinality(S) <= BatchSize,
         \/ StrandedMails' \subseteq StrandedMails /\ faults' = faults
         \/ StrandedMails' \subseteq StrandedMails \cup S /\ faults' = faults + 1
  PROVE  StrandedByFaults'
<1>1. PICK A : A = StrandedMails
  OBVIOUS
<1>2. PICK B : B = StrandedMails'
  OBVIOUS
<1>3. PICK R : R = {m \in Mails : row[m] # None}
  OBVIOUS
<1>4. IsFiniteSet(A)
  <2>1. IsFiniteSet(R) /\ A \in SUBSET R
    BY <1>1, <1>3 DEF CountInv, RowsFinite, StrandedMails, Stranded
  <2> QED BY <2>1, FS_Subset
<1>5. Cardinality(A) <= faults * BatchSize /\ Cardinality(A) \in Nat
  BY <1>1, <1>4, FS_CardinalityType DEF CountInv, StrandedByFaults, StrandedMails
<1>6. faults \in Nat /\ (faults + 1) * BatchSize = faults * BatchSize + BatchSize
      /\ faults * BatchSize \in Nat
  BY DEF CountInv, IInv, TypeOK
<1>7. Cardinality(B) <= faults' * BatchSize
  <2>1. CASE B \subseteq A /\ faults' = faults
    <3>1. Cardinality(B) <= Cardinality(A) /\ IsFiniteSet(B)
      BY <1>4, <2>1, FS_Subset
    <3>2. Cardinality(B) \in Nat
      BY <3>1, FS_CardinalityType
    <3> QED BY <1>5, <1>6, <2>1, <3>1, <3>2
  <2>2. CASE B \subseteq A \cup S /\ faults' = faults + 1
    <3>1. Cardinality(B) <= Cardinality(A) + Cardinality(S) /\ IsFiniteSet(B)
      BY <1>4, <2>2, UnionBound
    <3>2. Cardinality(B) \in Nat /\ Cardinality(S) \in Nat
      BY <3>1, FS_CardinalityType
    <3> QED BY <1>5, <1>6, <2>2, <3>1, <3>2
  <2> QED BY <1>1, <1>2, <2>1, <2>2
<1> QED BY <1>2, <1>7 DEF StrandedByFaults, StrandedMails

\* A worker that drops a job holds fewer ids, the others hold what they held.
LEMMA DropHolds ==
  ASSUME CountInv, NEW w \in Workers, phase[w] \in Handling, Drop(w)
  PROVE  /\ BatchesSmall' /\ IdleHoldsNothing'
         /\ \A m \in Mails : m # current[w].id =>
              ((\E v \in Workers : m \in HeldIds(v)) => (\E v \in Workers : m \in HeldIds(v)'))
<1>1. /\ batch'[w] = batch[w] \ {current[w]} /\ \A v \in Workers : v # w => batch'[v] = batch[v]
      /\ phase'[w] = "working" /\ \A v \in Workers : v # w => phase'[v] = phase[v]
  BY DEF Drop, CountInv, IInv, TypeOK
<1>2. IdleHoldsNothing'
  BY <1>1 DEF CountInv, IdleHoldsNothing
<1>3. ASSUME NEW v \in Workers
      PROVE  IsFiniteSet(HeldIds(v)') /\ Cardinality(HeldIds(v)') <= BatchSize
  <2>1. PICK A : A = HeldIds(v)
    OBVIOUS
  <2>2. PICK B : B = HeldIds(v)'
    OBVIOUS
  <2>3. B \in SUBSET A /\ IsFiniteSet(A) /\ Cardinality(A) <= BatchSize
    BY <1>1, <2>1, <2>2 DEF HeldIds, CountInv, BatchesSmall
  <2>4. IsFiniteSet(B) /\ Cardinality(B) <= Cardinality(A)
    BY <2>3, FS_Subset
  <2>5. Cardinality(A) \in Nat /\ Cardinality(B) \in Nat
    BY <2>3, <2>4, FS_CardinalityType
  <2> QED BY <2>2, <2>3, <2>4, <2>5
<1>4. BatchesSmall'
  BY <1>3 DEF BatchesSmall
<1>5. \A m \in Mails : m # current[w].id =>
        ((\E v \in Workers : m \in HeldIds(v)) => (\E v \in Workers : m \in HeldIds(v)'))
  BY <1>1 DEF HeldIds
<1> QED BY <1>2, <1>4, <1>5

LEMMA MarkCounts ==
  ASSUME CountInv, NEW w \in Workers,
         MarkSent(w) \/ MarkFailed(w) \/ Reschedule(w) \/ MarkLost(w)
  PROVE  RowsFinite' /\ BatchesSmall' /\ IdleHoldsNothing' /\ StrandedByFaults'
<1>1. phase[w] \in Handling /\ Drop(w)
  BY DEF MarkSent, MarkFailed, Reschedule, MarkLost, Handling
<1>2. PICK m \in Mails : m = current[w].id /\ row[m] # None /\ row[m] \in Row
  BY <1>1, HeldTyped DEF CountInv
<1>3. /\ \A n \in Mails : n # m => row'[n] = row[n]
      /\ MarkLost(w) \/ (row'[m] # None /\ row'[m].status # "processing")
  <2>1. CASE MarkLost(w)
    BY <2>1 DEF MarkLost
  <2>2. CASE MarkSent(w) \/ MarkFailed(w)
    <3>1. PICK f \in {"sent", "failed"} : row' = [row EXCEPT ![m].status = f]
      BY <1>2, <2>2 DEF MarkSent, MarkFailed
    <3>2. row'[m] \in Row /\ row'[m].status = f /\ \A n \in Mails : n # m => row'[n] = row[n]
      BY <1>2, <3>1 DEF CountInv, IInv, TypeOK, Row, RowStatuses
    <3> QED BY <3>2
  <2>3. CASE Reschedule(w)
    <3>1. PICK d \in Nat : d = Backoff(current[w].attempts)
      BY <1>1, HeldTyped, BackoffNat DEF CountInv
    <3>2. row' = [row EXCEPT ![m] = [@ EXCEPT !.status = "pending", !.due_in = d]]
      BY <1>2, <2>3, <3>1 DEF Reschedule
    <3>3. /\ row'[m] \in Row /\ row'[m].status = "pending"
          /\ \A n \in Mails : n # m => row'[n] = row[n]
      BY <1>2, <3>2 DEF CountInv, IInv, TypeOK, Row, RowStatuses
    <3> QED BY <3>3
  <2> QED BY <2>1, <2>2, <2>3
<1>4. RowsFinite'
  <2>1. {n \in Mails : row'[n] # None} = {n \in Mails : row[n] # None}
    BY <1>2, <1>3 DEF MarkLost
  <2> QED BY <2>1 DEF CountInv, RowsFinite
<1>5. BatchesSmall' /\ IdleHoldsNothing'
  BY <1>1, DropHolds
<1>6. \A n \in Mails : n # m /\ Stranded(n)' => Stranded(n)
  <2> SUFFICES ASSUME NEW n \in Mails, n # m, Stranded(n)'
      PROVE  Stranded(n)
    OBVIOUS
  <2>1. row[n] # None /\ row[n].status = "processing" /\ ~ \E v \in Workers : n \in HeldIds(v)'
    BY <1>3 DEF Stranded, HeldIds
  <2>2. ~ \E v \in Workers : n \in HeldIds(v)
    BY <1>1, <1>2, <2>1, DropHolds
  <2> QED BY <2>1, <2>2 DEF Stranded, HeldIds
<1>7. StrandedByFaults'
  <2>1. IsFiniteSet({m}) /\ Cardinality({m}) <= BatchSize
    <3>1. PICK A : A = HeldIds(w)
      OBVIOUS
    <3>2. m \in A
      BY <1>1, <1>2, <3>1, HeldTyped DEF CountInv, HeldIds
    <3>3. IsFiniteSet(A) /\ Cardinality(A) <= BatchSize
      BY <3>1 DEF CountInv, BatchesSmall
    <3>4. IsFiniteSet({m}) /\ Cardinality({m}) <= Cardinality(A)
      BY <3>2, <3>3, FS_Subset
    <3>5. Cardinality({m}) \in Nat /\ Cardinality(A) \in Nat
      BY <3>3, <3>4, FS_CardinalityType
    <3> QED BY <3>3, <3>4, <3>5
  <2>2. CASE MarkLost(w)
    <3>1. StrandedMails' \subseteq StrandedMails \cup {m} /\ faults' = faults + 1
      BY <1>6, <2>2 DEF StrandedMails, MarkLost, Fault
    <3> QED BY <2>1, <3>1, StrandedGrows
  <2>3. CASE ~MarkLost(w)
    <3>1. ~Stranded(m)'
      BY <1>3, <2>3 DEF Stranded
    <3>2. StrandedMails' \subseteq StrandedMails /\ faults' = faults
      BY <1>6, <2>3, <3>1 DEF StrandedMails, MarkSent, MarkFailed, Reschedule
    <3> QED BY <2>1, <3>2, StrandedGrows
  <2> QED BY <2>2, <2>3
<1> QED BY <1>4, <1>5, <1>7

\* The rows of a claim are held by the worker or, if the answer is lost, stranded.
LEMMA ClaimCounts ==
  ASSUME CountInv, NEW w \in Workers, ClaimDue(w) \/ ClaimLost(w)
  PROVE  RowsFinite' /\ BatchesSmall' /\ IdleHoldsNothing' /\ StrandedByFaults'
<1>1. PICK S \in SUBSET Due :
        /\ Cardinality(S) = Least(BatchSize, Cardinality(Due))
        /\ ClaimRows(S)
        /\ \/ ClaimLost(w) /\ batch' = batch /\ faults' = faults + 1
           \/ /\ ClaimDue(w) /\ faults' = faults
              /\ batch' = [batch EXCEPT ![w] = {[id |-> m, attempts |-> row[m].attempts + 1] : m \in S}]
  BY DEF ClaimDue, ClaimLost, Claimable, Fault
<1>2. /\ \A m \in S : m \in Mails /\ row[m] # None /\ row'[m] # None
      /\ \A m \in Mails : m \notin S => row'[m] = row[m]
  BY <1>1, ClaimEffect DEF CountInv
<1>3. RowsFinite'
  <2>1. {n \in Mails : row'[n] # None} = {n \in Mails : row[n] # None}
    BY <1>2
  <2> QED BY <2>1 DEF CountInv, RowsFinite
<1>4. IsFiniteSet(S) /\ Cardinality(S) <= BatchSize
  <2>1. PICK R : R = {m \in Mails : row[m] # None}
    OBVIOUS
  <2>2. PICK D : D = Due
    OBVIOUS
  <2>3. IsFiniteSet(R) /\ D \in SUBSET R /\ S \in SUBSET D
    BY <2>1, <2>2 DEF CountInv, RowsFinite, Due
  <2>4. IsFiniteSet(D)
    BY <2>3, FS_Subset
  <2>5. IsFiniteSet(S)
    BY <2>3, <2>4, FS_Subset
  <2>6. Cardinality(D) \in Nat /\ Cardinality(S) = Least(BatchSize, Cardinality(D))
    BY <1>1, <2>2, <2>4, FS_CardinalityType
  <2> QED BY <2>5, <2>6 DEF Least
<1>5. phase[w] = "ready" /\ batch[w] = {}
  BY DEF ClaimDue, ClaimLost, CountInv, IdleHoldsNothing
<1>6. CASE ClaimDue(w) /\ faults' = faults
                      /\ batch' = [batch EXCEPT ![w] =
                                     {[id |-> m, attempts |-> row[m].attempts + 1] : m \in S}]
  <2>1. /\ HeldIds(w)' = S /\ \A v \in Workers : v # w => HeldIds(v)' = HeldIds(v)
        /\ \A v \in Workers : v # w => batch'[v] = batch[v]
    <3>1. /\ batch'[w] = {[id |-> m, attempts |-> row[m].attempts + 1] : m \in S}
          /\ \A v \in Workers : v # w => batch'[v] = batch[v]
      BY <1>6 DEF CountInv, IInv, TypeOK
    <3>2. ASSUME NEW m \in S PROVE \E c \in batch'[w] : c.id = m
      <4>1. [id |-> m, attempts |-> row[m].attempts + 1] \in batch'[w]
        BY <3>1, Zenon
      <4> QED BY <4>1
    <3>3. \A c \in batch'[w] : c.id \in S
      BY <3>1
    <3>4. HeldIds(w)' = S
      BY <3>2, <3>3 DEF HeldIds
    <3> QED BY <3>1, <3>4 DEF HeldIds
  <2>2. BatchesSmall'
    BY <1>4, <2>1 DEF BatchesSmall, CountInv
  <2>3. IdleHoldsNothing'
    BY <1>6, <2>1 DEF IdleHoldsNothing, CountInv, ClaimDue, IInv, TypeOK
  <2>4. StrandedMails' \subseteq StrandedMails
    <3> SUFFICES ASSUME NEW n \in Mails, Stranded(n)'
        PROVE  Stranded(n)
      BY DEF StrandedMails
    <3>1. \A v \in Workers : n \notin HeldIds(v)'
      BY DEF Stranded, HeldIds
    <3>2. n \notin S /\ row'[n] = row[n]
      BY <1>2, <2>1, <3>1
    <3>3. \A v \in Workers : n \notin HeldIds(v)
      BY <1>5, <2>1, <3>1 DEF HeldIds
    <3> QED BY <3>2, <3>3 DEF Stranded, HeldIds
  <2> QED BY <1>3, <1>4, <1>6, <2>2, <2>3, <2>4, StrandedGrows
<1>7. CASE ClaimLost(w) /\ batch' = batch /\ faults' = faults + 1
  <2>1. BatchesSmall'
    BY <1>7 DEF BatchesSmall, CountInv, HeldIds
  <2>2. IdleHoldsNothing'
    BY <1>5, <1>7 DEF IdleHoldsNothing, CountInv, ClaimLost, IInv, TypeOK
  <2>3. StrandedMails' \subseteq StrandedMails \cup S
    BY <1>2, <1>7 DEF StrandedMails, Stranded
  <2> QED BY <1>3, <1>4, <1>7, <2>1, <2>2, <2>3, StrandedGrows
<1> QED BY <1>1, <1>6, <1>7

\* The batch of a process that dies is stranded.
LEMMA CrashCounts ==
  ASSUME CountInv, NEW w \in Workers, Crash(w)
  PROVE  RowsFinite' /\ BatchesSmall' /\ IdleHoldsNothing' /\ StrandedByFaults'
<1>1. /\ row' = row /\ faults' = faults + 1
      /\ batch'[w] = {} /\ \A v \in Workers : v # w => batch'[v] = batch[v]
      /\ phase'[w] = "ready" /\ \A v \in Workers : v # w => phase'[v] = phase[v]
  BY DEF Crash, Fault, CountInv, IInv, TypeOK
<1>2. RowsFinite' /\ IdleHoldsNothing'
  BY <1>1 DEF CountInv, RowsFinite, IdleHoldsNothing
<1>3. BatchesSmall'
  <2>1. HeldIds(w)' = {} /\ \A v \in Workers : v # w => HeldIds(v)' = HeldIds(v)
    BY <1>1 DEF HeldIds
  <2>2. IsFiniteSet({}) /\ Cardinality({}) = 0
    BY FS_EmptySet
  <2> QED BY <2>1, <2>2 DEF BatchesSmall, CountInv
<1>4. PICK S : S = HeldIds(w)
  OBVIOUS
<1>5. IsFiniteSet(S) /\ Cardinality(S) <= BatchSize
  BY <1>4 DEF CountInv, BatchesSmall
<1>6. StrandedMails' \subseteq StrandedMails \cup S
  BY <1>1, <1>4 DEF StrandedMails, Stranded, HeldIds
<1> QED BY <1>1, <1>2, <1>3, <1>5, <1>6, StrandedGrows

\* The other steps change neither what is in processing nor who holds it.
LEMMA OtherCounts ==
  ASSUME CountInv,
         \/ UNCHANGED vars \/ Elapse
         \/ \E m \in Mails : Enqueue(m)
         \/ \E w \in Workers : \/ TakeNext(w) \/ FinishBatch(w) \/ Wake(w) \/ Start(w)
                               \/ Stop(w) \/ Send(w)
  PROVE  RowsFinite' /\ BatchesSmall' /\ IdleHoldsNothing' /\ StrandedByFaults'
<1>1. batch' = batch /\ faults' = faults
  BY DEF vars, Elapse, Enqueue, TakeNext, FinishBatch, Wake, Start, Stop, Send
<1>2. BatchesSmall'
  BY <1>1 DEF CountInv, BatchesSmall, HeldIds
<1>3. IdleHoldsNothing'
  <2>1. CASE UNCHANGED vars \/ Elapse \/ \E m \in Mails : Enqueue(m)
    <3>1. phase' = phase
      BY <2>1 DEF vars, Elapse, Enqueue
    <3> QED BY <1>1, <3>1 DEF CountInv, IdleHoldsNothing
  <2>2. ASSUME NEW w \in Workers, \/ TakeNext(w) \/ FinishBatch(w) \/ Wake(w) \/ Start(w)
                                  \/ Stop(w) \/ Send(w)
        PROVE  IdleHoldsNothing'
    <3>1. \A v \in Workers : v # w => phase'[v] = phase[v]
      BY <2>2 DEF TakeNext, FinishBatch, Wake, Start, Stop, Send, CountInv, IInv, TypeOK
    <3>2. phase'[w] \in {"ready", "asleep", "stopped"} => batch[w] = {}
      BY <2>2 DEF TakeNext, FinishBatch, Wake, Start, Stop, Send, CountInv, IInv, TypeOK,
                  IdleHoldsNothing
    <3> QED BY <1>1, <3>1, <3>2 DEF CountInv, IdleHoldsNothing
  <2> QED BY <2>1, <2>2
<1>4. /\ RowsFinite'
      /\ \A n \in Mails : row'[n] # None /\ row'[n].status = "processing" =>
                            row[n] # None /\ row[n].status = "processing"
  <2>1. ASSUME NEW m \in Mails, Enqueue(m)
        PROVE  /\ RowsFinite'
               /\ \A n \in Mails : row'[n] # None /\ row'[n].status = "processing" =>
                                     row[n] # None /\ row[n].status = "processing"
    <3>1. /\ row'[m].status = "pending" /\ row'[m] # None
          /\ \A n \in Mails : n # m => row'[n] = row[n]
      BY <2>1 DEF Enqueue, CountInv, IInv, TypeOK, Row, RowStatuses
    <3>2. PICK R : R = {n \in Mails : row[n] # None}
      OBVIOUS
    <3>3. IsFiniteSet(R \cup {m})
      BY <3>2, FS_AddElement DEF CountInv, RowsFinite
    <3>4. {n \in Mails : row'[n] # None} = R \cup {m}
      BY <3>1, <3>2
    <3> QED BY <3>1, <3>3, <3>4 DEF RowsFinite
  <2>2. CASE Elapse
    <3>1. \A n \in Mails : \/ row'[n] = row[n]
                           \/ /\ row[n] # None /\ row'[n] # None
                              /\ row'[n].status = row[n].status
      BY <2>2, ElapseEffect DEF CountInv
    <3>2. {n \in Mails : row'[n] # None} = {n \in Mails : row[n] # None}
      BY <3>1
    <3> QED BY <3>1, <3>2 DEF CountInv, RowsFinite
  <2>3. CASE row' = row
    BY <2>3 DEF CountInv, RowsFinite
  <2> QED BY <2>1, <2>2, <2>3 DEF vars, TakeNext, FinishBatch, Wake, Start, Stop, Send
<1>5. StrandedMails' \subseteq StrandedMails
  BY <1>1, <1>4 DEF StrandedMails, Stranded
<1>6. IsFiniteSet({}) /\ Cardinality({}) <= BatchSize
  BY FS_EmptySet
<1> QED BY <1>1, <1>2, <1>3, <1>4, <1>5, <1>6, StrandedGrows

\* Only a fault strands mails, and no more than a batch (main.rs:126-128 for
\* the shutdown, queue/worker.rs:55 for a second worker).
THEOREM FaultsStrand == Spec => []StrandedByFaults
<1>1. Init => CountInv
  <2> SUFFICES ASSUME Init PROVE CountInv
    OBVIOUS
  <2>1. IsFiniteSet({}) /\ Cardinality({}) = 0
    BY FS_EmptySet
  <2>2. /\ {m \in Mails : row[m] # None} = {} /\ {m \in Mails : Stranded(m)} = {}
        /\ \A w \in Workers : HeldIds(w) = {}
    BY DEF Init, Stranded, HeldIds
  <2>3. RowsFinite /\ IdleHoldsNothing
    BY <2>1, <2>2 DEF Init, RowsFinite, IdleHoldsNothing
  <2>4. BatchesSmall /\ StrandedByFaults
    BY <2>1, <2>2 DEF Init, BatchesSmall, StrandedByFaults
  <2> QED BY <2>3, <2>4, InitInv DEF CountInv
<1>2. CountInv /\ [Next]_vars => CountInv'
  <2> SUFFICES ASSUME CountInv, [Next]_vars PROVE CountInv'
    OBVIOUS
  <2>1. IInv'
    BY NextInv DEF CountInv
  <2>2. RowsFinite' /\ BatchesSmall' /\ IdleHoldsNothing' /\ StrandedByFaults'
    BY OtherCounts, CrashCounts, ClaimCounts, MarkCounts DEF Next, Step
  <2> QED BY <2>1, <2>2 DEF CountInv
<1>3. CountInv => StrandedByFaults
  BY DEF CountInv
<1> QED BY <1>1, <1>2, <1>3, PTL DEF Spec

-----------------------------------------------------------------------------
\* The step simulation of Outbox.

\* A step that leaves every fate and every delivery count alone is a stutter.
LEMMA SameFates ==
  ASSUME \A m \in Mails : Fate(row'[m]) = Fate(row[m]), deliveries' = deliveries
  PROVE  Fates' = Fates /\ Reached' = Reached
  BY DEF Fates, Reached

LEMMA EnqueueRefines ==
  ASSUME IInv, NEW m \in Mails, Enqueue(m)
  PROVE  /\ Fates[m] = "none" /\ Fates' = [Fates EXCEPT ![m] = "queued"]
         /\ Reached' = Reached
<1>1. row[m] = None /\ row'[m] # None /\ row'[m].status = "pending"
      /\ \A n \in Mails \ {m} : row'[n] = row[n]
  BY DEF Enqueue, IInv, TypeOK, Row, RowStatuses
<1>2. Fate(row[m]) = "none" /\ Fate(row'[m]) = "queued"
  BY <1>1 DEF Fate
<1>3. Fates' = [Fates EXCEPT ![m] = "queued"]
  BY <1>1, <1>2 DEF Fates
<1> QED BY <1>2, <1>3 DEF Fates, Reached, Enqueue

LEMMA SendRefines ==
  ASSUME IInv, NEW w \in Workers, Send(w)
  PROVE  \/ Fates' = Fates /\ Reached' = Reached
         \/ \E m \in Mails : /\ Fates[m] = "queued" /\ Fates' = Fates
                            /\ Reached' = Reached \cup {m}
<1>1. PICK m \in Mails : m = current[w].id /\ row[m] # None /\ row[m].status = "processing"
  BY HeldTyped DEF Send, Handling
<1>2. row' = row /\ (deliveries' = deliveries \/ deliveries' = [deliveries EXCEPT ![m] = @ + 1])
  BY <1>1 DEF Send
<1>3. Fates' = Fates /\ Fates[m] = "queued"
  BY <1>1, <1>2 DEF Fates, Fate
<1>4. Reached' = Reached \/ Reached' = Reached \cup {m}
  BY <1>2 DEF Reached, IInv, TypeOK
<1> QED BY <1>3, <1>4

\* A settled mail was queued, and counts as sent only if it was delivered.
LEMMA MarkRefines ==
  ASSUME IInv, NEW w \in Workers, MarkSent(w) \/ MarkFailed(w)
  PROVE  \E m \in Mails, f \in {"sent", "failed"} :
           /\ Fates[m] = "queued"
           /\ f = "sent" => m \in Reached
           /\ Fates' = [Fates EXCEPT ![m] = f]
           /\ Reached' = Reached
<1>1. PICK m \in Mails : m = current[w].id /\ row[m] \in Row /\ row[m] # None
                       /\ row[m].status = "processing"
  BY HeldTyped DEF MarkSent, MarkFailed, Handling
<1>2. PICK f \in {"sent", "failed"} :
        /\ row' = [row EXCEPT ![m].status = f]
        /\ f = "sent" => deliveries[m] >= 1
  BY <1>1 DEF MarkSent, MarkFailed, IInv, Confirmed
<1>3. /\ row'[m] # None /\ row'[m].status = f
      /\ \A n \in Mails \ {m} : row'[n] = row[n]
  <2>1. row'[m] \in Row /\ row'[m].status = f
    BY <1>1, <1>2 DEF IInv, TypeOK, Row, RowStatuses
  <2> QED BY <1>2, <2>1 DEF IInv, TypeOK
<1>4. Fate(row[m]) = "queued" /\ Fate(row'[m]) = f
  BY <1>1, <1>3 DEF Fate
<1>5. Fates' = [Fates EXCEPT ![m] = f] /\ Fates[m] = "queued"
  BY <1>3, <1>4 DEF Fates
<1>6. Reached' = Reached /\ (f = "sent" => m \in Reached)
  BY <1>2 DEF MarkSent, MarkFailed, Reached, IInv, TypeOK
<1> QED BY <1>5, <1>6

\* Claims, reschedules and the passing of time move rows among the statuses
\* that are all "queued" to the services.
LEMMA HiddenRefines ==
  ASSUME IInv, \/ Elapse
               \/ \E w \in Workers : ClaimDue(w) \/ ClaimLost(w) \/ Reschedule(w)
  PROVE  Fates' = Fates /\ Reached' = Reached
<1>1. deliveries' = deliveries
  BY DEF Elapse, ClaimDue, ClaimLost, Reschedule
<1>2. CASE Elapse
  <2>1. \A m \in Mails : Fate(row'[m]) = Fate(row[m])
    BY <1>2, ElapseEffect DEF Fate
  <2> QED BY <1>1, <2>1, SameFates
<1>3. ASSUME NEW w \in Workers, ClaimDue(w) \/ ClaimLost(w)
      PROVE  Fates' = Fates
  <2>1. PICK S \in SUBSET Due : ClaimRows(S)
    BY <1>3 DEF ClaimDue, ClaimLost, Claimable
  <2>2. \A m \in Mails : Fate(row'[m]) = Fate(row[m])
    BY <2>1, ClaimEffect DEF Fate
  <2> QED BY <1>1, <2>2, SameFates
<1>4. ASSUME NEW w \in Workers, Reschedule(w)
      PROVE  Fates' = Fates
  <2>1. PICK m \in Mails, d \in Nat :
          /\ m = current[w].id /\ row[m] \in Row /\ row[m] # None
          /\ row[m].status = "processing" /\ d = Backoff(current[w].attempts)
    BY <1>4, HeldTyped, BackoffNat DEF Reschedule, Handling
  <2>2. row' = [row EXCEPT ![m] = [@ EXCEPT !.status = "pending", !.due_in = d]]
    BY <1>4, <2>1 DEF Reschedule
  <2>3. row'[m] \in Row /\ row'[m].status = "pending" /\ \A n \in Mails \ {m} : row'[n] = row[n]
    BY <2>1, <2>2 DEF IInv, TypeOK, Row, RowStatuses
  <2>4. \A n \in Mails : Fate(row'[n]) = Fate(row[n])
    BY <2>1, <2>3 DEF Fate
  <2> QED BY <1>1, <2>4, SameFates
<1> QED BY <1>1, <1>2, <1>3, <1>4 DEF Reached

LEMMA NextRefines ==
  ASSUME IInv, [Next]_vars
  PROVE  [Delivery!OutboxNext]_(Delivery!outboxVars)
<1> SUFFICES Delivery!OutboxNext \/ (Fates' = Fates /\ Reached' = Reached)
  BY DEF Delivery!outboxVars
<1>1. ASSUME NEW m \in Mails, Enqueue(m)
      PROVE  Delivery!OutboxNext
  BY <1>1, EnqueueRefines DEF Delivery!OutboxNext, Delivery!Accept
<1>2. ASSUME NEW w \in Workers, Send(w)
      PROVE  Delivery!OutboxNext \/ (Fates' = Fates /\ Reached' = Reached)
  BY <1>2, SendRefines DEF Delivery!OutboxNext, Delivery!Deliver
<1>3. ASSUME NEW w \in Workers, MarkSent(w) \/ MarkFailed(w)
      PROVE  Delivery!OutboxNext
  BY <1>3, MarkRefines DEF Delivery!OutboxNext, Delivery!Settle
<1>4. ASSUME \/ Elapse
             \/ \E w \in Workers : ClaimDue(w) \/ ClaimLost(w) \/ Reschedule(w)
      PROVE  Fates' = Fates /\ Reached' = Reached
  BY <1>4, HiddenRefines
<1>5. ASSUME row' = row, deliveries' = deliveries
      PROVE  Fates' = Fates /\ Reached' = Reached
  BY <1>5 DEF Fates, Reached
<1>6. ASSUME NEW w \in Workers,
             \/ TakeNext(w) \/ FinishBatch(w) \/ Wake(w) \/ Start(w) \/ Stop(w)
             \/ MarkLost(w) \/ Crash(w)
      PROVE  row' = row /\ deliveries' = deliveries
  BY <1>6 DEF TakeNext, FinishBatch, Wake, Start, Stop, MarkLost, Crash
<1>7. UNCHANGED vars => row' = row /\ deliveries' = deliveries
  BY DEF vars
<1> QED BY <1>1, <1>2, <1>3, <1>4, <1>5, <1>6, <1>7 DEF Next, Step

\* The queue keeps the promise of Outbox whatever its workers do and however
\* they crash (queue/worker.rs, queue/sqlite.rs, email/resend.rs).
THEOREM KeepsOutbox == Spec => ImplementsOutbox
<1>1. Init => Delivery!OutboxInit
  BY DEF Init, Delivery!OutboxInit, Fates, Fate, Reached
<1>2. IInv /\ [Next]_vars => [Delivery!OutboxNext]_(Delivery!outboxVars)
  BY NextRefines
<1> QED BY <1>1, <1>2, Invariant, PTL DEF Spec, ImplementsOutbox, Delivery!OutboxSpec
=============================================================================
