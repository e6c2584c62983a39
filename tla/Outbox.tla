------------------------------- MODULE Outbox -------------------------------
(***************************************************************************)
(* What the services may rely on when they hand a mail to the queue: it    *)
(* stays queued until its fate is settled, a settled fate is final, a mail *)
(* counts as sent only if it was delivered, and nothing is delivered after *)
(* the fate is settled.  EmailQueue.tla implements this specification.     *)
(***************************************************************************)
CONSTANT Mails

VARIABLES
  fate,          \* "none" before the mail is handed over
  delivered      \* the mails that reached the recipient at least once

outboxVars == <<fate, delivered>>

OutboxInit ==
  /\ fate = [m \in Mails |-> "none"]
  /\ delivered = {}

Accept(m) ==
  /\ fate[m] = "none"
  /\ fate' = [fate EXCEPT ![m] = "queued"]
  /\ UNCHANGED delivered

Deliver(m) ==
  /\ fate[m] = "queued"
  /\ delivered' = delivered \cup {m}
  /\ UNCHANGED fate

Settle(m) ==
  /\ fate[m] = "queued"
  /\ \E f \in {"sent", "failed"} :
       /\ f = "sent" => m \in delivered
       /\ fate' = [fate EXCEPT ![m] = f]
  /\ UNCHANGED delivered

OutboxNext == \E m \in Mails : Accept(m) \/ Deliver(m) \/ Settle(m)

OutboxSpec == OutboxInit /\ [][OutboxNext]_outboxVars
=============================================================================
