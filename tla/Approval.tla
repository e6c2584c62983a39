------------------------------ MODULE Approval ------------------------------
(***************************************************************************)
(* What the rest of the platform may rely on about a business: it is       *)
(* registered once and never unregistered, and it is approved only if an   *)
(* administrator has approved it at some time.  Nothing more is promised:  *)
(* because whole rows are written back from copies read earlier, a         *)
(* decision can be undone, so every other change of status may happen.     *)
(* Businesses.tla implements this specification; Listings.tla and          *)
(* Applications.tla use it as their environment.                           *)
(***************************************************************************)
CONSTANT Bids          \* the ids of businesses

VARIABLES
  standing,            \* the status of each business, "absent" before creation
  vetted               \* the businesses an administrator has ever approved

approvalVars == <<standing, vetted>>

Statuses == {"pending", "approved", "rejected", "suspended"}

ApprovalTypeOK ==
  /\ standing \in [Bids -> Statuses \cup {"absent"}]
  /\ vetted \in SUBSET Bids

ApprovalInit ==
  /\ standing = [b \in Bids |-> "absent"]
  /\ vetted = {}

Register(b) ==
  /\ standing[b] = "absent"
  /\ standing' = [standing EXCEPT ![b] = "pending"]
  /\ UNCHANGED vetted

Vet(b) ==
  /\ standing[b] # "absent"
  /\ standing' = [standing EXCEPT ![b] = "approved"]
  /\ vetted' = vetted \cup {b}

\* An owner's edit, another decision of an administrator, or a stale copy of
\* the row written back.
Move(b) ==
  /\ standing[b] # "absent"
  /\ \E s \in Statuses :
       /\ s = "approved" => b \in vetted
       /\ standing' = [standing EXCEPT ![b] = s]
  /\ UNCHANGED vetted

ApprovalNext == \E b \in Bids : Register(b) \/ Vet(b) \/ Move(b)

ApprovalSpec == ApprovalInit /\ [][ApprovalNext]_approvalVars

\* An approved business has been approved by an administrator at some time
\* (service/admin.rs approve_business is the only code that sets the status).
ApprovedWasVetted == \A b \in Bids : standing[b] = "approved" => b \in vetted
=============================================================================
