-------------------------- MODULE BusinessesProofs --------------------------
(***************************************************************************)
(* The properties of Businesses for any number of owners, businesses, tax  *)
(* numbers and overlapping requests.  The stored rows alone do not form an *)
(* inductive invariant: a row becomes what some request holds in its       *)
(* private copy, so the copies in flight are constrained as well.          *)
(***************************************************************************)
EXTENDS Businesses, TLAPS

\* A copy in flight is coherent, and writing it back is backed by a decision:
\* one already committed, or the one this very request commits.
CopyBacked(q) ==
  /\ Coherent(q.row)
  /\ q.row.status # "pending" => <<q.id, q.row.status>> \in verdicts
                                 \/ q.row.status \in Verdict(q.op)
  /\ Verdict(q.op) \subseteq {q.row.status}
  /\ q.op = "create" => q.row.status = "pending"

\* The row a request is about to update exists and has the NIPT of the copy;
\* the id of a row about to be inserted is nobody else's.
IdHeld(r) ==
  LET q == req[r] IN
  /\ q.stage = "write" /\ q.op = "create" =>
       /\ business[q.id] = None
       /\ \A s \in Requests \ {r} : req[s] # Idle => req[s].id # q.id
  /\ q.op # "create" => business[q.id] # None /\ business[q.id].nipt = q.row.nipt

\* A mail about a decision belongs to the request that commits it.
MailBacked(q) ==
  q.mail \notin {None, "submitted"} =>
     \/ q.stage = "write" /\ q.mail \in Verdict(q.op)
     \/ q.stage = "mail" /\ <<q.id, q.mail>> \in verdicts

FlightInv ==
  \A r \in Requests : req[r] # Idle =>
    CopyBacked(req[r]) /\ IdHeld(r) /\ MailBacked(req[r])
    /\ (req[r].stage = "mail" => req[r].mail # None)
    /\ (req[r].op = "create" => req[r].mail # None)

IInv ==
  /\ TypeOK
  /\ RowsCoherent
  /\ StatusWasDecided
  /\ MailFollowsDecision
  /\ NiptUnique
  /\ FlightInv

-----------------------------------------------------------------------------
USE NoneIsNoValue DEF Statuses, Verdicts, MailKinds, Ops

LEMMA InitInv == Init => IInv
  BY DEF Init, IInv, TypeOK, RowsCoherent, StatusWasDecided,
         MailFollowsDecision, NiptUnique, FlightInv, Idle

\* A request in a slot is one of the records of InFlight.
LEMMA SlotTyped ==
  ASSUME TypeOK, NEW r \in Requests, req[r] # Idle
  PROVE  /\ req[r] \in InFlight
         /\ req[r].id \in Bids
         /\ req[r].row \in Row
         /\ req[r].op \in Ops
         /\ req[r].mail \in MailKinds \cup {None}
  BY DEF TypeOK, InFlight

\* Taking a slot preserves the invariant when the copy it takes is coherent,
\* backed by a decision, and its id is held as IdHeld asks.
LEMMA LoadInv ==
  ASSUME IInv,
         NEW r \in Requests, NEW operation \in Ops, NEW b \in Bids,
         NEW copy \in Row, NEW kind \in MailKinds \cup {None},
         Load(r, operation, b, copy, kind),
         Coherent(copy),
         copy.status # "pending" =>
           <<b, copy.status>> \in verdicts \/ copy.status \in Verdict(operation),
         Verdict(operation) \subseteq {copy.status},
         operation = "create" => /\ Unused(b)
                                 /\ copy.status = "pending"
                                 /\ kind # None,
         operation # "create" => business[b] # None /\ business[b].nipt = copy.nipt,
         kind \notin {None, "submitted"} => kind \in Verdict(operation)
  PROVE  IInv'
<1> DEFINE q == [stage |-> "write", op |-> operation, id |-> b,
                 row |-> copy, mail |-> kind, stale |-> FALSE]
<1>1. /\ req' = [req EXCEPT ![r] = q]
      /\ q \in InFlight /\ q # Idle
      /\ UNCHANGED <<business, verdicts, outbox>>
  BY DEF Load, InFlight, Idle
<1>2. TypeOK'
  BY <1>1 DEF IInv, TypeOK
<1>3. /\ RowsCoherent' /\ StatusWasDecided' /\ MailFollowsDecision' /\ NiptUnique'
  BY <1>1 DEF IInv, RowsCoherent, StatusWasDecided, MailFollowsDecision, NiptUnique
<1>4. /\ req'[r] = q
      /\ \A s \in Requests \ {r} : req'[s] = req[s]
  BY <1>1 DEF IInv, TypeOK
<1>5. FlightInv'
  <2> SUFFICES ASSUME NEW s \in Requests, req'[s] # Idle
               PROVE  /\ CopyBacked(req[s])' /\ IdHeld(s)' /\ MailBacked(req[s])'
                      /\ (req'[s].stage = "mail" => req'[s].mail # None)
                      /\ (req'[s].op = "create" => req'[s].mail # None)
    BY DEF FlightInv
  <2>1. CASE s = r
    <3>1. CopyBacked(req[s])'
      BY <2>1, <1>1, <1>4 DEF CopyBacked
    <3>2. IdHeld(s)'
      BY <2>1, <1>1, <1>4 DEF IdHeld, Unused
    <3>3. MailBacked(req[s])'
      BY <2>1, <1>1, <1>4 DEF MailBacked
    <3> QED BY <2>1, <1>1, <1>4, <3>1, <3>2, <3>3
  <2>2. CASE s # r
    <3>1. req'[s] = req[s] /\ req[s] # Idle
      BY <2>2, <1>4
    <3>2. /\ CopyBacked(req[s]) /\ IdHeld(s) /\ MailBacked(req[s])
          /\ (req[s].stage = "mail" => req[s].mail # None)
          /\ (req[s].op = "create" => req[s].mail # None)
      BY <3>1 DEF IInv, FlightInv
    <3>3. CopyBacked(req[s])' /\ MailBacked(req[s])'
      BY <3>1, <3>2, <1>1 DEF CopyBacked, MailBacked
    <3>4. IdHeld(s)'
      <4>1. ASSUME req[s].stage = "write", req[s].op = "create"
            PROVE  b # req[s].id
        BY <4>1, <2>2, <3>1, <3>2 DEF IdHeld, Unused
      <4> QED BY <4>1, <3>1, <3>2, <1>1, <1>4 DEF IdHeld
    <3> QED BY <3>1, <3>2, <3>3, <3>4
  <2> QED BY <2>1, <2>2
<1> QED BY <1>2, <1>3, <1>5 DEF IInv

\* What each handler makes of a coherent row is a coherent row again.
LEMMA CopyCoherent ==
  ASSUME NEW row \in Row, Coherent(row)
  PROVE  /\ Edited(row) \in Row /\ Coherent(Edited(row)) /\ Edited(row).nipt = row.nipt
         /\ Rejected(row) \in Row /\ Coherent(Rejected(row)) /\ Rejected(row).nipt = row.nipt
         /\ Suspended(row) \in Row /\ Coherent(Suspended(row)) /\ Suspended(row).nipt = row.nipt
         /\ \A a \in Admins : /\ Approved(row, a) \in Row /\ Coherent(Approved(row, a))
                              /\ Approved(row, a).nipt = row.nipt
  BY DEF Row, Coherent, Edited, Rejected, Suspended, Approved

LEMMA CheckNiptInv ==
  ASSUME IInv, NEW r \in Requests, NEW u \in Users, NEW n \in Nipts, NEW b \in Bids,
         CheckNipt(r, u, n, b)
  PROVE  IInv'
<1>1. Fresh(u, n) \in Row /\ Coherent(Fresh(u, n)) /\ Fresh(u, n).status = "pending"
  BY DEF Row, Fresh, Coherent
<1>2. Load(r, "create", b, Fresh(u, n), "submitted") /\ Unused(b) /\ Verdict("create") = {}
  BY DEF CheckNipt, Verdict
<1>3. "submitted" # None
  OBVIOUS
<1> QED BY <1>1, <1>2, <1>3, LoadInv

LEMMA LoadForEditInv ==
  ASSUME IInv, NEW r \in Requests, NEW u \in Users, NEW b \in Bids, LoadForEdit(r, u, b)
  PROVE  IInv'
<1> DEFINE kind == IF business[b].status = "rejected" THEN "submitted" ELSE None
<1>1. business[b] # None /\ business[b] \in Row /\ Coherent(business[b])
  BY DEF LoadForEdit, IInv, TypeOK, RowsCoherent
<1>2. /\ Edited(business[b]) \in Row /\ Coherent(Edited(business[b]))
     /\ Edited(business[b]).nipt = business[b].nipt
  BY <1>1, CopyCoherent
<1>3. Edited(business[b]).status # "pending"
        => <<b, Edited(business[b]).status>> \in verdicts
  BY <1>1 DEF Edited, IInv, StatusWasDecided, Row
<1>4. Load(r, "edit", b, Edited(business[b]), kind) /\ Verdict("edit") = {}
  BY DEF LoadForEdit, Verdict
<1>5. kind \in MailKinds \cup {None} /\ kind \in {None, "submitted"}
  OBVIOUS
<1> QED BY <1>1, <1>2, <1>3, <1>4, <1>5, LoadInv

LEMMA LoadForVerdictInv ==
  ASSUME IInv, NEW r \in Requests, NEW b \in Bids,
         \/ \E a \in Admins : LoadForApproval(r, a, b)
         \/ LoadForRejection(r, b)
         \/ LoadForSuspension(r, b)
  PROVE  IInv'
<1>1. business[b] # None /\ business[b] \in Row /\ Coherent(business[b])
  BY DEF LoadForApproval, LoadForRejection, LoadForSuspension, IInv, TypeOK, RowsCoherent
<1>2. ASSUME NEW a \in Admins, LoadForApproval(r, a, b)
      PROVE  IInv'
  <2>1. /\ Approved(business[b], a) \in Row /\ Coherent(Approved(business[b], a))
       /\ Approved(business[b], a).nipt = business[b].nipt
    BY <1>1, CopyCoherent
  <2>2. Approved(business[b], a).status = "approved" /\ Verdict("approve") = {"approved"}
    BY <1>1 DEF Approved, Row, Verdict
  <2>3. Load(r, "approve", b, Approved(business[b], a), "approved")
    BY <1>2 DEF LoadForApproval
  <2> QED BY <1>1, <2>1, <2>2, <2>3, LoadInv
<1>3. CASE LoadForRejection(r, b)
  <2>1. /\ Rejected(business[b]) \in Row /\ Coherent(Rejected(business[b]))
       /\ Rejected(business[b]).nipt = business[b].nipt
    BY <1>1, CopyCoherent
  <2>2. Rejected(business[b]).status = "rejected" /\ Verdict("reject") = {"rejected"}
    BY <1>1 DEF Rejected, Row, Verdict
  <2>3. Load(r, "reject", b, Rejected(business[b]), "rejected")
    BY <1>3 DEF LoadForRejection
  <2> QED BY <1>1, <2>1, <2>2, <2>3, LoadInv
<1>4. CASE LoadForSuspension(r, b)
  <2>1. /\ Suspended(business[b]) \in Row /\ Coherent(Suspended(business[b]))
       /\ Suspended(business[b]).nipt = business[b].nipt
    BY <1>1, CopyCoherent
  <2>2. Suspended(business[b]).status = "suspended" /\ Verdict("suspend") = {"suspended"}
    BY <1>1 DEF Suspended, Row, Verdict
  <2>3. Load(r, "suspend", b, Suspended(business[b]), None)
    BY <1>4 DEF LoadForSuspension
  <2> QED BY <1>1, <2>1, <2>2, <2>3, LoadInv
<1> QED BY <1>2, <1>3, <1>4

\* Two requests that differ at most in what the history says of them.
SameCopy(p, q) ==
  p.stage = q.stage /\ p.op = q.op /\ p.id = q.id /\ p.row = q.row /\ p.mail = q.mail

\* A request whose copy is out of date now.
LEMMA MadeStale ==
  ASSUME NEW q \in InFlight
  PROVE  /\ [q EXCEPT !.stale = TRUE] \in InFlight
         /\ [q EXCEPT !.stale = TRUE].stale
         /\ SameCopy([q EXCEPT !.stale = TRUE], q)
  BY DEF InFlight, SameCopy

\* A request that ends, or that has written and now owes a mail: what FlightInv
\* says of every request is kept.
LEMMA StepInv ==
  ASSUME IInv, NEW r \in Requests, req[r] # Idle,
         \A s \in Requests \ {r} : req'[s] # Idle => req[s] # Idle /\ SameCopy(req'[s], req[s]),
         verdicts \subseteq verdicts',
         \A b \in Bids : business'[b] # business[b]
           => /\ b = req[r].id /\ business'[b] # None
              /\ business[b] # None => business'[b].nipt = business[b].nipt,
         \/ req'[r] = Idle
         \/ /\ req'[r] = [req[r] EXCEPT !.stage = "mail"]
            /\ business'[req[r].id] # None
            /\ business'[req[r].id].nipt = req[r].row.nipt
            /\ req[r].row.status # "pending"
                 => <<req[r].id, req[r].row.status>> \in verdicts'
            /\ req[r].mail # None
            /\ req[r].mail # "submitted" => <<req[r].id, req[r].mail>> \in verdicts'
  PROVE  FlightInv'
<1> SUFFICES ASSUME NEW s \in Requests, req'[s] # Idle
             PROVE  /\ CopyBacked(req[s])' /\ IdHeld(s)' /\ MailBacked(req[s])'
                    /\ (req'[s].stage = "mail" => req'[s].mail # None)
                    /\ (req'[s].op = "create" => req'[s].mail # None)
  BY DEF FlightInv
<1>1. \A t \in Requests :
        req'[t] # Idle => (req[t] # Idle /\ (t # r => req'[t].id = req[t].id))
  BY DEF SameCopy
<1>2. /\ CopyBacked(req[s]) /\ IdHeld(s) /\ MailBacked(req[s])
      /\ (req[s].stage = "mail" => req[s].mail # None)
      /\ (req[s].op = "create" => req[s].mail # None)
  BY <1>1 DEF IInv, FlightInv
<1>3. req[s] \in InFlight /\ req[s].id \in Bids
  BY <1>1, SlotTyped DEF IInv
<1>4. CASE s # r
  <2>1. /\ req'[s].stage = req[s].stage /\ req'[s].op = req[s].op /\ req'[s].id = req[s].id
        /\ req'[s].row = req[s].row /\ req'[s].mail = req[s].mail
    BY <1>4 DEF SameCopy
  <2>2. CopyBacked(req[s])' /\ MailBacked(req[s])'
    BY <1>2, <2>1 DEF CopyBacked, MailBacked
  <2>3. ASSUME req[s].stage = "write", req[s].op = "create"
        PROVE  /\ business'[req[s].id] = None
               /\ \A t \in Requests \ {s} : req'[t] # Idle => req'[t].id # req[s].id
    <3>1. req[r].id # req[s].id
      BY <1>2, <1>4, <2>3 DEF IdHeld
    <3>2. business'[req[s].id] = None
      BY <1>2, <1>3, <2>3, <3>1 DEF IdHeld
    <3>3. ASSUME NEW t \in Requests \ {s}, req'[t] # Idle
          PROVE  req'[t].id # req[s].id
      <4>1. CASE t # r
        BY <4>1, <3>3, <1>1, <1>2, <2>3 DEF IdHeld
      <4>2. CASE t = r
        <5>1. req[r] \in InFlight
          BY SlotTyped DEF IInv
        <5> QED BY <4>2, <3>3, <3>1, <5>1 DEF InFlight
      <4> QED BY <4>1, <4>2
    <3> QED BY <3>2, <3>3
  <2>4. req[s].op # "create" => /\ business'[req[s].id] # None
                                /\ business'[req[s].id].nipt = req[s].row.nipt
    BY <1>2, <1>3 DEF IdHeld
  <2>5. IdHeld(s)'
    BY <2>1, <2>3, <2>4 DEF IdHeld
  <2> QED BY <1>2, <2>1, <2>2, <2>5
<1>5. CASE s = r
  <2>1. /\ req'[s] = [req[s] EXCEPT !.stage = "mail"]
        /\ req'[s].stage = "mail" /\ req'[s].row = req[s].row
        /\ req'[s].id = req[s].id /\ req'[s].op = req[s].op /\ req'[s].mail = req[s].mail
    BY <1>3, <1>5 DEF InFlight
  <2>2. CopyBacked(req[s])'
    BY <1>2, <1>5, <2>1 DEF CopyBacked
  <2>3. IdHeld(s)' /\ MailBacked(req[s])'
    BY <1>5, <2>1 DEF IdHeld, MailBacked
  <2> QED BY <1>5, <2>1, <2>2, <2>3
<1> QED BY <1>4, <1>5

LEMMA AbandonInv ==
  ASSUME IInv, NEW r \in Requests, Abandon(r)
  PROVE  IInv'
<1>1. /\ req[r] # Idle /\ req' = [req EXCEPT ![r] = Idle]
      /\ business' = business /\ verdicts' = verdicts /\ outbox' = outbox
  BY DEF Abandon
<1>2. req'[r] = Idle /\ \A s \in Requests \ {r} : req'[s] = req[s]
  BY <1>1 DEF IInv, TypeOK
<1>3. FlightInv'
  BY <1>1, <1>2, StepInv DEF SameCopy
<1>4. TypeOK'
  BY <1>1 DEF IInv, TypeOK
<1>5. RowsCoherent' /\ StatusWasDecided' /\ NiptUnique' /\ MailFollowsDecision'
  BY <1>1 DEF IInv, RowsCoherent, StatusWasDecided, NiptUnique, MailFollowsDecision
<1> QED BY <1>3, <1>4, <1>5 DEF IInv

LEMMA QueueMailInv ==
  ASSUME IInv, NEW r \in Requests, QueueMail(r)
  PROVE  IInv'
<1> DEFINE m == [kind |-> req[r].mail, id |-> req[r].id]
<1>1. /\ req[r] # Idle /\ req[r].stage = "mail" /\ req' = [req EXCEPT ![r] = Idle]
      /\ business' = business /\ verdicts' = verdicts /\ outbox' = outbox \cup {m}
  BY DEF QueueMail
<1>2. req[r].mail # None /\ MailBacked(req[r])
  BY <1>1 DEF IInv, FlightInv
<1>3. m \in Mail
  BY <1>1, <1>2, SlotTyped DEF IInv, Mail
<1>4. req'[r] = Idle /\ \A s \in Requests \ {r} : req'[s] = req[s]
  BY <1>1 DEF IInv, TypeOK
<1>5. FlightInv'
  BY <1>1, <1>4, StepInv DEF SameCopy
<1>6. TypeOK'
  BY <1>1, <1>3 DEF IInv, TypeOK
<1>7. MailFollowsDecision'
  BY <1>1, <1>2 DEF IInv, MailFollowsDecision, MailBacked
<1>8. RowsCoherent' /\ StatusWasDecided' /\ NiptUnique'
  BY <1>1 DEF IInv, RowsCoherent, StatusWasDecided, NiptUnique
<1> QED BY <1>5, <1>6, <1>7, <1>8 DEF IInv

LEMMA InsertInv ==
  ASSUME IInv, NEW r \in Requests, Insert(r)
  PROVE  IInv'
<1> DEFINE i == req[r].id
<1>1. /\ req[r] # Idle /\ req[r].stage = "write" /\ req[r].op = "create"
      /\ verdicts' = verdicts /\ outbox' = outbox
  BY DEF Insert
<1>2. /\ req[r] \in InFlight /\ i \in Bids /\ req[r].row \in Row
      /\ CopyBacked(req[r]) /\ IdHeld(r) /\ MailBacked(req[r]) /\ req[r].mail # None
  BY <1>1, SlotTyped DEF IInv, FlightInv
<1>3. MailFollowsDecision'
  BY <1>1 DEF IInv, MailFollowsDecision
<1>4. CASE /\ ~NiptFree(req[r].row.nipt)
           /\ req' = [req EXCEPT ![r] = Idle]
           /\ UNCHANGED business
  <2>1. req'[r] = Idle /\ \A s \in Requests \ {r} : req'[s] = req[s]
    BY <1>4 DEF IInv, TypeOK
  <2>2. FlightInv'
    BY <1>1, <1>4, <2>1, StepInv DEF SameCopy
  <2>3. TypeOK' /\ RowsCoherent' /\ StatusWasDecided' /\ NiptUnique'
    BY <1>1, <1>4 DEF IInv, TypeOK, RowsCoherent, StatusWasDecided, NiptUnique
  <2> QED BY <1>3, <2>2, <2>3 DEF IInv
<1>5. CASE /\ NiptFree(req[r].row.nipt)
           /\ business' = [business EXCEPT ![i] = req[r].row]
           /\ req' = [req EXCEPT ![r].stage = "mail"]
  <2>1. /\ req'[r] = [req[r] EXCEPT !.stage = "mail"]
        /\ \A s \in Requests \ {r} : req'[s] = req[s]
        /\ business'[i] = req[r].row
        /\ \A b \in Bids \ {i} : business'[b] = business[b]
    BY <1>5, <1>2 DEF IInv, TypeOK
  <2>2. req[r].row # None /\ req[r].row.status = "pending" /\ Coherent(req[r].row)
    BY <1>1, <1>2 DEF CopyBacked
  <2>3. req[r].mail # "submitted" => <<i, req[r].mail>> \in verdicts
    BY <1>1, <1>2 DEF MailBacked, Verdict
  <2>4. \A b \in Bids : business'[b] # business[b]
           => b = i /\ business'[b] # None /\ business[b] = None
    BY <1>1, <1>2, <2>1, <2>2 DEF IdHeld
  <2>5. FlightInv'
    BY <1>1, <1>2, <2>1, <2>2, <2>3, <2>4, StepInv DEF SameCopy
  <2>6. TypeOK'
    BY <1>1, <1>2, <1>5, <2>1 DEF IInv, TypeOK, InFlight
  <2>7. RowsCoherent' /\ StatusWasDecided'
    BY <1>1, <2>1, <2>2 DEF IInv, RowsCoherent, StatusWasDecided
  <2>8. NiptUnique'
    BY <1>5, <2>1, <2>2 DEF IInv, NiptUnique, NiptFree
  <2> QED BY <1>3, <2>5, <2>6, <2>7, <2>8 DEF IInv
<1> QED BY <1>1, <1>4, <1>5 DEF Insert

LEMMA UpdateInv ==
  ASSUME IInv, NEW r \in Requests, Update(r)
  PROVE  IInv'
<1> DEFINE i == req[r].id
<1>1. /\ req[r] # Idle /\ req[r].stage = "write" /\ req[r].op # "create"
      /\ business' = [business EXCEPT ![i] = req[r].row]
      /\ verdicts' = verdicts \cup ({i} \X Verdict(req[r].op))
      /\ WroteRow(r, IF req[r].mail = None THEN Idle ELSE [req[r] EXCEPT !.stage = "mail"])
      /\ outbox' = outbox
  BY DEF Update
<1>2. /\ req[r] \in InFlight /\ i \in Bids /\ req[r].row \in Row
      /\ CopyBacked(req[r]) /\ IdHeld(r) /\ MailBacked(req[r])
  BY <1>1, SlotTyped DEF IInv, FlightInv
<1>3. /\ business'[i] = req[r].row /\ req[r].row # None /\ Coherent(req[r].row)
      /\ \A b \in Bids \ {i} : business'[b] = business[b]
  BY <1>1, <1>2 DEF IInv, TypeOK, CopyBacked
<1>4. /\ verdicts \subseteq verdicts'
      /\ \A v \in Verdict(req[r].op) : <<i, v>> \in verdicts'
      /\ Verdict(req[r].op) \subseteq Verdicts
  BY <1>1 DEF Verdict
<1>5. /\ req[r].row.status # "pending" => <<i, req[r].row.status>> \in verdicts'
      /\ req[r].mail \notin {None, "submitted"} => <<i, req[r].mail>> \in verdicts'
  BY <1>1, <1>2, <1>4 DEF CopyBacked, MailBacked
<1>6. /\ \A s \in Requests \ {r} : req'[s] # Idle => req[s] # Idle /\ SameCopy(req'[s], req[s])
      /\ req'[r] = IF req[r].mail = None THEN Idle ELSE [req[r] EXCEPT !.stage = "mail"]
  <2>1. req'[r] = IF req[r].mail = None THEN Idle ELSE [req[r] EXCEPT !.stage = "mail"]
    BY <1>1 DEF WroteRow
  <2>2. ASSUME NEW s \in Requests \ {r}, req'[s] # Idle
        PROVE  req[s] # Idle /\ SameCopy(req'[s], req[s])
    <3>1. req'[s] = IF req[s] # Idle /\ req[s].id = i THEN [req[s] EXCEPT !.stale = TRUE] ELSE req[s]
      BY <1>1, <2>2 DEF WroteRow
    <3>2. req[s] # Idle /\ req[s] \in InFlight
      BY <2>2, <3>1, SlotTyped DEF IInv
    <3>3. CASE req'[s] = req[s]
      BY <3>2, <3>3 DEF SameCopy
    <3>4. CASE req'[s] = [req[s] EXCEPT !.stale = TRUE]
      BY <3>2, <3>4, MadeStale
    <3> QED BY <3>1, <3>3, <3>4
  <2> QED BY <2>1, <2>2
<1>7. business[i] # None /\ business[i].nipt = req[r].row.nipt
  BY <1>1, <1>2 DEF IdHeld
<1>8. FlightInv'
  BY <1>1, <1>2, <1>3, <1>4, <1>5, <1>6, <1>7, StepInv
<1>9. TypeOK'
  <2>1. business' \in [Bids -> Row \cup {None}]
    BY <1>1, <1>2 DEF IInv, TypeOK
  <2>2. req' \in [Requests -> InFlight \cup {Idle}]
    <3>1. \A q \in InFlight : /\ [q EXCEPT !.stale = TRUE] \in InFlight
                              /\ [q EXCEPT !.stage = "mail"] \in InFlight
      BY DEF InFlight
    <3>2. \A s \in Requests : req[s] \in InFlight \cup {Idle}
      BY DEF IInv, TypeOK
    <3> QED BY <1>1, <1>2, <3>1, <3>2 DEF WroteRow
  <2>3. verdicts' \in SUBSET (Bids \X Verdicts)
    BY <1>1, <1>2, <1>4 DEF IInv, TypeOK
  <2> QED BY <1>1, <2>1, <2>2, <2>3 DEF IInv, TypeOK
<1>10. RowsCoherent'
  BY <1>3 DEF IInv, RowsCoherent
<1>11. StatusWasDecided'
  BY <1>3, <1>4, <1>5 DEF IInv, StatusWasDecided
<1>12. MailFollowsDecision'
  BY <1>1, <1>4 DEF IInv, MailFollowsDecision
<1>13. NiptUnique'
  BY <1>3, <1>7 DEF IInv, NiptUnique
<1> QED BY <1>8, <1>9, <1>10, <1>11, <1>12, <1>13 DEF IInv

LEMMA NextInv == IInv /\ [Next]_vars => IInv'
<1> SUFFICES ASSUME IInv, [Next]_vars
             PROVE  IInv'
  OBVIOUS
<1>1. CASE UNCHANGED vars
  BY <1>1 DEF vars, IInv, TypeOK, RowsCoherent, StatusWasDecided, MailFollowsDecision,
              NiptUnique, FlightInv, CopyBacked, IdHeld, MailBacked
<1>2. ASSUME NEW r \in Requests,
             \E u \in Users, b \in Bids, n \in Nipts : CheckNipt(r, u, n, b)
      PROVE  IInv'
  BY <1>2, CheckNiptInv
<1>3. ASSUME NEW r \in Requests, \E u \in Users, b \in Bids : LoadForEdit(r, u, b)
      PROVE  IInv'
  BY <1>3, LoadForEditInv
<1>4. ASSUME NEW r \in Requests, NEW b \in Bids,
             \/ \E a \in Admins : LoadForApproval(r, a, b)
             \/ LoadForRejection(r, b)
             \/ LoadForSuspension(r, b)
      PROVE  IInv'
  BY <1>4, LoadForVerdictInv
<1>5. ASSUME NEW r \in Requests, Insert(r) \/ Update(r) \/ QueueMail(r) \/ Abandon(r)
      PROVE  IInv'
  BY <1>5, InsertInv, UpdateInv, QueueMailInv, AbandonInv
<1> QED BY <1>1, <1>2, <1>3, <1>4, <1>5 DEF Next

\* IInv holds in every reachable state.
THEOREM Invariant == Spec => []IInv
<1>1. Init => IInv
  BY InitInv
<1>2. IInv /\ [Next]_vars => IInv'
  BY NextInv
<1> QED BY <1>1, <1>2, PTL DEF Spec

\* Every stored row and request keeps its shape (all of the columns modelled).
THEOREM TypeCorrect == Spec => []TypeOK
BY Invariant, PTL DEF IInv

\* Status, rejection reason and approval stamp agree in every stored row, for
\* any number of overlapping requests (service/business.rs, service/admin.rs).
THEOREM Coherence == Spec => []RowsCoherent
BY Invariant, PTL DEF IInv

\* A status that administrators give was given by one, however many stale
\* copies are written back (service/admin.rs).
THEOREM Decided == Spec => []StatusWasDecided
BY Invariant, PTL DEF IInv

\* No two businesses share a NIPT (service/business.rs create, unique index).
THEOREM OneNipt == Spec => []NiptUnique
BY Invariant, PTL DEF IInv

\* The mail about a decision is queued only after the decision is stored.
THEOREM MailAfterDecision == Spec => []MailFollowsDecision
BY Invariant, PTL DEF IInv

-----------------------------------------------------------------------------
(***************************************************************************)
(* Decisions stand.  The copy of an edit that nobody has overtaken has the *)
(* status the edit gives to the row as it is stored now.                   *)
(***************************************************************************)
CopyCurrent ==
  \A r \in Requests :
    req[r] # Idle /\ req[r].stage = "write" /\ req[r].op = "edit" /\ ~req[r].stale
      => req[r].row.status = Edited(business[req[r].id]).status

\* What a request that loads a row leaves alone, and its own copy.
LEMMA LoadCurrent ==
  ASSUME IInv, CopyCurrent, NEW r \in Requests, NEW operation, NEW b, NEW copy, NEW kind,
         Load(r, operation, b, copy, kind),
         operation = "edit" => copy = Edited(business[b])
  PROVE  CopyCurrent'
<1>1. /\ req'[r] = [stage |-> "write", op |-> operation, id |-> b, row |-> copy,
                    mail |-> kind, stale |-> FALSE]
      /\ \A s \in Requests \ {r} : req'[s] = req[s]
      /\ business' = business
  BY DEF Load, IInv, TypeOK
<1> SUFFICES ASSUME NEW s \in Requests, req'[s] # Idle, req'[s].stage = "write",
                    req'[s].op = "edit", ~req'[s].stale
             PROVE  req'[s].row.status = Edited(business[req'[s].id]).status
  BY <1>1 DEF CopyCurrent
<1>2. CASE s = r
  BY <1>1, <1>2
<1>3. CASE s # r
  BY <1>1, <1>3 DEF CopyCurrent
<1> QED BY <1>2, <1>3

\* An insert is of an id that no other request has.
LEMMA InsertCurrent ==
  ASSUME IInv, CopyCurrent, NEW r \in Requests, Insert(r)
  PROVE  CopyCurrent'
<1>1. /\ req[r] # Idle /\ req[r].stage = "write" /\ req[r].op = "create" /\ IdHeld(r)
  BY DEF Insert, IInv, FlightInv
<1>2. /\ \A s \in Requests \ {r} : req'[s] = req[s]
      /\ req'[r] = Idle \/ req'[r] = [req[r] EXCEPT !.stage = "mail"]
  BY DEF Insert, IInv, TypeOK
<1>3. req[r] \in InFlight
  BY <1>1, SlotTyped DEF IInv
<1> SUFFICES ASSUME NEW s \in Requests, req'[s] # Idle, req'[s].stage = "write",
                    req'[s].op = "edit", ~req'[s].stale
             PROVE  req'[s].row.status = Edited(business'[req'[s].id]).status
  BY DEF CopyCurrent, Edited
<1>4. s # r
  BY <1>2, <1>3 DEF InFlight
<1>5. req'[s] = req[s] /\ req[s].id # req[r].id /\ req[s].id \in Bids
  BY <1>1, <1>2, <1>4, SlotTyped DEF IdHeld, IInv
<1>6. business'[req[s].id] = business[req[s].id]
  BY <1>5 DEF Insert, IInv, TypeOK
<1> QED BY <1>5, <1>6 DEF CopyCurrent

\* An update makes every other copy of its row stale.
LEMMA UpdateCurrent ==
  ASSUME IInv, CopyCurrent, NEW r \in Requests, Update(r)
  PROVE  CopyCurrent'
<1>1. /\ req[r] # Idle /\ req[r] \in InFlight
      /\ business' = [business EXCEPT ![req[r].id] = req[r].row]
      /\ WroteRow(r, IF req[r].mail = None THEN Idle ELSE [req[r] EXCEPT !.stage = "mail"])
  BY SlotTyped DEF Update, IInv
<1> SUFFICES ASSUME NEW s \in Requests, req'[s] # Idle, req'[s].stage = "write",
                    req'[s].op = "edit", ~req'[s].stale
             PROVE  req'[s].row.status = Edited(business'[req'[s].id]).status
  BY DEF CopyCurrent, Edited
<1>2. s # r
  <2>1. s = r => req'[s] = Idle \/ req'[s] = [req[r] EXCEPT !.stage = "mail"]
    BY <1>1 DEF WroteRow
  <2> QED BY <1>1, <2>1 DEF InFlight
<1>3. req'[s] = IF req[s] # Idle /\ req[s].id = req[r].id THEN [req[s] EXCEPT !.stale = TRUE]
                                                         ELSE req[s]
  BY <1>1, <1>2 DEF WroteRow
<1>4. req[s] # Idle /\ req[s] \in InFlight
  BY <1>3, SlotTyped DEF IInv
<1>5. req'[s] = req[s] /\ req[s].id # req[r].id /\ req[s].id \in Bids
  BY <1>3, <1>4, MadeStale DEF InFlight
<1>6. business'[req[s].id] = business[req[s].id]
  BY <1>1, <1>5 DEF IInv, TypeOK
<1> QED BY <1>5, <1>6 DEF CopyCurrent

LEMMA NextCurrent == IInv /\ CopyCurrent /\ [Next]_vars => CopyCurrent'
<1> SUFFICES ASSUME IInv, CopyCurrent, [Next]_vars
             PROVE  CopyCurrent'
  OBVIOUS
<1>1. CASE UNCHANGED vars
  BY <1>1 DEF vars, CopyCurrent, Edited
<1>2. ASSUME NEW r \in Requests, NEW u \in Users, NEW b \in Bids, NEW n \in Nipts,
             CheckNipt(r, u, n, b)
      PROVE  CopyCurrent'
  BY <1>2, LoadCurrent DEF CheckNipt
<1>3. ASSUME NEW r \in Requests, NEW u \in Users, NEW b \in Bids, LoadForEdit(r, u, b)
      PROVE  CopyCurrent'
  BY <1>3, LoadCurrent DEF LoadForEdit
<1>4. ASSUME NEW r \in Requests, NEW b \in Bids,
             \/ \E a \in Admins : LoadForApproval(r, a, b)
             \/ LoadForRejection(r, b)
             \/ LoadForSuspension(r, b)
      PROVE  CopyCurrent'
  BY <1>4, LoadCurrent DEF LoadForApproval, LoadForRejection, LoadForSuspension
<1>5. ASSUME NEW r \in Requests, QueueMail(r) \/ Abandon(r)
      PROVE  CopyCurrent'
  <2>1. /\ business' = business /\ req'[r] = Idle
        /\ \A s \in Requests \ {r} : req'[s] = req[s]
    BY <1>5 DEF QueueMail, Abandon, IInv, TypeOK
  <2> QED BY <2>1 DEF CopyCurrent, Edited
<1>6. ASSUME NEW r \in Requests, Insert(r) \/ Update(r)
      PROVE  CopyCurrent'
  BY <1>6, InsertCurrent, UpdateCurrent
<1> QED BY <1>1, <1>2, <1>3, <1>4, <1>5, <1>6 DEF Next

\* A step that changes the status of a stored row is an update.
LEMMA StatusChanges ==
  ASSUME IInv, [Next]_vars, NEW b \in Bids, business[b] # None,
         business'[b].status # business[b].status
  PROVE  \E r \in Requests : Update(r) /\ req[r].id = b
<1>1. business' # business
  OBVIOUS
<1>2. PICK r \in Requests : Insert(r) \/ Update(r)
  BY <1>1 DEF Next, vars, CheckNipt, LoadForEdit, LoadForApproval, LoadForRejection,
              LoadForSuspension, Load, QueueMail, Abandon
<1>3. /\ req[r] # Idle /\ req[r].stage = "write"
      /\ business' = [business EXCEPT ![req[r].id] = req[r].row]
  BY <1>1, <1>2 DEF Insert, Update
<1>4. req[r].id = b
  BY <1>3 DEF IInv, TypeOK
<1>5. ~Insert(r)
  BY <1>3, <1>4 DEF Insert, IInv, FlightInv, IdHeld
<1> QED BY <1>2, <1>4, <1>5

\* An update that nobody has overtaken gives the status of its decision, or
\* submits a rejected business again.
LEMMA UpdateDecides ==
  ASSUME IInv, CopyCurrent, NEW r \in Requests, Update(r), ~req[r].stale,
         NEW b \in Bids, req[r].id = b, business'[b].status # business[b].status
  PROVE  \/ business[b].status = "rejected" /\ business'[b].status = "pending"
         \/ business'[b].status \in Verdict(req[r].op)
<1>1. /\ req[r] # Idle /\ req[r].stage = "write" /\ req[r].op # "create"
      /\ req[r].op \in Ops /\ CopyBacked(req[r]) /\ business[b] \in Row
      /\ business'[b] = req[r].row
  BY SlotTyped DEF Update, IInv, TypeOK, FlightInv, IdHeld
<1>2. CASE req[r].op = "edit"
  <2>1. req[r].row.status = Edited(business[b]).status
    BY <1>1, <1>2 DEF CopyCurrent
  <2> QED BY <1>1, <2>1 DEF Edited, Row
<1>3. CASE req[r].op # "edit"
  <2>1. \E v \in Verdicts : Verdict(req[r].op) = {v}
    BY <1>1, <1>3 DEF Verdict
  <2> QED BY <1>1, <2>1 DEF CopyBacked
<1> QED BY <1>2, <1>3

\* A decision stands until the next one, or the edit that submits a rejected
\* business again, for any number of overlapping requests; only a copy that was
\* overtaken brings another status back (service/business.rs:128).
THEOREM DecisionStands == Spec => DecisionsStand
<1>1. Init => CopyCurrent
  BY DEF Init, CopyCurrent
<1>2. IInv /\ CopyCurrent /\ [Next]_vars => CopyCurrent'
  BY NextCurrent
<1>3. IInv /\ CopyCurrent /\ [Next]_vars =>
        [\A b \in Bids : business[b] # None /\ business'[b].status # business[b].status =>
           \/ business[b].status = "rejected" /\ business'[b].status = "pending"
           \/ \E r \in Requests :
                /\ Update(r) /\ req[r].id = b
                /\ req[r].stale \/ business'[b].status \in Verdict(req[r].op)]_vars
  <2> SUFFICES ASSUME IInv, CopyCurrent, [Next]_vars, NEW b \in Bids, business[b] # None,
                      business'[b].status # business[b].status
               PROVE  \/ business[b].status = "rejected" /\ business'[b].status = "pending"
                      \/ \E r \in Requests :
                           /\ Update(r) /\ req[r].id = b
                           /\ req[r].stale \/ business'[b].status \in Verdict(req[r].op)
    OBVIOUS
  <2>1. PICK r \in Requests : Update(r) /\ req[r].id = b
    BY StatusChanges
  <2>2. CASE req[r].stale
    BY <2>1, <2>2
  <2>3. CASE ~req[r].stale
    BY <2>1, <2>3, UpdateDecides
  <2> QED BY <2>2, <2>3
<1> QED BY <1>1, <1>2, <1>3, Invariant, PTL DEF Spec, DecisionsStand

-----------------------------------------------------------------------------
(***************************************************************************)
(* The table implements Approval.  Only an insert and an update touch the  *)
(* table: the insert is Register, the update of an approval is Vet, and    *)
(* every other update is Move because StatusWasDecided also holds of the   *)
(* copy that is written back.                                              *)
(***************************************************************************)
\* The state of Approval that Businesses shows.
standingBar == [b \in Bids |-> IF business[b] = None THEN "absent" ELSE business[b].status]
vettedBar == {b \in Bids : <<b, "approved">> \in verdicts}

LEMMA InitRefines == Init => Promise!ApprovalInit
  BY DEF Init, Promise!ApprovalInit

LEMMA InsertRefines ==
  ASSUME IInv, NEW r \in Requests, Insert(r)
  PROVE  Promise!ApprovalNext \/ UNCHANGED Promise!approvalVars
<1>0. PICK i \in Bids : i = req[r].id
  BY SlotTyped DEF Insert, IInv
<1>1. /\ i = req[r].id /\ req[r].row \in Row /\ business[i] = None
      /\ req[r].row.status = "pending" /\ req[r].row # None /\ verdicts' = verdicts
  BY <1>0, SlotTyped DEF Insert, IInv, FlightInv, IdHeld, CopyBacked
<1>2. CASE UNCHANGED business
  BY <1>1, <1>2 DEF Promise!approvalVars
<1>3. CASE business' = [business EXCEPT ![i] = req[r].row]
  <2>1. business'[i] = req[r].row /\ \A b \in Bids \ {i} : business'[b] = business[b]
    BY <1>1, <1>3 DEF IInv, TypeOK
  <2>2. standingBar[i] = "absent" /\ standingBar' = [standingBar EXCEPT ![i] = "pending"]
    BY <1>1, <2>1 DEF standingBar
  <2>3. Promise!Register(i)
    BY <1>1, <2>2 DEF Promise!Register, standingBar
  <2> QED BY <2>3 DEF Promise!ApprovalNext
<1> QED BY <1>1, <1>2, <1>3 DEF Insert

LEMMA UpdateRefines ==
  ASSUME IInv, NEW r \in Requests, Update(r)
  PROVE  Promise!ApprovalNext
<1> DEFINE s == req[r].row.status
<1>0. PICK i \in Bids : i = req[r].id
  BY SlotTyped DEF Update, IInv
<1>1. /\ i = req[r].id /\ req[r].row \in Row /\ req[r].row # None
      /\ CopyBacked(req[r]) /\ business[i] # None /\ req[r].op \in Ops
      /\ req[r].op # "create"
      /\ business' = [business EXCEPT ![i] = req[r].row]
      /\ verdicts' = verdicts \cup ({i} \X Verdict(req[r].op))
  BY <1>0, SlotTyped DEF Update, IInv, FlightInv, IdHeld
<1>2. business'[i] = req[r].row /\ \A b \in Bids \ {i} : business'[b] = business[b]
  BY <1>1 DEF IInv, TypeOK
<1>3. /\ standingBar[i] # "absent"
      /\ standingBar' = [standingBar EXCEPT ![i] = s]
      /\ s \in {"pending", "approved", "rejected", "suspended"}
  <2>1. business[i] \in Row
    BY <1>1 DEF IInv, TypeOK
  <2>2. standingBar[i] # "absent"
    BY <1>1, <2>1 DEF standingBar, Row
  <2>3. standingBar' = [standingBar EXCEPT ![i] = s]
    <3>1. standingBar'[i] = s
      BY <1>1, <1>2 DEF standingBar
    <3>2. \A b \in Bids \ {i} : standingBar'[b] = standingBar[b]
      BY <1>2 DEF standingBar
    <3>3. /\ standingBar = [b \in Bids |-> standingBar[b]]
          /\ standingBar' = [b \in Bids |-> standingBar'[b]]
      BY DEF standingBar
    <3> HIDE DEF s
    <3> QED BY <3>1, <3>2, <3>3
  <2> QED BY <1>1, <2>2, <2>3 DEF Row
<1>4. CASE req[r].op = "approve" /\ s = "approved"
  <2>1. verdicts' = verdicts \cup {<<i, "approved">>}
    BY <1>1, <1>4 DEF Verdict
  <2>2. vettedBar' = vettedBar \cup {i}
    BY <1>1, <2>1 DEF vettedBar
  <2>3. Promise!Vet(i)
    BY <1>3, <1>4, <2>2 DEF Promise!Vet, standingBar, vettedBar
  <2> QED BY <2>3 DEF Promise!ApprovalNext
<1>5. CASE req[r].op # "approve"
  <2>1. "approved" \notin Verdict(req[r].op)
    BY <1>1, <1>5 DEF Verdict
  <2>2. vettedBar' = vettedBar
    BY <1>1, <2>1 DEF vettedBar
  <2>3. s = "approved" => i \in vettedBar
    BY <1>1, <2>1 DEF CopyBacked, vettedBar
  <2>4. Promise!Move(i)
    BY <1>3, <2>2, <2>3 DEF Promise!Move, Promise!Statuses, standingBar, vettedBar
  <2> QED BY <2>4 DEF Promise!ApprovalNext
<1>6. req[r].op = "approve" => s = "approved"
  BY <1>1 DEF CopyBacked, Verdict
<1> QED BY <1>4, <1>5, <1>6

LEMMA NextRefines == IInv /\ [Next]_vars => [Promise!ApprovalNext]_(Promise!approvalVars)
<1> SUFFICES ASSUME IInv, [Next]_vars
             PROVE  Promise!ApprovalNext \/ UNCHANGED Promise!approvalVars
  OBVIOUS
<1>1. ASSUME business' = business, verdicts' = verdicts
      PROVE  UNCHANGED Promise!approvalVars
  BY <1>1 DEF Promise!approvalVars
<1>2. CASE UNCHANGED vars
  BY <1>1, <1>2 DEF vars
<1>3. ASSUME NEW r \in Requests,
             \/ \E u \in Users, b \in Bids, n \in Nipts : CheckNipt(r, u, n, b)
             \/ \E u \in Users, b \in Bids : LoadForEdit(r, u, b)
             \/ \E a \in Admins, b \in Bids : LoadForApproval(r, a, b)
             \/ \E b \in Bids : LoadForRejection(r, b)
             \/ \E b \in Bids : LoadForSuspension(r, b)
      PROVE  UNCHANGED Promise!approvalVars
  BY <1>1, <1>3 DEF CheckNipt, LoadForEdit, LoadForApproval, LoadForRejection,
                    LoadForSuspension, Load
<1>4. ASSUME NEW r \in Requests, QueueMail(r) \/ Abandon(r)
      PROVE  UNCHANGED Promise!approvalVars
  BY <1>1, <1>4 DEF QueueMail, Abandon
<1> QED BY <1>2, <1>3, <1>4, InsertRefines, UpdateRefines DEF Next

\* The businesses table, with every overlap of its requests, implements what
\* Approval promises to the code that reads a business's status.
THEOREM ImplementsApproval == Spec => KeepsPromise
<1>1. Init => Promise!ApprovalInit
  BY InitRefines
<1>2. IInv /\ [Next]_vars => [Promise!ApprovalNext]_(Promise!approvalVars)
  BY NextRefines
<1> QED BY <1>1, <1>2, Invariant, PTL DEF Spec, KeepsPromise, Promise!ApprovalSpec
=============================================================================
