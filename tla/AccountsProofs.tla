--------------------------- MODULE AccountsProofs ---------------------------
(***************************************************************************)
(* Types, one account per address and verification by link, for any number *)
(* of accounts, sessions, links and overlapping requests; and the sessions  *)
(* and links that overlapping requests leave, but for the late ones.       *)
(***************************************************************************)
EXTENDS Accounts, Integers, TLAPS

-----------------------------------------------------------------------------
\* What the handlers' plans have in common, and keep while they are worked off:
\* an account is created, and a user read, first; a link is mailed right after
\* its token was stored, a token is marked right after the user was read, and
\* a session is opened last.  What changes a password or an activity ends with
\* the revocation of all sessions.
Belongs(stage, op) ==
  /\ stage = "create" => op \in {"register", "seed"}
  /\ stage = "user" => op \in {"refresh", "verify", "reset"}
  /\ stage = "mark" => op \in {"verify", "reset"}
  /\ stage = "revoke" => op \in {"refresh", "logout"}
  /\ stage = "invalidate" => op \in {"resend", "forgot"}
  /\ stage \in {"token", "mail"} => op \in {"register", "resend", "forgot"}
  /\ stage = "session" => op \in {"register", "login", "refresh"}
  /\ stage = "update" => op \in {"verify", "reset", "suspend", "profile"}
  /\ stage = "revoke_all" => op \in {"reset", "suspend"}

Follows(stage, previous) ==
  /\ stage \notin {"create", "user"} /\ previous # "session"
  /\ previous = "user" => stage \in {"mark", "revoke"}
  /\ previous = "update" => stage = "revoke_all"
  /\ stage = "token" => previous \in {"create", "invalidate"}
  /\ stage = "mail" => previous = "token"
  /\ stage = "mark" => previous = "user"
  /\ stage = "session" => previous \in {"mail", "revoke"}

Ordered(op, s) ==
  /\ s \in Seq(Stages) /\ s # <<>>
  /\ \A i \in 1..Len(s) : Belongs(s[i], op)
  /\ \A i \in 2..Len(s) : Follows(s[i], s[i - 1])
  /\ op \in {"reset", "suspend"} => s[Len(s)] = "revoke_all"

\* Every handler's list of statements keeps this order.
LEMMA PlansOrdered == \A op \in Ops : Ordered(op, Plan[op])
<1> SUFFICES ASSUME NEW op \in Ops PROVE Ordered(op, Plan[op])
  OBVIOUS
<1>1. CASE op = "register"
  BY <1>1 DEF Plan, Ordered, Belongs, Follows, Stages
<1>2. CASE op = "login"
  BY <1>2 DEF Plan, Ordered, Belongs, Follows, Stages
<1>3. CASE op = "refresh"
  BY <1>3 DEF Plan, Ordered, Belongs, Follows, Stages
<1>4. CASE op = "logout"
  BY <1>4 DEF Plan, Ordered, Belongs, Follows, Stages
<1>5. CASE op = "verify"
  BY <1>5 DEF Plan, Ordered, Belongs, Follows, Stages
<1>6. CASE op = "resend"
  BY <1>6 DEF Plan, Ordered, Belongs, Follows, Stages
<1>7. CASE op = "forgot"
  BY <1>7 DEF Plan, Ordered, Belongs, Follows, Stages
<1>8. CASE op = "reset"
  BY <1>8 DEF Plan, Ordered, Belongs, Follows, Stages
<1>9. CASE op = "suspend"
  BY <1>9 DEF Plan, Ordered, Belongs, Follows, Stages
<1>10. CASE op = "profile"
  BY <1>10 DEF Plan, Ordered, Belongs, Follows, Stages
<1>11. CASE op = "seed"
  BY <1>11 DEF Plan, Ordered, Belongs, Follows, Stages
<1> QED BY <1>1, <1>2, <1>3, <1>4, <1>5, <1>6, <1>7, <1>8, <1>9, <1>10, <1>11 DEF Ops

\* No plan begins with a token, a mail or a mark, only two create an account,
\* only a login begins with the session.
LEMMA PlanHeads ==
  \A op \in Ops : /\ Head(Plan[op]) \notin {"token", "mail", "mark"}
                  /\ Head(Plan[op]) = "session" => op = "login"
                  /\ op = "refresh" => Head(Plan[op]) = "user"
                  /\ Head(Plan[op]) = "create" => op \in {"register", "seed"}
                  /\ op \in {"register", "seed"} => Head(Plan[op]) = "create"
<1> SUFFICES ASSUME NEW op \in Ops
    PROVE  /\ Head(Plan[op]) \notin {"token", "mail", "mark"}
           /\ Head(Plan[op]) = "session" => op = "login"
           /\ op = "refresh" => Head(Plan[op]) = "user"
           /\ Head(Plan[op]) = "create" => op \in {"register", "seed"}
           /\ op \in {"register", "seed"} => Head(Plan[op]) = "create"
  OBVIOUS
<1>1. CASE op \in {"register", "seed"}
  BY <1>1 DEF Plan
<1>2. CASE op \in {"login", "refresh", "logout", "verify"}
  BY <1>2 DEF Plan
<1>3. CASE op \in {"resend", "forgot", "reset", "suspend", "profile"}
  BY <1>3 DEF Plan
<1> QED BY <1>1, <1>2, <1>3 DEF Ops

\* And so does what is left to a verification that finds the account verified.
LEMMA OneMark == Ordered("verify", <<"mark">>)
BY DEF Ordered, Belongs, Follows, Stages

\* The order survives the statement that is done.
LEMMA TailOrdered ==
  ASSUME NEW op, NEW s, Ordered(op, s)
  PROVE  /\ Head(s) \in Stages /\ Belongs(Head(s), op)
         /\ Tail(s) # <<>> => Ordered(op, Tail(s)) /\ Follows(Head(Tail(s)), Head(s))
         /\ Tail(s) = <<>> /\ op \in {"reset", "suspend"} => Head(s) = "revoke_all"
<1>1. s \in Seq(Stages) /\ s # <<>> /\ Len(s) \in Nat \ {0}
  BY DEF Ordered
<1>2. Head(s) = s[1] /\ Head(s) \in Stages /\ Belongs(Head(s), op)
  BY <1>1 DEF Ordered
<1>3. ASSUME Tail(s) # <<>>
      PROVE  Ordered(op, Tail(s)) /\ Follows(Head(Tail(s)), Head(s))
  <2>1. /\ Tail(s) \in Seq(Stages) /\ Len(Tail(s)) = Len(s) - 1
        /\ \A i \in 1..Len(Tail(s)) : Tail(s)[i] = s[i + 1]
    BY <1>1
  <2>2. Len(s) >= 2 /\ Head(Tail(s)) = s[2]
    BY <1>1, <1>3, <2>1
  <2>3. \A i \in 1..Len(Tail(s)) : Belongs(Tail(s)[i], op)
    BY <1>1, <2>1 DEF Ordered
  <2>4. \A i \in 2..Len(Tail(s)) : Follows(Tail(s)[i], Tail(s)[i - 1])
    <3> SUFFICES ASSUME NEW i \in 2..Len(Tail(s)) PROVE Follows(Tail(s)[i], Tail(s)[i - 1])
      OBVIOUS
    <3>1. Tail(s)[i] = s[i + 1] /\ Tail(s)[i - 1] = s[i] /\ i + 1 \in 2..Len(s) /\ i + 1 - 1 = i
      BY <1>1, <2>1
    <3> QED BY <3>1 DEF Ordered
  <2>5. Follows(Head(Tail(s)), Head(s))
    <3>1. 2 \in 2..Len(s) /\ 2 - 1 = 1
      BY <1>1, <2>2
    <3>2. Follows(s[2], s[2 - 1])
      BY <3>1 DEF Ordered
    <3> QED BY <1>2, <2>2, <3>1, <3>2
  <2>6. Tail(s)[Len(Tail(s))] = s[Len(s)]
    BY <1>1, <2>1, <2>2
  <2> QED BY <1>3, <2>1, <2>3, <2>4, <2>5, <2>6 DEF Ordered
<1>4. ASSUME Tail(s) = <<>>, op \in {"reset", "suspend"} PROVE Head(s) = "revoke_all"
  <2>1. Len(s) = 1
    <3>1. PICK rest : rest = Tail(s) /\ Len(rest) = Len(s) - 1
      <4>1. Len(Tail(s)) = Len(s) - 1
        BY <1>1
      <4> QED BY <4>1
    <3>2. rest = <<>>
      BY <1>4, <3>1
    <3>3. Len(rest) = 0
      BY <3>2
    <3>4. Len(rest) = Len(s) - 1
      BY <3>1
    <3> HIDE <3>1, <3>2
    <3> QED BY <1>1, <3>3, <3>4
  <2>2. s[Len(s)] = "revoke_all"
    BY <1>4 DEF Ordered
  <2> QED BY <1>2, <2>1, <2>2
<1> QED BY <1>2, <1>3, <1>4

-----------------------------------------------------------------------------
\* The inductive invariant.  A verification link of the account was followed:
\* once so, always so.
LinkFor(u) ==
  \E t \in links : /\ token[t] # None /\ token[t].user = u
                   /\ token[t].purpose = "email_verification" /\ token[t].state = "followed"

AdminHasAddress ==
  \A u \in Uids : user[u] # None /\ user[u].admin => user[u].email = AdminEmail

\* Sessions, tokens and links refer to rows that exist.
References ==
  /\ \A t \in Tids : token[t] # None => user[token[t].user] # None
  /\ \A s \in Sids : session[s] # None => user[session[s].user] # None
  /\ \A t \in links : token[t] # None

\* No two requests create the same row.
Creators ==
  \A q, r \in Requests : Doing(q, "create") /\ Doing(r, "create") /\ q # r => req[q].id # req[r].id

\* The row a request carries still has the address and the role of the account.
RowCurrent(r) ==
  IF Head(req[r].todo) = "create"
    THEN user[req[r].id] = None /\ (req[r].row.admin => req[r].row.email = AdminEmail)
    ELSE /\ user[req[r].id] # None
         /\ req[r].row.email = user[req[r].id].email
         /\ req[r].row.admin = user[req[r].id].admin

\* The tokens it refers to exist, and a link it works on was mailed to its user.
TokenCurrent(r) ==
  /\ Head(req[r].todo) = "mail" => req[r].tid \in Tids /\ token[req[r].tid] # None
  /\ Head(req[r].todo) \in {"user", "mark"} /\ req[r].op \in {"verify", "reset"} =>
       /\ req[r].tid \in links
       /\ token[req[r].tid].user = req[r].id
       /\ token[req[r].tid].purpose = Purpose(req[r].op)
  /\ req[r].op \in {"refresh", "logout"} => req[r].sid \in Sids /\ session[req[r].sid] # None

\* It carries a verified row only when the account has followed its link, or is
\* about to mark it.
RowVerified(r) ==
  req[r].row.verified /\ ~req[r].row.admin =>
    LinkFor(req[r].id) \/ (req[r].op = "verify" /\ Head(req[r].todo) = "mark")

RequestSound(r) ==
  req[r] # Idle =>
    /\ Ordered(req[r].op, req[r].todo)
    /\ RowCurrent(r) /\ TokenCurrent(r) /\ RowVerified(r)

IInv ==
  /\ TypeOK
  /\ OneAccountPerEmail /\ VerifiedByLink /\ AdminHasAddress
  /\ References /\ Creators
  /\ \A r \in Requests : RequestSound(r)

\* What no step takes back.
Grows ==
  /\ \A u \in Uids : user[u] # None =>
       user'[u] # None /\ user'[u].email = user[u].email /\ user'[u].admin = user[u].admin
  /\ \A t \in Tids : token[t] # None =>
       /\ token'[t] # None
       /\ token'[t].user = token[t].user /\ token'[t].purpose = token[t].purpose
       /\ token[t].state = "followed" => token'[t].state = "followed"
  /\ \A s \in Sids : session[s] # None =>
       session'[s] # None /\ session'[s].user = session[s].user
  /\ links \subseteq links'

\* What the history variables may hold.
Remembered == overtaken \in SUBSET (Requests \X Tables) /\ late \in SUBSET (Sids \cup Tids)

-----------------------------------------------------------------------------
\* A request that has not ended has a well-typed record and a next statement.
LEMMA Busy ==
  ASSUME IInv, NEW r \in Requests, req[r] # Idle
  PROVE  /\ req[r] \in InFlight
         /\ Ordered(req[r].op, req[r].todo)
         /\ req[r].todo # <<>> /\ Head(req[r].todo) \in Stages
         /\ Belongs(Head(req[r].todo), req[r].op)
<1>1. req[r] \in InFlight /\ Ordered(req[r].op, req[r].todo)
  BY DEF IInv, TypeOK, RequestSound
<1> QED BY <1>1, TailOrdered DEF Ordered

\* What is being done is done by a request that has not ended.
LEMMA DoingIsBusy ==
  ASSUME NEW r, NEW stage, Doing(r, stage)
  PROVE  req[r] # Idle
BY DEF Doing, Idle

\* A statement remembers requests, sessions and tokens that there are.
LEMMA OvertakeRemembers ==
  ASSUME IInv, NEW hits \in SUBSET (Requests \X Tables), Overtake(hits)
  PROVE  overtaken' \in SUBSET (Requests \X Tables)
BY DEF Overtake, IInv, TypeOK

LEMMA StatementRemembers ==
  ASSUME IInv, NEW r \in Requests, Statement(r)
  PROVE  Remembered'
<1>1. late \in SUBSET (Sids \cup Tids)
  BY DEF IInv, TypeOK
<1>2. \E hits \in SUBSET (Requests \X Tables) : Overtake(hits)
  <2>1. CASE StoreToken(r)
    <3>1. {<<q, "token">> : q \in StoringToo(r)} \in SUBSET (Requests \X Tables)
      BY DEF StoringToo, Tables
    <3> QED BY <2>1, <3>1 DEF StoreToken
  <2>2. CASE Revoke(r)
    <3>1. {<<q, "session">> : q \in RevokingToo(r)} \in SUBSET (Requests \X Tables)
      BY DEF RevokingToo, Tables
    <3> QED BY <2>2, <3>1 DEF Revoke
  <2>3. CASE UpdateUser(r)
    <3>1. {<<q, "user">> : q \in Holding(r)} \in SUBSET (Requests \X Tables)
      BY DEF Holding, Tables
    <3> QED BY <2>3, <3>1 DEF UpdateUser
  <2>4. CASE RevokeAll(r)
    <3>1. {<<q, "session">> : q \in Renewing(r)} \in SUBSET (Requests \X Tables)
      BY DEF Renewing, Tables
    <3> QED BY <2>4, <3>1 DEF RevokeAll
  <2>5. CASE CreateUser(r) \/ QueueLink(r) \/ IssueTokens(r) \/ FindUser(r) \/ MarkUsed(r)
             \/ Invalidate(r)
    BY <2>5 DEF CreateUser, QueueLink, IssueTokens, FindUser, MarkUsed, Invalidate
  <2> QED BY <2>1, <2>2, <2>3, <2>4, <2>5 DEF Statement
<1>3. late' \subseteq late \cup Sids \cup Tids
  <2>1. CASE StoreToken(r)
    BY <2>1 DEF StoreToken
  <2>2. CASE IssueTokens(r)
    BY <2>2 DEF IssueTokens
  <2>3. CASE UpdateUser(r)
    BY <2>3 DEF UpdateUser, SessionsOf
  <2>4. CASE late' = late
    BY <2>4
  <2> QED BY <2>1, <2>2, <2>3, <2>4
      DEF Statement, CreateUser, QueueLink, FindUser, Revoke, MarkUsed, Invalidate, RevokeAll
<1>4. overtaken' \in SUBSET (Requests \X Tables)
  BY <1>2, OvertakeRemembers
<1> QED BY <1>1, <1>3, <1>4 DEF Remembered

\* A followed link stays a followed link.
LEMMA LinkKept ==
  ASSUME IInv, Grows, NEW u, LinkFor(u)
  PROVE  LinkFor(u)'
<1>1. PICK t \in links : /\ token[t] # None /\ token[t].user = u
                         /\ token[t].purpose = "email_verification" /\ token[t].state = "followed"
  BY DEF LinkFor
<1>2. t \in Tids /\ t \in links'
  BY DEF IInv, TypeOK, Grows
<1>3. /\ token'[t] # None /\ token'[t].user = u
      /\ token'[t].purpose = "email_verification" /\ token'[t].state = "followed"
  BY <1>1, <1>2 DEF Grows
<1> QED BY <1>2, <1>3 DEF LinkFor

\* A step that leaves the users alone keeps what is said of them.
LEMMA UsersKept ==
  ASSUME IInv, Grows, user' = user
  PROVE  OneAccountPerEmail' /\ VerifiedByLink' /\ AdminHasAddress'
<1>1. OneAccountPerEmail' /\ AdminHasAddress'
  BY DEF IInv, OneAccountPerEmail, AdminHasAddress
<1>2. ASSUME NEW u \in Uids, user[u] # None, user[u].verified, ~user[u].admin PROVE LinkFor(u)'
  <2>1. LinkFor(u)
    BY <1>2 DEF IInv, VerifiedByLink, LinkFor
  <2> QED BY <2>1, LinkKept
<1>3. VerifiedByLink'
  BY <1>2 DEF VerifiedByLink, LinkFor
<1> QED BY <1>1, <1>3

\* A request that takes no part in a step stays sound.
LEMMA OthersKept ==
  ASSUME IInv, Grows, NEW q \in Requests, req'[q] = req[q],
         Doing(q, "create") => user'[req[q].id] = None
  PROVE  RequestSound(q)'
<1> SUFFICES ASSUME req[q] # Idle
    PROVE  /\ Ordered(req'[q].op, req'[q].todo)
           /\ RowCurrent(q)' /\ TokenCurrent(q)' /\ RowVerified(q)'
  BY DEF RequestSound
<1>1. req[q] \in InFlight /\ req[q].todo # <<>>
  BY Busy
<1>2. /\ Ordered(req[q].op, req[q].todo)
      /\ RowCurrent(q) /\ TokenCurrent(q) /\ RowVerified(q)
  BY DEF IInv, RequestSound
<1>3. req[q].id \in Uids
  BY <1>1 DEF InFlight
<1>4. RowCurrent(q)'
  BY <1>1, <1>2, <1>3 DEF RowCurrent, Grows, Doing
<1>5. TokenCurrent(q)'
  <2>1. Head(req[q].todo) = "mail" => req[q].tid \in Tids /\ token'[req[q].tid] # None
    BY <1>2 DEF TokenCurrent, Grows
  <2>2. Head(req[q].todo) \in {"user", "mark"} /\ req[q].op \in {"verify", "reset"} =>
          /\ req[q].tid \in links'
          /\ token'[req[q].tid].user = req[q].id
          /\ token'[req[q].tid].purpose = Purpose(req[q].op)
    BY <1>2 DEF TokenCurrent, Grows, IInv, TypeOK, References
  <2>3. req[q].op \in {"refresh", "logout"} => req[q].sid \in Sids /\ session'[req[q].sid] # None
    BY <1>2 DEF TokenCurrent, Grows
  <2> QED BY <2>1, <2>2, <2>3 DEF TokenCurrent, Purpose
<1>6. RowVerified(q)'
  BY <1>2, LinkKept DEF RowVerified
<1> QED BY <1>2, <1>4, <1>5, <1>6

\* A request that begins soundly keeps the invariant.
LEMMA BeginKeeps ==
  ASSUME IInv, NEW r \in Requests, NEW op \in Ops, NEW u \in Uids, NEW row \in User,
         NEW s \in Sids \cup {None}, NEW t \in Tids \cup {None},
         Begin(r, op, Plan[op], u, row, s, t),
         op \in {"register", "seed"} =>
           /\ user[u] = None /\ \A q \in Requests : req[q] # Idle => req[q].id # u
           /\ row.admin => row.email = AdminEmail,
         op \notin {"register", "seed"} =>
           user[u] # None /\ row.email = user[u].email /\ row.admin = user[u].admin,
         op \in {"verify", "reset"} =>
           t \in links /\ token[t].user = u /\ token[t].purpose = Purpose(op),
         op \in {"refresh", "logout"} => s \in Sids /\ session[s] # None,
         row.verified /\ ~row.admin => LinkFor(u)
  PROVE  IInv'
<1> DEFINE new == [op |-> op, todo |-> Plan[op], id |-> u, row |-> row, sid |-> s, tid |-> t]
<1>1. /\ req[r] = Idle /\ req' = [req EXCEPT ![r] = new]
      /\ user' = user /\ session' = session /\ token' = token /\ links' = links
      /\ overtaken' = overtaken /\ late' = late
  BY DEF Begin
<1>2. Ordered(op, Plan[op]) /\ Plan[op] \in Seq(Stages)
  BY PlansOrdered DEF Ordered
<1>3. new \in InFlight
  BY <1>2 DEF InFlight
<1>4. req'[r] = new /\ \A q \in Requests : q # r => req'[q] = req[q]
  BY <1>1 DEF IInv, TypeOK
<1>5. Grows
  BY <1>1 DEF Grows
<1>6. TypeOK'
  BY <1>1, <1>3 DEF IInv, TypeOK
<1>7. OneAccountPerEmail' /\ VerifiedByLink' /\ AdminHasAddress'
  BY <1>1, <1>5, UsersKept
<1>8. References'
  BY <1>1 DEF IInv, References
<1> HIDE DEF new
<1>9. /\ new.op = op /\ new.todo = Plan[op] /\ new.id = u /\ new.row = row
      /\ new.sid = s /\ new.tid = t
  BY DEF new
<1>10. RequestSound(r)'
  <2>1. Ordered(op, Plan[op])
    BY <1>2
  <2>2. RowCurrent(r)'
    BY <1>1, <1>4, <1>9, PlanHeads DEF RowCurrent
  <2>3. TokenCurrent(r)'
    BY <1>1, <1>4, <1>9, PlanHeads DEF TokenCurrent
  <2>4. LinkFor(u) => LinkFor(u)'
    BY <1>5, LinkKept
  <2>5. RowVerified(r)'
    BY <1>4, <1>9, <2>4 DEF RowVerified
  <2> QED BY <1>4, <1>9, <2>1, <2>2, <2>3, <2>5 DEF RequestSound
<1>11. ASSUME NEW q \in Requests, q # r PROVE RequestSound(q)'
  <2>1. Doing(q, "create") => user'[req[q].id] = None
    BY <1>1, DoingIsBusy DEF IInv, RequestSound, RowCurrent, Doing
  <2> QED BY <1>4, <1>5, <1>11, <2>1, OthersKept
<1>12. Creators'
  <2>1. \A q \in Requests : q # r /\ Doing(q, "create")' => Doing(q, "create") /\ req[q] # Idle
    BY <1>4, DoingIsBusy DEF Doing
  <2>2. Doing(r, "create")' => \A q \in Requests : req[q] # Idle => req[q].id # u
    BY <1>4, <1>9, PlanHeads DEF Doing
  <2> QED BY <1>4, <1>9, <2>1, <2>2 DEF IInv, Creators
<1> QED BY <1>6, <1>7, <1>8, <1>10, <1>11, <1>12 DEF IInv

\* A request that goes on soundly from its statement keeps what is said of the
\* requests, when no other request was creating the account it is about.
LEMMA AdvanceKeeps ==
  ASSUME IInv, Grows, NEW r \in Requests, NEW u \in Uids, u = req[r].id,
         NEW row \in User, NEW t \in Tids \cup {None}, req[r].todo # <<>>, Advance(r, row, t),
         \A v \in Uids : user[v] = None /\ user'[v] # None => Doing(r, "create") /\ v = u,
         user'[u] # None /\ row.email = user'[u].email /\ row.admin = user'[u].admin,
         Doing(r, "token") => t \in Tids /\ token'[t] # None,
         Doing(r, "user") /\ req[r].op \in {"verify", "reset"} => t = req[r].tid,
         row.verified /\ ~row.admin =>
           LinkFor(u)' \/ (Doing(r, "user") /\ req[r].op = "verify")
  PROVE  /\ req' \in [Requests -> InFlight \cup {Idle}]
         /\ Creators'
         /\ \A q \in Requests : RequestSound(q)'
<1>1. req[r] # Idle
  BY DEF Idle
<1>2. /\ req[r] \in InFlight /\ Ordered(req[r].op, req[r].todo)
      /\ Belongs(Head(req[r].todo), req[r].op)
  BY <1>1, Busy
<1>3. RowCurrent(r) /\ TokenCurrent(r)
  BY <1>1 DEF IInv, RequestSound
<1>4. \A q \in Requests : q # r => req'[q] = req[q]
  BY DEF Advance, IInv, TypeOK
<1> DEFINE old == req[r]
           rest == Tail(old.todo)
           new == [old EXCEPT !.todo = rest, !.row = row, !.tid = t]
<1>5. rest \in Seq(Stages)
  BY <1>2 DEF InFlight
<1>6. /\ req' = [req EXCEPT ![r] = IF rest = <<>> THEN Idle ELSE new]
      /\ req'[r] = IF rest = <<>> THEN Idle ELSE new
  BY DEF Advance, IInv, TypeOK
<1>7. /\ rest # <<>> => Ordered(old.op, rest) /\ Follows(Head(rest), Head(old.todo))
                          /\ Head(rest) \in Stages /\ Belongs(Head(rest), old.op)
  BY <1>2, TailOrdered
<1>8. /\ new \in InFlight
      /\ new.op = old.op /\ new.todo = rest /\ new.id = old.id /\ new.row = row
      /\ new.sid = old.sid /\ new.tid = t
  <2>1. old \in InFlight
    BY <1>2
  <2> HIDE DEF old, rest
  <2> QED BY <1>5, <2>1 DEF InFlight
<1> HIDE DEF new
<1>9. req' \in [Requests -> InFlight \cup {Idle}]
  BY <1>6, <1>8 DEF IInv, TypeOK
<1>10. ASSUME NEW q \in Requests, q # r PROVE RequestSound(q)'
  <2>1. Doing(q, "create") => req[q].id \in Uids /\ user[req[q].id] = None
    BY DoingIsBusy, Busy DEF IInv, RequestSound, RowCurrent, Doing, InFlight
  <2>2. Doing(q, "create") => user'[req[q].id] = None
    BY <1>10, <2>1 DEF IInv, Creators
  <2> QED BY <1>4, <1>10, <2>2, OthersKept
<1>11. ASSUME rest # <<>> PROVE RequestSound(r)'
  <2>1. req'[r] = new
    BY <1>6, <1>11
  <2>2. Head(rest) \notin {"create", "user"} /\ (Head(rest) = "mail" => Head(old.todo) = "token")
        /\ (Head(rest) = "mark" => Head(old.todo) = "user")
        /\ (Head(old.todo) = "user" => Head(rest) \in {"mark", "revoke"})
    BY <1>7, <1>11 DEF Follows
  <2>3. RowCurrent(r)'
    BY <1>8, <2>1, <2>2 DEF RowCurrent
  <2>4. TokenCurrent(r)'
    <3>1. Head(rest) = "mail" => t \in Tids /\ token'[t] # None
      BY <2>2 DEF Doing
    <3>2. Head(rest) = "mark" /\ old.op \in {"verify", "reset"} =>
            /\ t \in links' /\ token'[t].user = old.id /\ token'[t].purpose = Purpose(old.op)
      <4>1. Head(rest) = "mark" /\ old.op \in {"verify", "reset"} =>
              t = old.tid /\ t \in links /\ token[t].user = old.id
              /\ token[t].purpose = Purpose(old.op)
        BY <1>3, <2>2 DEF Doing, TokenCurrent
      <4> QED BY <4>1 DEF Grows, IInv, TypeOK, References
    <3>3. old.op \in {"refresh", "logout"} => old.sid \in Sids /\ session'[old.sid] # None
      BY <1>3 DEF TokenCurrent, Grows
    <3> QED BY <1>8, <2>1, <2>2, <3>1, <3>2, <3>3 DEF TokenCurrent
  <2>5. Head(old.todo) = "user" /\ old.op = "verify" => Head(rest) = "mark"
    BY <1>7, <1>11, <2>2 DEF Belongs
  <2>6. RowVerified(r)'
    BY <1>8, <2>1, <2>5 DEF RowVerified, Doing
  <2> QED BY <1>7, <1>8, <1>11, <2>1, <2>3, <2>4, <2>6 DEF RequestSound
<1>12. RequestSound(r)'
  BY <1>6, <1>11 DEF RequestSound
<1>13. Creators'
  <2>1. ~Doing(r, "create")'
    <3>1. CASE rest = <<>>
      BY <1>6, <3>1 DEF Doing, Idle
    <3>2. CASE rest # <<>>
      BY <1>6, <1>7, <1>8, <3>2 DEF Doing, Follows
    <3> QED BY <3>1, <3>2
  <2>2. \A q \in Requests : q # r => (Doing(q, "create")' <=> Doing(q, "create"))
    BY <1>4 DEF Doing
  <2> QED BY <1>4, <2>1, <2>2 DEF IInv, Creators
<1> QED BY <1>9, <1>10, <1>12, <1>13

\* The same for the statements that leave the users and the carried row alone.
LEMMA StatementKeeps ==
  ASSUME IInv, Grows, NEW r \in Requests, NEW u \in Uids, u = req[r].id,
         NEW stage \in Stages \ {"create", "user"}, NEW t \in Tids \cup {None},
         Doing(r, stage), Advance(r, req[r].row, t), user' = user,
         stage = "token" => t \in Tids /\ token'[t] # None,
         stage = "mark" /\ req[r].op = "verify" => LinkFor(u)'
  PROVE  /\ req' \in [Requests -> InFlight \cup {Idle}]
         /\ Creators'
         /\ \A q \in Requests : RequestSound(q)'
         /\ OneAccountPerEmail' /\ VerifiedByLink' /\ AdminHasAddress'
<1>1. req[r] # Idle /\ req[r].todo # <<>> /\ Head(req[r].todo) = stage
  BY DoingIsBusy DEF Doing
<1>2. req[r] \in InFlight
  BY <1>1, Busy
<1>3. RowCurrent(r) /\ RowVerified(r)
  BY <1>1 DEF IInv, RequestSound
<1>4. PICK row \in User : row = req[r].row
  BY <1>2 DEF InFlight
<1>5. Advance(r, row, t)
  BY <1>4 DEF Advance
<1>6. user'[u] # None /\ row.email = user'[u].email /\ row.admin = user'[u].admin
  BY <1>1, <1>3, <1>4 DEF RowCurrent
<1>7. row.verified /\ ~row.admin => LinkFor(u)'
  <2>1. row.verified /\ ~row.admin => LinkFor(u) \/ (stage = "mark" /\ req[r].op = "verify")
    BY <1>1, <1>3, <1>4 DEF RowVerified
  <2>2. LinkFor(u) => LinkFor(u)'
    BY LinkKept
  <2> QED BY <2>1, <2>2
<1>8. Doing(r, "token") => stage = "token"
  BY DEF Doing
<1>9. ~Doing(r, "user")
  BY DEF Doing
<1>10. /\ req' \in [Requests -> InFlight \cup {Idle}]
       /\ Creators'
       /\ \A q \in Requests : RequestSound(q)'
  BY <1>1, <1>5, <1>6, <1>7, <1>8, <1>9, AdvanceKeeps
<1> QED BY <1>10, UsersKept

-----------------------------------------------------------------------------
\* What the rows in the tables are.
LEMMA Rows ==
  ASSUME IInv
  PROVE  /\ \A u \in Uids : user[u] # None =>
              /\ user[u] \in User
              /\ user[u].verified /\ ~user[u].admin => LinkFor(u)
         /\ \A s \in Sids : session[s] # None =>
              /\ session[s] \in Session
              /\ session[s].user \in Uids /\ user[session[s].user] # None
         /\ \A t \in Tids : token[t] # None =>
              /\ token[t] \in Token
              /\ token[t].user \in Uids /\ user[token[t].user] # None
         /\ links \subseteq {t \in Tids : token[t] # None}
<1>1. \A u \in Uids : user[u] # None =>
        user[u] \in User /\ (user[u].verified /\ ~user[u].admin => LinkFor(u))
  BY DEF IInv, TypeOK, VerifiedByLink, LinkFor
<1>2. \A s \in Sids : session[s] # None =>
        session[s] \in Session /\ session[s].user \in Uids /\ user[session[s].user] # None
  BY DEF IInv, TypeOK, References, Session
<1>3. \A t \in Tids : token[t] # None =>
        token[t] \in Token /\ token[t].user \in Uids /\ user[token[t].user] # None
  BY DEF IInv, TypeOK, References, Token
<1>4. links \subseteq {t \in Tids : token[t] # None}
  BY DEF IInv, TypeOK, References
<1> QED BY <1>1, <1>2, <1>3, <1>4

\* A request about an account, with the row that was read or a copy of it with
\* another password or activity.
LEMMA BeginAccount ==
  ASSUME IInv, NEW r \in Requests, NEW op \in Ops \ {"register", "seed"}, NEW u \in Uids,
         NEW row \in User, NEW s \in Sids \cup {None}, NEW t \in Tids \cup {None},
         user[u] # None, row.email = user[u].email, row.admin = user[u].admin,
         row.verified = user[u].verified,
         Begin(r, op, Plan[op], u, row, s, t),
         op \in {"verify", "reset"} =>
           t \in links /\ token[t].user = u /\ token[t].purpose = Purpose(op),
         op \in {"refresh", "logout"} => s \in Sids /\ session[s] # None
  PROVE  IInv'
<1>1. row.verified /\ ~row.admin => LinkFor(u)
  BY Rows
<1> QED BY <1>1, BeginKeeps

\* A link that is presented is mailed, live and of a known account.
LEMMA PresentedIs ==
  ASSUME IInv, NEW t, NEW purpose, Presented(t, purpose)
  PROVE  /\ t \in Tids /\ t \in links /\ token[t].purpose = purpose
         /\ token[t].user \in Uids /\ user[token[t].user] # None
         /\ user[token[t].user] \in User
BY Rows DEF Presented

\* Each request keeps the invariant.
LEMMA RegisterKeeps ==
  ASSUME IInv, NEW r \in Requests, NEW u \in Uids, NEW e \in Emails, NEW p \in Passwords,
         Register(r, u, e, p)
  PROVE  IInv'
<1>1. PICK row \in User : /\ ~row.verified /\ ~row.admin
                          /\ Begin(r, "register", Plan["register"], u, row, None, None)
  BY DEF Register, User
<1> QED BY <1>1, BeginKeeps DEF Register, Unused, Ops

LEMMA SeedKeeps ==
  ASSUME IInv, NEW r \in Requests, NEW u \in Uids, NEW p \in Passwords, SeedAdmin(r, u, p)
  PROVE  IInv'
<1>1. PICK row \in User : /\ row.admin /\ row.email = AdminEmail
                          /\ Begin(r, "seed", Plan["seed"], u, row, None, None)
  BY SeedAssumption DEF SeedAdmin, User
<1> QED BY <1>1, BeginKeeps DEF SeedAdmin, Unused, Ops

LEMMA AccountRequestKeeps ==
  ASSUME IInv, NEW r \in Requests, NEW u \in Uids,
         \/ Login(r, u) \/ ResendVerification(r, u) \/ ForgotPassword(r, u)
         \/ SuspendUser(r, u) \/ UpdateProfile(r, u)
  PROVE  IInv'
<1>1. user[u] # None
  BY DEF Login, ResendVerification, ForgotPassword, SuspendUser, UpdateProfile
<1>2. user[u] \in User
  BY <1>1, Rows
<1>3. PICK op \in {"login", "resend", "forgot", "suspend", "profile"}, row \in User :
        /\ row.email = user[u].email /\ row.admin = user[u].admin
        /\ row.verified = user[u].verified
        /\ Begin(r, op, Plan[op], u, row, None, None)
  <2>1. [user[u] EXCEPT !.active = FALSE] \in User
        /\ [user[u] EXCEPT !.active = FALSE].email = user[u].email
        /\ [user[u] EXCEPT !.active = FALSE].admin = user[u].admin
        /\ [user[u] EXCEPT !.active = FALSE].verified = user[u].verified
    BY <1>2 DEF User
  <2>2. CASE SuspendUser(r, u)
    BY <2>1, <2>2 DEF SuspendUser
  <2>3. CASE Login(r, u)
    BY <1>2, <2>3 DEF Login
  <2>4. CASE ResendVerification(r, u)
    BY <1>2, <2>4 DEF ResendVerification
  <2>5. CASE ForgotPassword(r, u)
    BY <1>2, <2>5 DEF ForgotPassword
  <2>6. CASE UpdateProfile(r, u)
    BY <1>2, <2>6 DEF UpdateProfile
  <2> QED BY <2>2, <2>3, <2>4, <2>5, <2>6
<1> QED BY <1>1, <1>3, BeginAccount DEF Ops

LEMMA SessionRequestKeeps ==
  ASSUME IInv, NEW r \in Requests, NEW s \in Sids, Refresh(r, s) \/ Logout(r, s)
  PROVE  IInv'
<1>1. session[s] # None /\ session[s].user \in Uids /\ user[session[s].user] # None
  BY Rows DEF Refresh, Logout, Live
<1>2. PICK u \in Uids : u = session[s].user
  BY <1>1
<1>3. PICK row \in User : row = user[u]
  BY <1>1, <1>2, Rows
<1>4. PICK op \in {"refresh", "logout"} : Begin(r, op, Plan[op], u, row, s, None)
  BY <1>2, <1>3 DEF Refresh, Logout, Begin
<1> QED BY <1>1, <1>2, <1>3, <1>4, BeginAccount DEF Ops

LEMMA VerifyKeeps ==
  ASSUME IInv, NEW r \in Requests, NEW t \in Tids, VerifyEmail(r, t)
  PROVE  IInv'
<1>1. /\ t \in links /\ token[t].purpose = "email_verification"
      /\ token[t].user \in Uids /\ user[token[t].user] # None /\ user[token[t].user] \in User
  BY PresentedIs DEF VerifyEmail
<1>2. PICK u \in Uids : u = token[t].user
  BY <1>1
<1>3. PICK row \in User : row = user[u]
  BY <1>1, <1>2
<1>4. Begin(r, "verify", Plan["verify"], u, row, None, t)
  BY <1>2, <1>3 DEF VerifyEmail, Begin
<1> QED BY <1>1, <1>2, <1>3, <1>4, BeginAccount DEF Ops, Purpose

LEMMA ResetKeeps ==
  ASSUME IInv, NEW r \in Requests, NEW t \in Tids, NEW p \in Passwords, ResetPassword(r, t, p)
  PROVE  IInv'
<1>1. /\ t \in links /\ token[t].purpose = "password_reset"
      /\ token[t].user \in Uids /\ user[token[t].user] # None /\ user[token[t].user] \in User
  BY PresentedIs DEF ResetPassword
<1>2. PICK u \in Uids : u = token[t].user
  BY <1>1
<1>3. PICK row \in User : /\ row = [user[u] EXCEPT !.password = p]
                          /\ row.email = user[u].email /\ row.admin = user[u].admin
                          /\ row.verified = user[u].verified
  <2>1. user[u] \in User
    BY <1>1, <1>2
  <2>2. /\ [user[u] EXCEPT !.password = p] \in User
        /\ [user[u] EXCEPT !.password = p].email = user[u].email
        /\ [user[u] EXCEPT !.password = p].admin = user[u].admin
        /\ [user[u] EXCEPT !.password = p].verified = user[u].verified
    BY <2>1 DEF User
  <2> QED BY <2>2
<1>4. Begin(r, "reset", Plan["reset"], u, row, None, t)
  BY <1>2, <1>3 DEF ResetPassword, Begin
<1> QED BY <1>1, <1>2, <1>3, <1>4, BeginAccount DEF Ops, Purpose

-----------------------------------------------------------------------------
\* The account a request is about, and its row.
LEMMA About ==
  ASSUME IInv, NEW r \in Requests, NEW stage, Doing(r, stage)
  PROVE  /\ \E u \in Uids : u = req[r].id
         /\ req[r] \in InFlight /\ req[r].todo # <<>> /\ Head(req[r].todo) = stage
         /\ Belongs(stage, req[r].op)
         /\ RowCurrent(r) /\ TokenCurrent(r) /\ RowVerified(r)
<1>1. req[r] # Idle /\ Head(req[r].todo) = stage
  BY DoingIsBusy DEF Doing
<1>2. RowCurrent(r) /\ TokenCurrent(r) /\ RowVerified(r)
  BY <1>1 DEF IInv, RequestSound
<1> QED BY <1>1, <1>2, Busy DEF InFlight

\* Each statement, an end at any point and each expiry keep the invariant.
LEMMA CreateUserKeeps ==
  ASSUME IInv, NEW r \in Requests, CreateUser(r)
  PROVE  IInv'
<1>0. Remembered'
  BY StatementRemembers DEF Statement
<1>1. Doing(r, "create") /\ EmailFree(req[r].row.email)
  BY DEF CreateUser
<1>2. PICK u \in Uids : u = req[r].id
  BY <1>1, About
<1>3. /\ req[r].todo # <<>> /\ Head(req[r].todo) = "create"
      /\ req[r].op \in {"register", "seed"}
      /\ RowCurrent(r) /\ RowVerified(r) /\ req[r] \in InFlight
  BY <1>1, About DEF Belongs
<1>4. PICK row \in User : row = req[r].row
  BY <1>3 DEF InFlight
<1>5. /\ user[u] = None /\ (row.admin => row.email = AdminEmail)
      /\ (row.verified => row.admin \/ LinkFor(u))
  BY <1>2, <1>3, <1>4 DEF RowCurrent, RowVerified
<1>6. /\ user' = [user EXCEPT ![u] = row] /\ Advance(r, row, None)
      /\ session' = session /\ token' = token /\ links' = links
  BY <1>2, <1>4 DEF CreateUser, Advance
<1>7. user'[u] = row /\ row # None /\ \A v \in Uids : v # u => user'[v] = user[v]
  BY <1>6, NoneIsNoValue DEF IInv, TypeOK
<1>8. Grows
  BY <1>5, <1>6, <1>7 DEF Grows
<1>9. LinkFor(u) => LinkFor(u)'
  BY <1>8, LinkKept
<1>10. /\ req' \in [Requests -> InFlight \cup {Idle}]
       /\ Creators'
       /\ \A q \in Requests : RequestSound(q)'
  <2>1. \A v \in Uids : user[v] = None /\ user'[v] # None => Doing(r, "create") /\ v = u
    BY <1>1, <1>7
  <2>2. ~Doing(r, "token") /\ ~Doing(r, "user")
    BY <1>1 DEF Doing
  <2>3. row.verified /\ ~row.admin => LinkFor(u)'
    BY <1>5, <1>9
  <2>4. user'[u] # None /\ row.email = user'[u].email /\ row.admin = user'[u].admin
    BY <1>7
  <2> QED BY <1>2, <1>3, <1>6, <1>8, <2>1, <2>2, <2>3, <2>4, AdvanceKeeps
<1>11. TypeOK'
  BY <1>0, <1>6, <1>10 DEF IInv, TypeOK, Remembered
<1>12. AdminHasAddress'
  BY <1>5, <1>7 DEF IInv, AdminHasAddress
<1>13. OneAccountPerEmail'
  <2>1. \A v \in Uids : user[v] # None =>
          user[v].email # row.email /\ ~(user[v].admin /\ row.admin)
    BY <1>1, <1>4, <1>5 DEF EmailFree, IInv, AdminHasAddress
  <2> QED BY <1>7, <2>1 DEF IInv, OneAccountPerEmail
<1>14. VerifiedByLink'
  <2>1. ASSUME NEW v \in Uids, user'[v] # None, user'[v].verified, ~user'[v].admin
        PROVE  LinkFor(v)'
    <3>1. CASE v = u
      BY <1>5, <1>7, <1>9, <2>1, <3>1
    <3>2. CASE v # u
      BY <1>7, <1>8, <2>1, <3>2, Rows, LinkKept
    <3> QED BY <3>1, <3>2
  <2> QED BY <2>1 DEF VerifiedByLink, LinkFor
<1>15. References'
  BY <1>6, <1>7, <1>8, Rows DEF References, Grows
<1> QED BY <1>10, <1>11, <1>12, <1>13, <1>14, <1>15 DEF IInv

LEMMA UpdateUserKeeps ==
  ASSUME IInv, NEW r \in Requests, UpdateUser(r)
  PROVE  IInv'
<1>0. Remembered'
  BY StatementRemembers DEF Statement
<1>1. Doing(r, "update")
  BY DEF UpdateUser
<1>2. PICK u \in Uids : u = req[r].id
  BY <1>1, About
<1>3. /\ req[r].todo # <<>> /\ Head(req[r].todo) = "update"
      /\ RowCurrent(r) /\ RowVerified(r) /\ req[r] \in InFlight
  BY <1>1, About
<1>4. PICK row \in User : row = req[r].row
  BY <1>3 DEF InFlight
<1>5. /\ user[u] # None /\ row.email = user[u].email /\ row.admin = user[u].admin
      /\ row.verified /\ ~row.admin => LinkFor(u)
  BY <1>2, <1>3, <1>4 DEF RowCurrent, RowVerified
<1>6. /\ user' = [user EXCEPT ![u] = row] /\ Advance(r, row, None)
      /\ session' = session /\ token' = token /\ links' = links
  BY <1>2, <1>4 DEF UpdateUser, Advance
<1>7. user'[u] = row /\ row # None /\ \A v \in Uids : v # u => user'[v] = user[v]
  BY <1>6, NoneIsNoValue DEF IInv, TypeOK
<1>8. Grows
  BY <1>5, <1>6, <1>7 DEF Grows
<1>9. LinkFor(u) => LinkFor(u)'
  BY <1>8, LinkKept
<1>10. /\ req' \in [Requests -> InFlight \cup {Idle}]
       /\ Creators'
       /\ \A q \in Requests : RequestSound(q)'
  <2>1. \A v \in Uids : ~(user[v] = None /\ user'[v] # None)
    BY <1>5, <1>7
  <2>2. ~Doing(r, "token") /\ ~Doing(r, "user")
    BY <1>1 DEF Doing
  <2>3. row.verified /\ ~row.admin => LinkFor(u)'
    BY <1>5, <1>9
  <2>4. user'[u] # None /\ row.email = user'[u].email /\ row.admin = user'[u].admin
    BY <1>7
  <2> QED BY <1>2, <1>3, <1>6, <1>8, <2>1, <2>2, <2>3, <2>4, AdvanceKeeps
<1>11. TypeOK'
  BY <1>0, <1>6, <1>10 DEF IInv, TypeOK, Remembered
<1>12. AdminHasAddress'
  BY <1>5, <1>7 DEF IInv, AdminHasAddress
<1>13. OneAccountPerEmail'
  BY <1>5, <1>7 DEF IInv, OneAccountPerEmail
<1>14. VerifiedByLink'
  <2>1. ASSUME NEW v \in Uids, user'[v] # None, user'[v].verified, ~user'[v].admin
        PROVE  LinkFor(v)'
    <3>1. CASE v = u
      BY <1>5, <1>7, <1>9, <2>1, <3>1
    <3>2. CASE v # u
      BY <1>7, <1>8, <2>1, <3>2, Rows, LinkKept
    <3> QED BY <3>1, <3>2
  <2> QED BY <2>1 DEF VerifiedByLink, LinkFor
<1>15. References'
  BY <1>6, <1>7, <1>8, Rows DEF References, Grows
<1> QED BY <1>10, <1>11, <1>12, <1>13, <1>14, <1>15 DEF IInv

\* A verification that finds the account verified goes straight to the mark.
LEMMA SkipKeeps ==
  ASSUME IInv, NEW r \in Requests, Doing(r, "user"), req[r].op = "verify",
         req' = [req EXCEPT ![r].todo = <<"mark">>],
         user' = user, session' = session, token' = token, links' = links,
         Remembered'
  PROVE  IInv'
<1>1. /\ req[r] \in InFlight /\ Head(req[r].todo) = "user"
      /\ RowCurrent(r) /\ TokenCurrent(r) /\ RowVerified(r)
  BY About
<1> DEFINE new == [req[r] EXCEPT !.todo = <<"mark">>]
<1>2. <<"mark">> \in Seq(Stages) /\ Head(<<"mark">>) = "mark" /\ <<"mark">> # <<>>
  BY DEF Stages
<1>3. /\ new \in InFlight
      /\ new.op = "verify" /\ new.todo = <<"mark">> /\ new.id = req[r].id
      /\ new.row = req[r].row /\ new.sid = req[r].sid /\ new.tid = req[r].tid
  BY <1>1, <1>2 DEF InFlight
<1>4. req'[r] = new /\ \A q \in Requests : q # r => req'[q] = req[q]
  BY DEF IInv, TypeOK
<1> HIDE DEF new
<1>5. Grows
  BY DEF Grows
<1>6. TypeOK'
  <2>1. req' \in [Requests -> InFlight \cup {Idle}]
    BY <1>3, <1>4 DEF IInv, TypeOK
  <2> QED BY <2>1 DEF IInv, TypeOK, Remembered
<1>7. OneAccountPerEmail' /\ VerifiedByLink' /\ AdminHasAddress'
  BY <1>5, UsersKept
<1>8. References'
  BY DEF IInv, References
<1>9. ASSUME NEW q \in Requests, q # r PROVE RequestSound(q)'
  <2>1. Doing(q, "create") => user'[req[q].id] = None
    BY DoingIsBusy DEF IInv, RequestSound, RowCurrent, Doing
  <2> QED BY <1>4, <1>5, <1>9, <2>1, OthersKept
<1>10. RequestSound(r)'
  <2>1. RowCurrent(r)'
    BY <1>1, <1>2, <1>3, <1>4 DEF RowCurrent
  <2>2. TokenCurrent(r)'
    BY <1>1, <1>2, <1>3, <1>4 DEF TokenCurrent
  <2>3. RowVerified(r)'
    BY <1>2, <1>3, <1>4 DEF RowVerified
  <2> QED BY <1>3, <1>4, <2>1, <2>2, <2>3, OneMark DEF RequestSound
<1>11. Creators'
  BY <1>2, <1>3, <1>4 DEF IInv, Creators, Doing
<1> QED BY <1>6, <1>7, <1>8, <1>9, <1>10, <1>11 DEF IInv

\* The row that is read is the stored one, but for what the request changes.
LEMMA ReadIsUser ==
  ASSUME NEW r \in Requests, req[r].row \in User, user[req[r].id] \in User
  PROVE  LET found == user[req[r].id]
         IN  /\ Read(r) \in User
             /\ Read(r).email = found.email /\ Read(r).admin = found.admin
             /\ Read(r).active = found.active
             /\ found.verified => Read(r).verified
             /\ req[r].op # "verify" => Read(r).verified = found.verified
             /\ req[r].op # "reset" => Read(r).password = found.password
<1>1. PICK found \in User, p \in Passwords : found = user[req[r].id] /\ p = req[r].row.password
  BY DEF User
<1>2. CASE req[r].op = "reset"
  <2>1. Read(r) = [found EXCEPT !.password = p]
    BY <1>1, <1>2 DEF Read
  <2> QED BY <1>1, <1>2, <2>1 DEF User
<1>3. CASE req[r].op = "verify"
  <2>1. Read(r) = [found EXCEPT !.verified = TRUE]
    BY <1>1, <1>3 DEF Read
  <2> QED BY <1>1, <1>3, <2>1 DEF User
<1>4. CASE req[r].op \notin {"reset", "verify"}
  <2>1. Read(r) = found
    BY <1>1, <1>4 DEF Read
  <2> QED BY <1>1, <2>1
<1> QED BY <1>2, <1>3, <1>4

LEMMA FindUserKeeps ==
  ASSUME IInv, NEW r \in Requests, FindUser(r)
  PROVE  IInv'
<1>0. Remembered'
  BY StatementRemembers DEF Statement
<1>1. /\ Doing(r, "user")
      /\ user' = user /\ session' = session /\ token' = token /\ links' = links
  BY DEF FindUser
<1>2. PICK u \in Uids : u = req[r].id
  BY <1>1, About
<1>3. CASE req[r].op = "verify" /\ user[u].verified
  BY <1>0, <1>1, <1>2, <1>3, SkipKeeps DEF FindUser
<1>4. CASE ~(req[r].op = "verify" /\ user[u].verified)
  <2>1. /\ req[r].todo # <<>> /\ Head(req[r].todo) = "user"
        /\ req[r] \in InFlight /\ RowCurrent(r)
    BY <1>1, About
  <2>2. user[u] # None /\ user[u] \in User /\ (user[u].verified /\ ~user[u].admin => LinkFor(u))
    BY <1>2, <2>1, Rows DEF RowCurrent
  <2>3. /\ Read(r) \in User
        /\ Read(r).email = user[u].email /\ Read(r).admin = user[u].admin
        /\ req[r].op # "verify" => Read(r).verified = user[u].verified
    BY <1>2, <2>1, <2>2, ReadIsUser DEF InFlight
  <2>4. PICK row \in User : row = Read(r)
    BY <2>3
  <2>5. PICK t \in Tids \cup {None} : t = req[r].tid
    BY <2>1 DEF InFlight
  <2>6. Advance(r, row, t)
    BY <1>2, <1>4, <2>4, <2>5 DEF FindUser, Advance
  <2>7. Grows
    BY <1>1 DEF Grows
  <2>8. LinkFor(u) => LinkFor(u)'
    BY <2>7, LinkKept
  <2>9. row.verified /\ ~row.admin => LinkFor(u)' \/ (Doing(r, "user") /\ req[r].op = "verify")
    BY <1>1, <2>2, <2>3, <2>4, <2>8
  <2>10. user'[u] # None /\ row.email = user'[u].email /\ row.admin = user'[u].admin
    BY <1>1, <2>2, <2>3, <2>4
  <2>11. ~Doing(r, "token") /\ \A v \in Uids : ~(user[v] = None /\ user'[v] # None)
    BY <1>1 DEF Doing
  <2>12. /\ req' \in [Requests -> InFlight \cup {Idle}]
         /\ Creators'
         /\ \A q \in Requests : RequestSound(q)'
    BY <1>2, <2>1, <2>5, <2>6, <2>7, <2>9, <2>10, <2>11, AdvanceKeeps
  <2>13. OneAccountPerEmail' /\ VerifiedByLink' /\ AdminHasAddress'
    BY <1>1, <2>7, UsersKept
  <2>14. TypeOK' /\ References'
    BY <1>0, <1>1, <2>12 DEF IInv, TypeOK, Remembered, References
  <2> QED BY <2>12, <2>13, <2>14 DEF IInv
<1> QED BY <1>3, <1>4

LEMMA StoreTokenKeeps ==
  ASSUME IInv, NEW r \in Requests, StoreToken(r)
  PROVE  IInv'
<1>0. Remembered'
  BY StatementRemembers DEF Statement
<1>1. /\ Doing(r, "token")
      /\ user' = user /\ session' = session /\ links' = links
  BY DEF StoreToken
<1>2. PICK u \in Uids : u = req[r].id
  BY <1>1, About
<1>3. PICK t \in Tids, new \in Token :
        /\ token[t] = None /\ token' = [token EXCEPT ![t] = new] /\ new.user = u
        /\ Advance(r, req[r].row, t)
  <2>1. PICK t \in Tids :
          /\ token[t] = None /\ Advance(r, req[r].row, t)
          /\ token' = [token EXCEPT ![t] = [user |-> req[r].id, purpose |-> Purpose(req[r].op),
                                            state |-> "active"]]
    BY DEF StoreToken
  <2> DEFINE new == [user |-> u, purpose |-> Purpose(req[r].op), state |-> "active"]
  <2>2. new \in Token /\ new.user = u
    BY DEF Token, Purpose, Purposes
  <2> QED BY <1>2, <2>1, <2>2
<1>4. token'[t] = new /\ new # None /\ \A v \in Tids : v # t => token'[v] = token[v]
  BY <1>3, NoneIsNoValue DEF IInv, TypeOK
<1>5. Grows
  BY <1>1, <1>3, <1>4 DEF Grows
<1>6. /\ req' \in [Requests -> InFlight \cup {Idle}]
      /\ Creators'
      /\ \A q \in Requests : RequestSound(q)'
      /\ OneAccountPerEmail' /\ VerifiedByLink' /\ AdminHasAddress'
  BY <1>1, <1>2, <1>3, <1>4, <1>5, StatementKeeps DEF Stages
<1>7. TypeOK'
  BY <1>0, <1>1, <1>3, <1>6 DEF IInv, TypeOK, Remembered
<1>8. user[u] # None
  BY <1>1, <1>2, About DEF RowCurrent
<1>9. References'
  BY <1>1, <1>3, <1>4, <1>8, Rows DEF References
<1> QED BY <1>6, <1>7, <1>9 DEF IInv

LEMMA QueueLinkKeeps ==
  ASSUME IInv, NEW r \in Requests, QueueLink(r)
  PROVE  IInv'
<1>0. Remembered'
  BY StatementRemembers DEF Statement
<1>1. /\ Doing(r, "mail")
      /\ user' = user /\ session' = session /\ token' = token
      /\ links' = links \cup {req[r].tid} /\ Advance(r, req[r].row, None)
  BY DEF QueueLink
<1>2. PICK u \in Uids : u = req[r].id
  BY <1>1, About
<1>3. req[r].tid \in Tids /\ token[req[r].tid] # None
  BY <1>1, About DEF TokenCurrent
<1>4. Grows
  BY <1>1 DEF Grows
<1>5. /\ req' \in [Requests -> InFlight \cup {Idle}]
      /\ Creators'
      /\ \A q \in Requests : RequestSound(q)'
      /\ OneAccountPerEmail' /\ VerifiedByLink' /\ AdminHasAddress'
  BY <1>1, <1>2, <1>4, StatementKeeps DEF Stages
<1>6. TypeOK' /\ References'
  BY <1>0, <1>1, <1>3, <1>5 DEF IInv, TypeOK, Remembered, References
<1> QED BY <1>5, <1>6 DEF IInv

LEMMA IssueTokensKeeps ==
  ASSUME IInv, NEW r \in Requests, IssueTokens(r)
  PROVE  IInv'
<1>0. Remembered'
  BY StatementRemembers DEF Statement
<1>1. /\ Doing(r, "session") /\ Advance(r, req[r].row, None)
      /\ user' = user /\ token' = token /\ links' = links
  BY DEF IssueTokens
<1>2. PICK u \in Uids : u = req[r].id
  BY <1>1, About
<1>3. req[r].row \in User /\ user[u] # None
  BY <1>1, <1>2, About DEF InFlight, RowCurrent
<1>4. req[r].row.password \in Passwords
  BY <1>3 DEF User
<1>5. PICK s \in Sids :
        /\ session[s] = None
        /\ session' = [session EXCEPT ![s] =
             IF req[r].op = "refresh" THEN [session[req[r].sid] EXCEPT !.live = TRUE]
             ELSE [user |-> req[r].id, password |-> req[r].row.password, live |-> TRUE,
                   family |-> s]]
  BY DEF IssueTokens
<1>6. PICK new \in Session :
        session' = [session EXCEPT ![s] = new] /\ user[new.user] # None
  <2>1. CASE req[r].op = "refresh"
    <3>1. PICK old \in Session : old = session[req[r].sid] /\ user[old.user] # None
      <4>1. req[r].sid \in Sids /\ session[req[r].sid] # None
        BY <1>1, <2>1, About DEF TokenCurrent
      <4> QED BY <4>1, Rows
    <3>2. [old EXCEPT !.live = TRUE] \in Session /\ [old EXCEPT !.live = TRUE].user = old.user
      BY DEF Session
    <3> QED BY <1>5, <2>1, <3>1, <3>2
  <2>2. CASE req[r].op # "refresh"
    <3> DEFINE new == [user |-> u, password |-> req[r].row.password, live |-> TRUE,
                       family |-> s]
    <3>1. new \in Session /\ new.user = u
      BY <1>4 DEF Session
    <3> QED BY <1>2, <1>3, <1>5, <2>2, <3>1
  <2> QED BY <2>1, <2>2
<1>7. session'[s] = new /\ new # None /\ \A v \in Sids : v # s => session'[v] = session[v]
  BY <1>6, NoneIsNoValue DEF IInv, TypeOK
<1>8. Grows
  BY <1>1, <1>5, <1>6, <1>7 DEF Grows
<1>9. /\ req' \in [Requests -> InFlight \cup {Idle}]
      /\ Creators'
      /\ \A q \in Requests : RequestSound(q)'
      /\ OneAccountPerEmail' /\ VerifiedByLink' /\ AdminHasAddress'
  BY <1>1, <1>2, <1>8, StatementKeeps DEF Stages
<1>10. TypeOK'
  BY <1>0, <1>1, <1>6, <1>9 DEF IInv, TypeOK, Remembered
<1>11. References'
  BY <1>1, <1>5, <1>6, <1>7, Rows DEF References
<1> QED BY <1>9, <1>10, <1>11 DEF IInv

\* Sessions that only stop being live are sessions of the same accounts.
LEMMA SessionsEnd ==
  ASSUME IInv, session' \in [Sids -> Session \cup {None}],
         \A s \in Sids : /\ session[s] = None => session'[s] = None
                         /\ session[s] # None =>
                              session'[s] # None /\ session'[s].user = session[s].user,
         user' = user, token' = token, links' = links
  PROVE  Grows /\ References'
BY DEF IInv, References, Grows

LEMMA RevokeKeeps ==
  ASSUME IInv, NEW r \in Requests, Revoke(r)
  PROVE  IInv'
<1>0. Remembered'
  BY StatementRemembers DEF Statement
<1>1. /\ Doing(r, "revoke") /\ Advance(r, req[r].row, None)
      /\ session' = [session EXCEPT ![req[r].sid].live = FALSE]
      /\ user' = user /\ token' = token /\ links' = links
  BY DEF Revoke
<1>2. PICK u \in Uids : u = req[r].id
  BY <1>1, About
<1>3. req[r].sid \in Sids /\ session[req[r].sid] # None
  BY <1>1, About DEF TokenCurrent, Belongs
<1>4. PICK s \in Sids : s = req[r].sid
  BY <1>3
<1>5. PICK new \in Session :
        new.user = session[s].user /\ session' = [session EXCEPT ![s] = new]
  <2>1. session[s] \in Session
    BY <1>3, <1>4, Rows
  <2>2. /\ [session[s] EXCEPT !.live = FALSE] \in Session
        /\ [session[s] EXCEPT !.live = FALSE].user = session[s].user
    BY <2>1 DEF Session
  <2> QED BY <1>1, <1>4, <2>2
<1>6. session'[s] = new /\ new # None /\ \A v \in Sids : v # s => session'[v] = session[v]
  BY <1>5, NoneIsNoValue DEF IInv, TypeOK
<1>7. session' \in [Sids -> Session \cup {None}]
  BY <1>5 DEF IInv, TypeOK
<1>8. Grows /\ References'
  <2>1. \A v \in Sids : /\ session[v] = None => session'[v] = None
                        /\ session[v] # None =>
                             session'[v] # None /\ session'[v].user = session[v].user
    BY <1>3, <1>4, <1>5, <1>6
  <2> QED BY <1>1, <1>7, <2>1, SessionsEnd
<1>9. /\ req' \in [Requests -> InFlight \cup {Idle}]
      /\ Creators'
      /\ \A q \in Requests : RequestSound(q)'
      /\ OneAccountPerEmail' /\ VerifiedByLink' /\ AdminHasAddress'
  BY <1>1, <1>2, <1>8, StatementKeeps DEF Stages
<1>10. TypeOK'
  BY <1>0, <1>1, <1>7, <1>9 DEF IInv, TypeOK, Remembered
<1> QED BY <1>8, <1>9, <1>10 DEF IInv

LEMMA RevokeAllKeeps ==
  ASSUME IInv, NEW r \in Requests, RevokeAll(r)
  PROVE  IInv'
<1>0. Remembered'
  BY StatementRemembers DEF Statement
<1>1. /\ Doing(r, "revoke_all") /\ Advance(r, req[r].row, None)
      /\ user' = user /\ token' = token /\ links' = links
  BY DEF RevokeAll
<1>2. PICK u \in Uids : u = req[r].id
  BY <1>1, About
<1>3. \A s \in Sids : session[s] # None =>
        /\ [session[s] EXCEPT !.live = FALSE] \in Session
        /\ [session[s] EXCEPT !.live = FALSE].user = session[s].user
  BY Rows DEF Session
<1>4. session' = [s \in Sids |-> IF s \in SessionsOf(req[r].id)
                                   THEN [session[s] EXCEPT !.live = FALSE] ELSE session[s]]
  BY DEF RevokeAll
<1>5. session' \in [Sids -> Session \cup {None}]
  BY <1>3, <1>4 DEF IInv, TypeOK, SessionsOf
<1>6. Grows /\ References'
  <2>1. \A s \in Sids : /\ session[s] = None => session'[s] = None
                        /\ session[s] # None =>
                             session'[s] # None /\ session'[s].user = session[s].user
    BY <1>3, <1>4, NoneIsNoValue DEF SessionsOf
  <2> QED BY <1>1, <1>5, <2>1, SessionsEnd
<1>7. /\ req' \in [Requests -> InFlight \cup {Idle}]
      /\ Creators'
      /\ \A q \in Requests : RequestSound(q)'
      /\ OneAccountPerEmail' /\ VerifiedByLink' /\ AdminHasAddress'
  BY <1>1, <1>2, <1>6, StatementKeeps DEF Stages
<1>8. TypeOK'
  BY <1>0, <1>1, <1>5, <1>7 DEF IInv, TypeOK, Remembered
<1> QED BY <1>6, <1>7, <1>8 DEF IInv

\* Tokens that only change their state are tokens of the same accounts.
LEMMA TokensMove ==
  ASSUME IInv, token' \in [Tids -> Token \cup {None}],
         \A t \in Tids : /\ token[t] = None => token'[t] = None
                         /\ token[t] # None =>
                              /\ token'[t] # None
                              /\ token'[t].user = token[t].user
                              /\ token'[t].purpose = token[t].purpose
                              /\ token[t].state = "followed" => token'[t].state = "followed",
         user' = user, session' = session, links' = links
  PROVE  Grows /\ References'
<1>1. links \subseteq Tids
  BY DEF IInv, TypeOK
<1> QED BY <1>1 DEF IInv, References, Grows

\* The row of a token in another state.
LEMMA TokenRow ==
  ASSUME IInv, NEW t \in Tids, token[t] # None, NEW state \in {"active", "followed", "void", "expired"}
  PROVE  /\ [token[t] EXCEPT !.state = state] \in Token
         /\ [token[t] EXCEPT !.state = state] # None
         /\ [token[t] EXCEPT !.state = state].user = token[t].user
         /\ [token[t] EXCEPT !.state = state].purpose = token[t].purpose
         /\ [token[t] EXCEPT !.state = state].state = state
<1>1. token[t] \in Token
  BY Rows
<1>2. [token[t] EXCEPT !.state = state] \in Token
  BY <1>1 DEF Token
<1> QED BY <1>1, <1>2, NoneIsNoValue DEF Token

LEMMA MarkUsedKeeps ==
  ASSUME IInv, NEW r \in Requests, MarkUsed(r)
  PROVE  IInv'
<1>0. Remembered'
  BY StatementRemembers DEF Statement
<1>1. /\ Doing(r, "mark") /\ Advance(r, req[r].row, None)
      /\ token' = [token EXCEPT ![req[r].tid].state = "followed"]
      /\ user' = user /\ session' = session /\ links' = links
  BY DEF MarkUsed
<1>2. PICK u \in Uids : u = req[r].id
  BY <1>1, About
<1>3. /\ req[r].tid \in links /\ token[req[r].tid].user = u
      /\ token[req[r].tid].purpose = Purpose(req[r].op)
  BY <1>1, <1>2, About DEF TokenCurrent, Belongs
<1>4. PICK t \in Tids : t = req[r].tid /\ token[t] # None
  BY <1>3, Rows
<1>5. PICK new \in Token :
        /\ token' = [token EXCEPT ![t] = new] /\ new # None /\ new.user = u
        /\ new.purpose = token[t].purpose /\ new.state = "followed"
  <2>1. token' = [token EXCEPT ![t] = [token[t] EXCEPT !.state = "followed"]]
    BY <1>1, <1>4
  <2>2. token[t] # None /\ token[t].user = u
    BY <1>3, <1>4
  <2> QED BY <2>1, <2>2, TokenRow
<1>6. token'[t] = new /\ \A v \in Tids : v # t => token'[v] = token[v]
  BY <1>5 DEF IInv, TypeOK
<1>7. token' \in [Tids -> Token \cup {None}]
  BY <1>5 DEF IInv, TypeOK
<1>8. Grows /\ References'
  <2>1. \A v \in Tids : /\ token[v] = None => token'[v] = None
                        /\ token[v] # None =>
                             /\ token'[v] # None
                             /\ token'[v].user = token[v].user
                             /\ token'[v].purpose = token[v].purpose
                             /\ token[v].state = "followed" => token'[v].state = "followed"
    BY <1>3, <1>4, <1>5, <1>6
  <2> QED BY <1>1, <1>7, <2>1, TokensMove
<1>9. req[r].op = "verify" => LinkFor(u)'
  <2>1. req[r].op = "verify" => new.purpose = "email_verification"
    BY <1>3, <1>4, <1>5 DEF Purpose
  <2>2. req[r].op = "verify" =>
          /\ t \in links' /\ token'[t] # None /\ token'[t].user = u
          /\ token'[t].purpose = "email_verification" /\ token'[t].state = "followed"
    BY <1>1, <1>3, <1>4, <1>5, <1>6, <2>1
  <2> QED BY <2>2 DEF LinkFor
<1>10. /\ req' \in [Requests -> InFlight \cup {Idle}]
       /\ Creators'
       /\ \A q \in Requests : RequestSound(q)'
       /\ OneAccountPerEmail' /\ VerifiedByLink' /\ AdminHasAddress'
  BY <1>1, <1>2, <1>8, <1>9, StatementKeeps DEF Stages
<1>11. TypeOK'
  BY <1>0, <1>1, <1>7, <1>10 DEF IInv, TypeOK, Remembered
<1> QED BY <1>8, <1>10, <1>11 DEF IInv

LEMMA InvalidateKeeps ==
  ASSUME IInv, NEW r \in Requests, Invalidate(r)
  PROVE  IInv'
<1>0. Remembered'
  BY StatementRemembers DEF Statement
<1>1. /\ Doing(r, "invalidate") /\ Advance(r, req[r].row, None)
      /\ user' = user /\ session' = session /\ links' = links
  BY DEF Invalidate
<1>2. PICK u \in Uids : u = req[r].id
  BY <1>1, About
<1>3. \A t \in Tids : token'[t] = token[t] \/
        (/\ token[t] # None /\ token[t].state # "followed"
         /\ token'[t] = [token[t] EXCEPT !.state = "void"])
  BY DEF Invalidate
<1>4. token' \in [Tids -> Token \cup {None}]
  <2>1. \A t \in Tids : token'[t] \in Token \cup {None}
    BY <1>3, TokenRow DEF IInv, TypeOK
  <2>2. token' = [t \in Tids |-> token'[t]]
    BY DEF Invalidate
  <2> QED BY <2>1, <2>2
<1>5. Grows /\ References'
  <2>1. \A t \in Tids : /\ token[t] = None => token'[t] = None
                        /\ token[t] # None =>
                             /\ token'[t] # None
                             /\ token'[t].user = token[t].user
                             /\ token'[t].purpose = token[t].purpose
                             /\ token[t].state = "followed" => token'[t].state = "followed"
    BY <1>3, TokenRow
  <2> QED BY <1>1, <1>4, <2>1, TokensMove
<1>6. /\ req' \in [Requests -> InFlight \cup {Idle}]
      /\ Creators'
      /\ \A q \in Requests : RequestSound(q)'
      /\ OneAccountPerEmail' /\ VerifiedByLink' /\ AdminHasAddress'
  BY <1>1, <1>2, <1>5, StatementKeeps DEF Stages
<1>7. TypeOK'
  BY <1>0, <1>1, <1>4, <1>6 DEF IInv, TypeOK, Remembered
<1> QED BY <1>5, <1>6, <1>7 DEF IInv

LEMMA AbandonKeeps ==
  ASSUME IInv, NEW r \in Requests, Abandon(r)
  PROVE  IInv'
<1>1. /\ req[r] # Idle /\ req' = [req EXCEPT ![r] = Idle]
      /\ user' = user /\ session' = session /\ token' = token /\ links' = links
  BY DEF Abandon
<1>2. req[r].id \in Uids
  BY <1>1, Busy DEF InFlight
<1>3. req'[r] = Idle /\ \A q \in Requests : q # r => req'[q] = req[q]
  BY <1>1 DEF IInv, TypeOK
<1>4. Grows
  BY <1>1 DEF Grows
<1>5. TypeOK' /\ References'
  <2>1. overtaken' \in SUBSET (Requests \X Tables)
    BY OvertakeRemembers DEF Abandon
  <2>2. late' \subseteq late \cup Sids
    BY DEF Abandon, SessionsOf
  <2> QED BY <1>1, <1>2, <2>1, <2>2 DEF IInv, TypeOK, References
<1>6. OneAccountPerEmail' /\ VerifiedByLink' /\ AdminHasAddress'
  BY <1>1, <1>4, UsersKept
<1>7. ASSUME NEW q \in Requests, q # r PROVE RequestSound(q)'
  <2>1. Doing(q, "create") => user'[req[q].id] = None
    BY <1>1, DoingIsBusy DEF IInv, RequestSound, RowCurrent, Doing
  <2> QED BY <1>3, <1>4, <1>7, <2>1, OthersKept
<1>8. RequestSound(r)'
  BY <1>3 DEF RequestSound
<1>9. Creators'
  BY <1>3 DEF IInv, Creators, Doing, Idle
<1> QED BY <1>5, <1>6, <1>7, <1>8, <1>9 DEF IInv

\* A step that leaves the requests and the users alone.
LEMMA TablesOnly ==
  ASSUME IInv, Grows, req' = req, user' = user
  PROVE  /\ OneAccountPerEmail' /\ VerifiedByLink' /\ AdminHasAddress' /\ Creators'
         /\ \A q \in Requests : RequestSound(q)'
<1>1. ASSUME NEW q \in Requests PROVE RequestSound(q)'
  <2>1. Doing(q, "create") => user'[req[q].id] = None
    BY DoingIsBusy DEF IInv, RequestSound, RowCurrent, Doing
  <2> QED BY <2>1, OthersKept
<1>2. Creators'
  BY DEF IInv, Creators, Doing
<1> QED BY <1>1, <1>2, UsersKept

LEMMA ExpireSessionKeeps ==
  ASSUME IInv, NEW s \in Sids, ExpireSession(s)
  PROVE  IInv'
<1>1. /\ session[s] # None /\ session' = [session EXCEPT ![s].live = FALSE]
      /\ user' = user /\ token' = token /\ links' = links /\ req' = req
      /\ overtaken' = overtaken /\ late' = late
  BY DEF ExpireSession, Live
<1>2. PICK new \in Session :
        new.user = session[s].user /\ session' = [session EXCEPT ![s] = new]
  <2>1. session[s] \in Session
    BY <1>1, Rows
  <2>2. /\ [session[s] EXCEPT !.live = FALSE] \in Session
        /\ [session[s] EXCEPT !.live = FALSE].user = session[s].user
    BY <2>1 DEF Session
  <2> QED BY <1>1, <2>2
<1>3. session'[s] = new /\ new # None /\ \A v \in Sids : v # s => session'[v] = session[v]
  BY <1>2, NoneIsNoValue DEF IInv, TypeOK
<1>4. session' \in [Sids -> Session \cup {None}]
  BY <1>2 DEF IInv, TypeOK
<1>5. Grows /\ References'
  <2>1. \A v \in Sids : /\ session[v] = None => session'[v] = None
                        /\ session[v] # None =>
                             session'[v] # None /\ session'[v].user = session[v].user
    BY <1>1, <1>2, <1>3
  <2> QED BY <1>1, <1>4, <2>1, SessionsEnd
<1>6. TypeOK'
  BY <1>1, <1>4 DEF IInv, TypeOK
<1> QED BY <1>1, <1>5, <1>6, TablesOnly DEF IInv

LEMMA ExpireTokenKeeps ==
  ASSUME IInv, NEW t \in Tids, ExpireToken(t)
  PROVE  IInv'
<1>1. /\ token[t] # None /\ token[t].state = "active"
      /\ token' = [token EXCEPT ![t].state = "expired"]
      /\ user' = user /\ session' = session /\ links' = links /\ req' = req
      /\ overtaken' = overtaken /\ late' = late
  BY DEF ExpireToken
<1>2. PICK new \in Token :
        /\ token' = [token EXCEPT ![t] = new] /\ new # None
        /\ new.user = token[t].user /\ new.purpose = token[t].purpose
  BY <1>1, TokenRow
<1>3. token'[t] = new /\ \A v \in Tids : v # t => token'[v] = token[v]
  BY <1>2 DEF IInv, TypeOK
<1>4. token' \in [Tids -> Token \cup {None}]
  BY <1>2 DEF IInv, TypeOK
<1>5. Grows /\ References'
  <2>1. \A v \in Tids : /\ token[v] = None => token'[v] = None
                        /\ token[v] # None =>
                             /\ token'[v] # None
                             /\ token'[v].user = token[v].user
                             /\ token'[v].purpose = token[v].purpose
                             /\ token[v].state = "followed" => token'[v].state = "followed"
    BY <1>1, <1>2, <1>3
  <2> QED BY <1>1, <1>4, <2>1, TokensMove
<1>6. TypeOK'
  BY <1>1, <1>4 DEF IInv, TypeOK
<1> QED BY <1>1, <1>5, <1>6, TablesOnly DEF IInv

-----------------------------------------------------------------------------
LEMMA InitSound == Init => IInv
<1> SUFFICES ASSUME Init PROVE IInv
  OBVIOUS
<1>1. TypeOK
  BY DEF Init, TypeOK
<1>2. OneAccountPerEmail /\ VerifiedByLink /\ AdminHasAddress /\ References
  BY DEF Init, OneAccountPerEmail, VerifiedByLink, AdminHasAddress, References
<1>3. Creators /\ \A r \in Requests : RequestSound(r)
  BY DEF Init, Creators, RequestSound, Doing, Idle
<1> QED BY <1>1, <1>2, <1>3 DEF IInv

LEMMA NextSound == IInv /\ [Next]_vars => IInv'
<1> SUFFICES ASSUME IInv, [Next]_vars PROVE IInv'
  OBVIOUS
<1>1. ASSUME NEW r \in Requests, Request(r) PROVE IInv'
  <2>1. CASE \E u \in Uids, e \in Emails, p \in Passwords : Register(r, u, e, p)
    BY <2>1, RegisterKeeps
  <2>2. CASE \E u \in Uids, p \in Passwords : SeedAdmin(r, u, p)
    BY <2>2, SeedKeeps
  <2>3. CASE \E u \in Uids : Login(r, u) \/ ResendVerification(r, u) \/ ForgotPassword(r, u)
                               \/ SuspendUser(r, u) \/ UpdateProfile(r, u)
    BY <2>3, AccountRequestKeeps
  <2>4. CASE \E s \in Sids : Refresh(r, s) \/ Logout(r, s)
    BY <2>4, SessionRequestKeeps
  <2>5. CASE \E t \in Tids : VerifyEmail(r, t) \/ \E p \in Passwords : ResetPassword(r, t, p)
    BY <2>5, VerifyKeeps, ResetKeeps
  <2> QED BY <1>1, <2>1, <2>2, <2>3, <2>4, <2>5 DEF Request
<1>2. ASSUME NEW r \in Requests, Statement(r) PROVE IInv'
  BY <1>2, CreateUserKeeps, StoreTokenKeeps, QueueLinkKeeps, IssueTokensKeeps, FindUserKeeps,
     RevokeKeeps, MarkUsedKeeps, InvalidateKeeps, UpdateUserKeeps, RevokeAllKeeps
  DEF Statement
<1>3. ASSUME NEW r \in Requests, Abandon(r) PROVE IInv'
  BY <1>3, AbandonKeeps
<1>4. ASSUME UNCHANGED vars PROVE IInv'
  <2>1. /\ user' = user /\ session' = session /\ token' = token /\ links' = links
        /\ req' = req /\ overtaken' = overtaken /\ late' = late
    BY <1>4 DEF vars
  <2>2. Grows
    BY <2>1 DEF Grows
  <2>3. TypeOK' /\ References'
    BY <2>1 DEF IInv, TypeOK, References
  <2> QED BY <2>1, <2>2, <2>3, TablesOnly DEF IInv
<1> QED BY <1>1, <1>2, <1>3, <1>4, ExpireSessionKeeps, ExpireTokenKeeps DEF Next

\* The invariant in every reachable state, however requests overlap and end.
THEOREM Sound == Spec => []IInv
<1>1. Init => IInv
  BY InitSound
<1>2. IInv /\ [Next]_vars => IInv'
  BY NextSound
<1> QED BY <1>1, <1>2, PTL DEF Spec

\* The state stays well typed.
THEOREM TypeCorrect == Spec => []TypeOK
<1>1. IInv => TypeOK
  BY DEF IInv
<1> QED BY <1>1, Sound, PTL

\* Racing registrations, and processes that start together, never leave two
\* accounts with one address or two administrators.
THEOREM OneAccount == Spec => []OneAccountPerEmail
<1>1. IInv => OneAccountPerEmail
  BY DEF IInv
<1> QED BY <1>1, Sound, PTL

\* An account that is verified, and was not seeded, has followed a mailed
\* link: one that a resend made void does not count.
THEOREM LinkVerified == Spec => []VerifiedByLink
<1>1. IInv => VerifiedByLink
  BY DEF IInv
<1> QED BY <1>1, Sound, PTL

-----------------------------------------------------------------------------
\* What overlapping requests leave of links and sessions.  Only requests that
\* are under way are remembered.
Clean == \A h \in overtaken : req[h[1]] # Idle

\* A link is stored when the account has no other for the purpose.
NoneActive(r) ==
  Doing(r, "token") /\ ~Overtaken(r, "token") =>
    \A t \in Tids \ late : token[t] # None /\ token[t].state = "active" =>
      token[t].user # req[r].id \/ token[t].purpose # Purpose(req[r].op)

\* A login is known by its first refresh token.
FamilyKnown ==
  \A s \in Sids : session[s] # None => session[session[s].family] # None

\* A refresh that is not overtaken, of a session that is not late.
InTime(r) == req[r].op = "refresh" /\ ~Overtaken(r, "session") /\ req[r].sid \notin late

\* It replaces the one session of its login, and opens one when that is gone.
Replaces(r) ==
  InTime(r) =>
    /\ \A s \in Sids \ late : Live(s) /\ session[s].family = session[req[r].sid].family =>
         s = req[r].sid /\ ~Doing(r, "session")
    /\ \A q \in Requests \ {r} :
         InTime(q) /\ session[req[q].sid].family = session[req[r].sid].family =>
           req[q].sid = req[r].sid /\ ~Doing(r, "session")

\* A session that is live, or that is being replaced in time.
Standing(s) == Live(s) \/ \E r \in Requests : InTime(r) /\ req[r].sid = s

Current(s) ==
  LET u == session[s].user
  IN  \/ user[u].active /\ session[s].password = user[u].password
      \/ RevokingAll(u)

\* The request has a copy of a row that nobody else has written since; a
\* verification that goes straight to the mark has no use for it.
Copy(r) ==
  /\ req[r] # Idle /\ ~Overtaken(r, "user")
  /\ Head(req[r].todo) \notin {"create", "user"} /\ req[r].todo # <<"mark">>

\* The copy is the row, but for what the request changes.
CopyFresh(r) ==
  Copy(r) =>
    /\ user[req[r].id].verified => req[r].row.verified
    /\ req[r].op \in {"register", "login", "verify", "profile"} =>
         /\ req[r].row.active = user[req[r].id].active
         /\ req[r].row.password = user[req[r].id].password

\* Logins are of active users.
LoginActive(r) == req[r].op \in {"register", "login"} => req[r].row.active

Links == OneLink /\ \A r \in Requests : NoneActive(r)
Families == FamilyKnown /\ Rotation /\ \A r \in Requests : Replaces(r)
Currents ==
  /\ \A s \in Sids \ late : Standing(s) => Current(s)
  /\ \A r \in Requests : CopyFresh(r) /\ LoginActive(r)

OInv == IInv /\ Clean /\ Links /\ Families /\ Currents

\* A request ends or goes on to its next statement.
Goes(r) ==
  \/ req'[r] = Idle
  \/ /\ req'[r].op = req[r].op /\ req'[r].id = req[r].id /\ req'[r].sid = req[r].sid
     /\ req'[r].todo # <<>> /\ req[r].todo # <<"mark">>
     /\ Follows(Head(req'[r].todo), Head(req[r].todo))
     /\ Belongs(Head(req'[r].todo), req[r].op)
     /\ req'[r].row = req[r].row \/ Head(req[r].todo) = "user"

\* What every step but the beginning of a request does to the requests.
Steady ==
  /\ \A q \in Requests : req'[q] = req[q] \/ (req[q].todo # <<>> /\ Goes(q))
  /\ late \subseteq late'
  /\ \A h \in overtaken : req'[h[1]] # Idle => h \in overtaken'
  /\ Clean'

\* Sessions that can only end.
SessionsFewer ==
  \A s \in Sids : /\ session'[s] = None <=> session[s] = None
                  /\ session[s] # None =>
                       /\ session'[s].user = session[s].user
                       /\ session'[s].family = session[s].family
                       /\ session'[s].password = session[s].password
                       /\ session'[s].live => session[s].live

-----------------------------------------------------------------------------
\* A request that advances goes on; one that is overtaken stays so.
LEMMA AdvanceGoes ==
  ASSUME IInv, NEW r \in Requests, req[r].todo # <<>>, NEW row \in User,
         NEW t \in Tids \cup {None}, Advance(r, row, t),
         row = req[r].row \/ Head(req[r].todo) = "user"
  PROVE  /\ Goes(r) /\ \A q \in Requests : q # r => req'[q] = req[q]
         /\ req'[r] # Idle => req'[r].row = row
         /\ req'[r] = Idle /\ req[r].op \in {"reset", "suspend"} => Head(req[r].todo) = "revoke_all"
<1>1. req[r] # Idle
  BY DEF Idle
<1>2. req[r] \in InFlight /\ Ordered(req[r].op, req[r].todo)
  BY <1>1, Busy
<1> DEFINE old == req[r]
           rest == Tail(old.todo)
           new == [old EXCEPT !.todo = rest, !.row = row, !.tid = t]
<1>3. /\ req'[r] = IF rest = <<>> THEN Idle ELSE new
      /\ \A q \in Requests : q # r => req'[q] = req[q]
  BY DEF Advance, IInv, TypeOK
<1>4. /\ rest # <<>> => Follows(Head(rest), Head(old.todo)) /\ Belongs(Head(rest), old.op)
      /\ rest = <<>> /\ old.op \in {"reset", "suspend"} => Head(old.todo) = "revoke_all"
  <2>1. rest # <<>> => Ordered(old.op, rest)
    BY <1>2, TailOrdered
  <2>2. rest # <<>> => Belongs(Head(rest), old.op)
    BY <2>1, TailOrdered
  <2> QED BY <1>2, <2>2, TailOrdered
<1>5. rest # <<>> => old.todo # <<"mark">>
  <2>1. Tail(<<"mark">>) = <<>>
    OBVIOUS
  <2> QED BY <2>1
<1>6. new.op = old.op /\ new.todo = rest /\ new.id = old.id /\ new.row = row /\ new.sid = old.sid
  <2>1. old \in InFlight
    BY <1>2
  <2> HIDE DEF old, rest
  <2> QED BY <2>1 DEF InFlight
<1> HIDE DEF new
<1>7. PICK next : next = rest
  OBVIOUS
<1>8. /\ req'[r] = IF next = <<>> THEN Idle ELSE new
      /\ new.todo = next
      /\ next # <<>> => /\ Follows(Head(next), Head(req[r].todo))
                        /\ Belongs(Head(next), req[r].op) /\ req[r].todo # <<"mark">>
      /\ next = <<>> /\ req[r].op \in {"reset", "suspend"} => Head(req[r].todo) = "revoke_all"
  BY <1>3, <1>4, <1>5, <1>6, <1>7
<1>9. new.op = req[r].op /\ new.id = req[r].id /\ new.sid = req[r].sid
  BY <1>6
<1>10. CASE next = <<>>
  BY <1>3, <1>8, <1>10 DEF Goes
<1>11. CASE next # <<>>
  <2>1. req'[r] = new
    BY <1>8, <1>11
  <2>2. new # Idle
    BY <1>8, <1>11 DEF Idle
  <2>3. Goes(r)
    BY <1>6, <1>8, <1>9, <1>11, <2>1 DEF Goes
  <2> QED BY <1>3, <1>6, <2>1, <2>2, <2>3
<1> QED BY <1>10, <1>11

LEMMA OvertakeSteady ==
  ASSUME NEW hits, Overtake(hits)
  PROVE  /\ \A h \in overtaken \cup hits : req'[h[1]] # Idle => h \in overtaken'
         /\ Clean'
BY DEF Overtake, Clean

\* What a statement is done for.
LEMMA StatementAbout ==
  ASSUME OInv, NEW r \in Requests, NEW stage, Doing(r, stage)
  PROVE  /\ req[r] # Idle /\ req[r] \in InFlight /\ req[r].todo # <<>>
         /\ Head(req[r].todo) = stage
         /\ req[r].row \in User /\ req[r].id \in Uids /\ Belongs(stage, req[r].op)
         /\ RowCurrent(r) /\ TokenCurrent(r)
         /\ NoneActive(r) /\ Replaces(r) /\ CopyFresh(r) /\ LoginActive(r)
<1>1. req[r] # Idle /\ Head(req[r].todo) = stage
  BY DoingIsBusy DEF Doing
<1>2. /\ req[r] \in InFlight /\ RowCurrent(r) /\ TokenCurrent(r) /\ Belongs(stage, req[r].op)
      /\ req[r].todo # <<>>
  BY About DEF OInv
<1>3. NoneActive(r) /\ Replaces(r) /\ CopyFresh(r) /\ LoginActive(r)
  BY DEF OInv, Links, Families, Currents
<1> QED BY <1>1, <1>2, <1>3 DEF InFlight

\* Every statement is steady.
LEMMA StatementSteady ==
  ASSUME OInv, NEW r \in Requests, Statement(r)
  PROVE  /\ Steady /\ Goes(r) /\ req[r].todo # <<>>
         /\ \A q \in Requests : q # r => req'[q] = req[q]
<1>1. /\ \E hits : Overtake(hits)
      /\ late \subseteq late'
  BY DEF Statement, CreateUser, StoreToken, QueueLink, IssueTokens, FindUser, Revoke, MarkUsed,
         Invalidate, UpdateUser, RevokeAll
<1>2. (\A h \in overtaken : req'[h[1]] # Idle => h \in overtaken') /\ Clean'
  BY <1>1, OvertakeSteady
<1>3. req[r].todo # <<>>
  BY DEF Statement, CreateUser, StoreToken, QueueLink, IssueTokens, FindUser, Revoke, MarkUsed,
         Invalidate, UpdateUser, RevokeAll, Doing
<1>4. req[r] # Idle /\ req[r] \in InFlight /\ req[r].row \in User
  BY <1>3, Busy DEF OInv, Idle, InFlight
<1>5. Goes(r) /\ \A q \in Requests : q # r => req'[q] = req[q]
  <2>1. PICK row \in User : row = req[r].row
    BY <1>4
  <2>2. CASE FindUser(r)
    <3>1. Doing(r, "user") /\ Head(req[r].todo) = "user" /\ req[r].id \in Uids
      BY <2>2, StatementAbout DEF FindUser
    <3>2. CASE req' = [req EXCEPT ![r].todo = <<"mark">>] /\ req[r].op = "verify"
      <4>1. \A q \in Requests : q # r => req'[q] = req[q]
        BY <3>2 DEF OInv, IInv, TypeOK
      <4>2. PICK old \in InFlight : old = req[r]
        BY <1>4
      <4> DEFINE new == [old EXCEPT !.todo = <<"mark">>]
      <4>3. /\ new.op = old.op /\ new.id = old.id /\ new.sid = old.sid
            /\ new.row = old.row /\ new.todo = <<"mark">>
        BY DEF InFlight
      <4>4. req'[r] = new
        BY <3>2, <4>2 DEF OInv, IInv, TypeOK
      <4> HIDE DEF new
      <4>5. Head(<<"mark">>) = "mark" /\ <<"mark">> # <<>>
        OBVIOUS
      <4>6. req[r].todo # <<"mark">>
        BY <3>1
      <4>7. Follows("mark", "user") /\ Belongs("mark", "verify")
        BY DEF Follows, Belongs
      <4> QED BY <3>1, <3>2, <4>1, <4>2, <4>3, <4>4, <4>5, <4>6, <4>7 DEF Goes
    <3>3. CASE Advance(r, Read(r), req[r].tid)
      <4>1. Read(r) \in User
        <5>1. user[req[r].id] \in User
          BY <3>1, About, Rows DEF OInv, RowCurrent
        <5> QED BY <1>4, <5>1, ReadIsUser
      <4>2. req[r].tid \in Tids \cup {None}
        BY <1>4 DEF InFlight
      <4>3. PICK new \in User, t \in Tids \cup {None} : Advance(r, new, t)
        BY <3>3, <4>1, <4>2
      <4> QED BY <1>3, <3>1, <4>3, AdvanceGoes DEF OInv
    <3> QED BY <2>2, <3>2, <3>3 DEF FindUser
  <2>3. CASE \E t \in Tids \cup {None} : Advance(r, req[r].row, t)
    <3>1. PICK t \in Tids \cup {None} : Advance(r, row, t)
      BY <2>1, <2>3
    <3> QED BY <1>3, <2>1, <3>1, AdvanceGoes DEF OInv
  <2>4. FindUser(r) \/ \E t \in Tids \cup {None} : Advance(r, req[r].row, t)
    BY DEF Statement, CreateUser, StoreToken, QueueLink, IssueTokens, Revoke, MarkUsed,
           Invalidate, UpdateUser, RevokeAll
  <2> QED BY <2>2, <2>3, <2>4
<1> QED BY <1>1, <1>2, <1>3, <1>5 DEF Steady

\* A refresh that is in time was so before.
LEMMA InTimeBefore ==
  ASSUME OInv, Steady, NEW q \in Requests, InTime(q)'
  PROVE  /\ InTime(q) /\ req'[q].sid = req[q].sid
         /\ req[q].sid \in Sids /\ session[req[q].sid] # None
         /\ Doing(q, "session")' =>
              Doing(q, "session") \/ (Doing(q, "revoke") /\ req'[q] # req[q])
<1>1. req'[q].op = "refresh" /\ req'[q] # Idle /\ ~Overtaken(q, "session")' /\ req'[q].sid \notin late'
  BY DEF InTime, Idle
<1>2. req'[q] = req[q] \/ (req[q].todo # <<>> /\ Goes(q))
  BY DEF Steady
<1>3. req[q].op = "refresh" /\ req'[q].sid = req[q].sid
  BY <1>1, <1>2 DEF Goes
<1>4. ~Overtaken(q, "session")
  <2>1. <<q, "session">> \in overtaken => <<q, "session">> \in overtaken'
    BY <1>1 DEF Steady
  <2> QED BY <1>1, <2>1 DEF Overtaken
<1>5. InTime(q)
  BY <1>1, <1>3, <1>4 DEF InTime, Steady
<1>6. req[q] # Idle
  BY <1>3 DEF Idle
<1>7. TokenCurrent(q) /\ Belongs(Head(req[q].todo), req[q].op)
  BY <1>6, Busy DEF OInv, IInv, RequestSound
<1>8. req[q].sid \in Sids /\ session[req[q].sid] # None
  BY <1>3, <1>7 DEF TokenCurrent
<1>9. Doing(q, "session")' => Doing(q, "session") \/ (Doing(q, "revoke") /\ req'[q] # req[q])
  <2>1. CASE req'[q] = req[q]
    BY <2>1 DEF Doing
  <2>2. CASE req'[q] # req[q] /\ req[q].todo # <<>> /\ Goes(q)
    <3>1. Head(req'[q].todo) = "session" => Head(req[q].todo) \in {"mail", "revoke"}
      BY <1>1, <2>2 DEF Goes, Follows
    <3>2. Head(req[q].todo) # "mail"
      BY <1>3, <1>7 DEF Belongs
    <3> QED BY <2>2, <3>1, <3>2 DEF Doing
  <2> QED BY <1>2, <2>1, <2>2
<1> QED BY <1>3, <1>5, <1>8, <1>9

\* What a refresh has to do.
LEMMA RefreshStages ==
  ASSUME OInv, NEW q \in Requests, req[q].op = "refresh"
  PROVE  /\ Doing(q, "user") \/ Doing(q, "revoke") \/ Doing(q, "session")
         /\ req[q].sid \in Sids /\ session[req[q].sid] # None
<1>1. req[q] # Idle
  BY DEF Idle
<1>2. /\ TokenCurrent(q) /\ Belongs(Head(req[q].todo), req[q].op)
      /\ req[q].todo # <<>> /\ Head(req[q].todo) \in Stages
  BY <1>1, Busy DEF OInv, IInv, RequestSound
<1> QED BY <1>2 DEF Belongs, Stages, Doing, TokenCurrent

\* Sessions that only end, without a refresh that goes on to open one, leave a
\* login one session.
LEMMA FamiliesKept ==
  ASSUME OInv, Steady, SessionsFewer,
         \A q \in Requests : Doing(q, "revoke") => req'[q] \in {req[q], Idle}
  PROVE  Families'
<1>1. \A s \in Sids : session[s] # None => session[s].family \in Sids
  BY Rows DEF OInv, Session
<1>2. FamilyKnown'
  BY <1>1 DEF OInv, Families, FamilyKnown, SessionsFewer
<1>3. \A s \in Sids : Live(s)' => Live(s) /\ session'[s].family = session[s].family
  BY DEF Live, SessionsFewer
<1>4. late \subseteq late'
  BY DEF Steady
<1>5. Rotation'
  BY <1>3, <1>4 DEF OInv, Families, Rotation
<1>6. \A q \in Requests : InTime(q)' =>
        /\ InTime(q) /\ req'[q].sid = req[q].sid
        /\ req[q].sid \in Sids /\ session'[req[q].sid].family = session[req[q].sid].family
        /\ Doing(q, "session")' => Doing(q, "session")
  <2> SUFFICES ASSUME NEW q \in Requests, InTime(q)'
      PROVE  /\ InTime(q) /\ req'[q].sid = req[q].sid
             /\ req[q].sid \in Sids /\ session'[req[q].sid].family = session[req[q].sid].family
             /\ Doing(q, "session")' => Doing(q, "session")
    OBVIOUS
  <2>1. req'[q] # Idle
    BY DEF InTime, Idle
  <2> QED BY <2>1, InTimeBefore DEF SessionsFewer
<1>7. ASSUME NEW r \in Requests, InTime(r)' PROVE Replaces(r)'
  <2>1. Replaces(r) /\ InTime(r)
    BY <1>6, <1>7 DEF OInv, Families
  <2>2. ASSUME NEW s \in Sids \ late', Live(s)',
               session'[s].family = session'[req'[r].sid].family
        PROVE  s = req'[r].sid /\ ~Doing(r, "session")'
    BY <1>3, <1>4, <1>6, <1>7, <2>1, <2>2 DEF Replaces
  <2>3. ASSUME NEW q \in Requests \ {r}, InTime(q)',
               session'[req'[q].sid].family = session'[req'[r].sid].family
        PROVE  req'[q].sid = req'[r].sid /\ ~Doing(r, "session")'
    BY <1>6, <1>7, <2>1, <2>3 DEF Replaces
  <2> QED BY <2>2, <2>3 DEF Replaces
<1>8. \A r \in Requests : Replaces(r)'
  BY <1>7 DEF Replaces
<1> QED BY <1>2, <1>5, <1>8 DEF Families

\* A step that leaves the sessions alone.
LEMMA SameSessions ==
  ASSUME session' = session
  PROVE  SessionsFewer
BY DEF SessionsFewer

\* A refresh that revokes its session in time is the one that replaces it.
LEMMA RevokeFamilies ==
  ASSUME OInv, Steady, SessionsFewer, NEW r \in Requests, Doing(r, "revoke"),
         \A q \in Requests : q # r => req'[q] = req[q],
         NEW sid, sid = req[r].sid, ~Live(sid)',
         \A q \in RevokingToo(r) : req'[q] # Idle => Overtaken(q, "session")'
  PROVE  Families'
<1>1. \A s \in Sids : session[s] # None => session[s].family \in Sids
  BY Rows DEF OInv, Session
<1>2. FamilyKnown'
  BY <1>1 DEF OInv, Families, FamilyKnown, SessionsFewer
<1>3. \A s \in Sids : Live(s)' => Live(s) /\ session'[s].family = session[s].family
  BY DEF Live, SessionsFewer
<1>4. late \subseteq late'
  BY DEF Steady
<1>5. Rotation'
  BY <1>3, <1>4 DEF OInv, Families, Rotation
<1>6. ASSUME NEW q \in Requests, InTime(q)'
      PROVE  /\ InTime(q) /\ req'[q].sid = req[q].sid
             /\ req[q].sid \in Sids /\ session'[req[q].sid].family = session[req[q].sid].family
             /\ q # r => /\ Doing(q, "session")' => Doing(q, "session")
                         /\ req[q].sid = req[r].sid => Doing(q, "session")
  <2>1. req'[q] # Idle /\ ~Overtaken(q, "session")'
    BY <1>6 DEF InTime, Idle
  <2>2. /\ InTime(q) /\ req'[q].sid = req[q].sid
        /\ req[q].sid \in Sids /\ session'[req[q].sid].family = session[req[q].sid].family
    BY <1>6, InTimeBefore DEF SessionsFewer
  <2>3. q # r => (Doing(q, "session")' => Doing(q, "session"))
    BY DEF Doing
  <2>4. q # r /\ req[q].sid = req[r].sid => Doing(q, "session")
    <3>1. q \notin RevokingToo(r)
      BY <2>1
    <3>2. req[q].op = "refresh"
      BY <2>2 DEF InTime
    <3> QED BY <3>1, <3>2, RefreshStages DEF RevokingToo
  <2> QED BY <2>2, <2>3, <2>4
<1>7. ASSUME NEW p \in Requests, InTime(p)' PROVE Replaces(p)'
  <2>1. Replaces(p) /\ InTime(p)
    BY <1>6, <1>7 DEF OInv, Families
  <2>2. ASSUME NEW s \in Sids \ late', Live(s)',
               session'[s].family = session'[req'[p].sid].family
        PROVE  s = req'[p].sid /\ ~Doing(p, "session")'
    <3>1. s = req[p].sid /\ ~Doing(p, "session")
      BY <1>3, <1>4, <1>6, <1>7, <2>1, <2>2 DEF Replaces
    <3>2. p # r
      <4>1. p = r => s = sid
        BY <3>1
      <4> QED BY <2>2, <4>1
    <3>3. ~Doing(p, "session")' /\ req'[p].sid = req[p].sid
      <4>1. Doing(p, "session")' => Doing(p, "session")
        BY <1>6, <1>7, <3>2
      <4> QED BY <1>6, <1>7, <3>1, <4>1
    <3> QED BY <3>1, <3>3
  <2>3. ASSUME NEW q \in Requests \ {p}, InTime(q)',
               session'[req'[q].sid].family = session'[req'[p].sid].family
        PROVE  req'[q].sid = req'[p].sid /\ ~Doing(p, "session")'
    <3>1. InTime(q) /\ session[req[q].sid].family = session[req[p].sid].family
      BY <1>6, <1>7, <2>3
    <3>2. req[q].sid = req[p].sid /\ ~Doing(p, "session")
      BY <2>1, <3>1 DEF Replaces
    <3>3. Replaces(q)
      BY DEF OInv, Families
    <3>4. ~Doing(q, "session")
      BY <2>1, <3>1, <3>3 DEF Replaces
    <3>5. p # r
      BY <1>6, <2>3, <3>2, <3>4
    <3> QED BY <1>6, <1>7, <2>3, <3>2, <3>5
  <2> QED BY <2>2, <2>3 DEF Replaces
<1>8. \A p \in Requests : Replaces(p)'
  BY <1>7 DEF Replaces
<1> QED BY <1>2, <1>5, <1>8 DEF Families

\* A session is opened, in a login of its own or as the only one in time of the
\* login it goes on.
LEMMA OpenFamilies ==
  ASSUME OInv, Steady, NEW r \in Requests, req'[r] = Idle,
         \A q \in Requests : q # r => req'[q] = req[q],
         NEW s \in Sids, session[s] = None, session'[s] # None,
         \A v \in Sids : v # s => session'[v] = session[v],
         NEW family \in Sids, session'[s].family = family,
         \/ family = s
         \/ /\ req[r].op = "refresh" /\ Doing(r, "session")
            /\ family = session[req[r].sid].family
            /\ InTime(r) \/ s \in late'
  PROVE  Families'
<1>1. \A v \in Sids : session[v] # None =>
        session[v].family \in Sids /\ session[session[v].family] # None
  BY Rows DEF OInv, Families, FamilyKnown, Session
<1>2. req[r].op = "refresh" => req[r].sid \in Sids /\ session[req[r].sid] # None
  BY RefreshStages
<1>3. FamilyKnown'
  <2>1. family = s \/ session[family] # None
    BY <1>1, <1>2
  <2> QED BY <1>1, <2>1 DEF FamilyKnown
<1>4. late \subseteq late'
  BY DEF Steady
<1>5. s \notin late' =>
        /\ \A v \in Sids \ late : v # s /\ Live(v) => session[v].family # family
        /\ \A q \in Requests \ {r} : InTime(q) => session[req[q].sid].family # family
  <2>1. CASE family = s
    <3>1. \A q \in Requests : InTime(q) => req[q].sid \in Sids /\ session[req[q].sid] # None
      BY RefreshStages DEF InTime
    <3> QED BY <1>1, <2>1, <3>1 DEF Live
  <2>2. CASE /\ req[r].op = "refresh" /\ Doing(r, "session")
             /\ family = session[req[r].sid].family /\ InTime(r)
    BY <2>2 DEF OInv, Families, Replaces
  <2> QED BY <2>1, <2>2
<1>6. \A v \in Sids : Live(v)' /\ v # s => Live(v) /\ session'[v].family = session[v].family
  BY DEF Live
<1>7. Rotation'
  BY <1>4, <1>5, <1>6 DEF OInv, Families, Rotation
<1>8. ASSUME NEW q \in Requests, InTime(q)'
      PROVE  /\ q # r /\ InTime(q) /\ req'[q] = req[q] /\ req[q].sid \in Sids
             /\ session'[req[q].sid] = session[req[q].sid] /\ req[q].sid # s
  <2>1. q # r
    BY <1>8 DEF InTime, Idle
  <2> QED BY <1>8, <2>1, InTimeBefore
<1>9. ASSUME NEW p \in Requests, InTime(p)' PROVE Replaces(p)'
  <2>1. Replaces(p) /\ InTime(p) /\ p # r
    BY <1>8, <1>9 DEF OInv, Families
  <2>2. ASSUME NEW v \in Sids \ late', Live(v)',
               session'[v].family = session'[req'[p].sid].family
        PROVE  v = req'[p].sid /\ ~Doing(p, "session")'
    <3>1. session'[v].family = session[req[p].sid].family
      BY <1>8, <1>9, <2>2
    <3>2. v # s
      BY <1>5, <2>1, <2>2, <3>1
    <3>3. v = req[p].sid /\ ~Doing(p, "session")
      BY <1>4, <1>6, <2>1, <2>2, <3>1, <3>2 DEF Replaces
    <3> QED BY <1>8, <1>9, <3>3 DEF Doing
  <2>3. ASSUME NEW q \in Requests \ {p}, InTime(q)',
               session'[req'[q].sid].family = session'[req'[p].sid].family
        PROVE  req'[q].sid = req'[p].sid /\ ~Doing(p, "session")'
    <3>1. InTime(q) /\ session[req[q].sid].family = session[req[p].sid].family
      BY <1>8, <1>9, <2>3
    <3>2. req[q].sid = req[p].sid /\ ~Doing(p, "session")
      BY <2>1, <3>1 DEF Replaces
    <3> QED BY <1>8, <1>9, <2>3, <3>2 DEF Doing
  <2> QED BY <2>2, <2>3 DEF Replaces
<1>10. \A p \in Requests : Replaces(p)'
  BY <1>9 DEF Replaces
<1> QED BY <1>3, <1>7, <1>10 DEF Families

-----------------------------------------------------------------------------
\* Tokens that only lose their use leave an account one link in time.
LEMMA LinksKept ==
  ASSUME OInv, Steady,
         \A t \in Tids : token'[t] = token[t] \/ token'[t].state # "active",
         \A q \in Requests : Doing(q, "create") \/ Doing(q, "invalidate") =>
           req'[q] \in {req[q], Idle} \/ NoneActive(q)'
  PROVE  Links'
<1>1. late \subseteq late'
  BY DEF Steady
<1>2. OneLink'
  BY <1>1 DEF OInv, Links, OneLink
<1>3. ASSUME NEW q \in Requests, Doing(q, "token")', ~Overtaken(q, "token")', ~NoneActive(q)'
      PROVE  Doing(q, "token") /\ ~Overtaken(q, "token") /\ req'[q] = req[q]
  <2>1. req'[q] # Idle
    BY <1>3 DEF Doing, Idle
  <2>2. req'[q] = req[q]
    <3>1. ASSUME req[q].todo # <<>>, Goes(q), req'[q] # req[q] PROVE FALSE
      <4>1. Head(req[q].todo) \in {"create", "invalidate"}
        BY <1>3, <2>1, <3>1 DEF Goes, Follows, Doing
      <4> QED BY <1>3, <2>1, <3>1, <4>1 DEF Doing
    <3> QED BY <3>1 DEF Steady
  <2>3. ~Overtaken(q, "token")
    <3>1. <<q, "token">> \in overtaken => <<q, "token">> \in overtaken'
      BY <2>1 DEF Steady
    <3> QED BY <1>3, <3>1 DEF Overtaken
  <2> QED BY <1>3, <2>2, <2>3 DEF Doing
<1>4. ASSUME NEW q \in Requests PROVE NoneActive(q)'
  <2>1. NoneActive(q)
    BY DEF OInv, Links
  <2> QED BY <1>1, <1>3, <2>1 DEF NoneActive
<1> QED BY <1>2, <1>4 DEF Links

\* A copy that is fresh is so while nobody writes the row.
LEMMA CopyKept ==
  ASSUME OInv, Steady, NEW q \in Requests, user'[req[q].id] = user[req[q].id],
         Doing(q, "create") \/ Doing(q, "user") => req'[q] \in {req[q], Idle}
  PROVE  CopyFresh(q)'
<1> SUFFICES ASSUME Copy(q)'
    PROVE  /\ user'[req'[q].id].verified => req'[q].row.verified
           /\ req'[q].op \in {"register", "login", "verify", "profile"} =>
                /\ req'[q].row.active = user'[req'[q].id].active
                /\ req'[q].row.password = user'[req'[q].id].password
  BY DEF CopyFresh
<1>1. req'[q] # Idle /\ ~Overtaken(q, "user")'
  BY DEF Copy
<1>2. ~Overtaken(q, "user")
  <2>1. <<q, "user">> \in overtaken => <<q, "user">> \in overtaken'
    BY <1>1 DEF Steady
  <2> QED BY <1>1, <2>1 DEF Overtaken
<1>3. CopyFresh(q)
  BY DEF OInv, Currents
<1>4. CASE req'[q] = req[q]
  BY <1>1, <1>2, <1>3, <1>4 DEF Copy, CopyFresh
<1>5. CASE req'[q] # req[q] /\ req[q].todo # <<>> /\ Goes(q)
  <2>1. req[q] # Idle
    BY <1>5 DEF Idle
  <2>2. Head(req[q].todo) \notin {"create", "user"}
    BY <1>1, <1>5 DEF Doing
  <2>3. Copy(q)
    BY <1>1, <1>2, <1>5, <2>1, <2>2 DEF Copy, Goes
  <2> QED BY <1>1, <1>3, <1>5, <2>2, <2>3 DEF CopyFresh, Goes
<1> QED BY <1>4, <1>5 DEF Steady

\* A login that goes on is of an active user.
LEMMA LoginKept ==
  ASSUME OInv, Steady, NEW q \in Requests
  PROVE  LoginActive(q)'
<1>1. LoginActive(q)
  BY DEF OInv, Currents
<1>2. CASE req'[q] = req[q] \/ req'[q] = Idle
  BY <1>1, <1>2 DEF LoginActive, Idle
<1>3. CASE req'[q] # req[q] /\ req'[q] # Idle
  <2>1. req[q].todo # <<>> /\ Goes(q)
    BY <1>3 DEF Steady
  <2>2. req[q] # Idle
    BY <2>1 DEF Idle
  <2>3. Belongs(Head(req[q].todo), req[q].op)
    BY <2>2, Busy DEF OInv
  <2> QED BY <1>1, <1>3, <2>1, <2>3 DEF LoginActive, Goes, Belongs
<1> QED BY <1>2, <1>3

\* A session that stands in time stood before.
LEMMA StandingBefore ==
  ASSUME OInv, Steady, NEW s \in Sids, s \notin late', Standing(s)', Live(s)' => Live(s)
  PROVE  /\ Standing(s) /\ Current(s) /\ session[s] # None
         /\ session[s].user \in Uids /\ user[session[s].user] # None
<1>1. s \notin late
  BY DEF Steady
<1>2. Standing(s) /\ session[s] # None
  <2>1. CASE Live(s)'
    BY <2>1 DEF Standing, Live
  <2>2. CASE \E r \in Requests : InTime(r)' /\ req'[r].sid = s
    BY <2>2, InTimeBefore DEF Standing
  <2> QED BY <2>1, <2>2 DEF Standing
<1> QED BY <1>1, <1>2, Rows DEF OInv, Currents

\* And it is current as long as its user stays so and the revocation stays due.
LEMMA StandingKept ==
  ASSUME OInv, Steady, NEW s \in Sids, s \notin late', Standing(s)', Live(s)' => Live(s),
         session'[s].user = session[s].user, session'[s].password = session[s].password,
         NEW u, u = session[s].user,
         user'[u].active = user[u].active, user'[u].password = user[u].password,
         RevokingAll(u) => RevokingAll(u)'
  PROVE  Current(s)'
BY StandingBefore DEF Current

\* A revocation that is due stays so until it is done or cut off.
LEMMA RevokingKept ==
  ASSUME NEW u, \A q \in Requests : Doing(q, "revoke_all") /\ req[q].id = u => req'[q] = req[q]
  PROVE  RevokingAll(u) => RevokingAll(u)'
BY DEF RevokingAll, Doing

\* Sessions that only end, of users that stay as they are.
LEMMA CurrentsKept ==
  ASSUME OInv, Steady, SessionsFewer, user' = user,
         \A q \in Requests : Doing(q, "create") \/ Doing(q, "user") => req'[q] \in {req[q], Idle},
         \A q \in Requests : Doing(q, "revoke_all") => req'[q] = req[q]
  PROVE  Currents'
<1>1. ASSUME NEW s \in Sids \ late', Standing(s)' PROVE Current(s)'
  <2>1. Live(s)' => Live(s)
    BY DEF SessionsFewer, Live
  <2>2. session[s] # None
    BY <1>1, <2>1, StandingBefore
  <2>3. session'[s].user = session[s].user /\ session'[s].password = session[s].password
    BY <2>2 DEF SessionsFewer
  <2>4. PICK u : u = session[s].user
    OBVIOUS
  <2>5. RevokingAll(u) => RevokingAll(u)'
    BY RevokingKept
  <2> QED BY <1>1, <2>1, <2>3, <2>4, <2>5, StandingKept
<1>2. \A q \in Requests : CopyFresh(q)' /\ LoginActive(q)'
  BY CopyKept, LoginKept
<1> QED BY <1>1, <1>2 DEF Currents

-----------------------------------------------------------------------------
\* Each statement keeps what is said of the links and sessions in time.
LEMMA CreateUserInTime ==
  ASSUME OInv, IInv', NEW r \in Requests, CreateUser(r)
  PROVE  OInv'
<1>1. /\ Doing(r, "create") /\ user' = [user EXCEPT ![req[r].id] = req[r].row]
      /\ session' = session /\ token' = token
  BY DEF CreateUser
<1>2. Steady /\ Goes(r) /\ \A q \in Requests : q # r => req'[q] = req[q]
  BY StatementSteady DEF Statement
<1>3. PICK u \in Uids, row \in User : u = req[r].id /\ row = req[r].row
  BY <1>1, StatementAbout
<1>4. user[u] = None /\ Head(req[r].todo) = "create"
  BY <1>1, <1>3, StatementAbout DEF RowCurrent
<1>5. user'[u] = row /\ \A v \in Uids : v # u => user'[v] = user[v]
  BY <1>1, <1>3 DEF OInv, IInv, TypeOK
<1>6. req'[r] # Idle => req'[r].id = u /\ req'[r].row = row
  BY <1>2, <1>3, <1>4 DEF Goes
<1>7. Links'
  <2>1. \A t \in Tids : token'[t] # None => token'[t].user # u
    BY <1>1, <1>4, Rows DEF OInv
  <2>2. NoneActive(r)'
    BY <1>6, <2>1 DEF NoneActive, Doing, Idle
  <2>3. \A q \in Requests : req'[q] = req[q] \/ NoneActive(q)'
    BY <1>2, <2>2
  <2> QED BY <1>1, <1>2, <2>3, LinksKept
<1>8. Families'
  <2>1. \A q \in Requests : Doing(q, "revoke") => req'[q] = req[q]
    BY <1>2, <1>4 DEF Doing
  <2> QED BY <1>1, <1>2, <2>1, SameSessions, FamiliesKept
<1>9. ASSUME NEW s \in Sids \ late', Standing(s)' PROVE Current(s)'
  <2>1. Live(s)' => Live(s)
    BY <1>1 DEF Live
  <2>2. PICK v \in Uids : v = session[s].user /\ user[v] # None
    BY <1>2, <1>9, <2>1, StandingBefore
  <2>3. user'[v] = user[v]
    BY <1>4, <1>5, <2>2
  <2>4. RevokingAll(v) => RevokingAll(v)'
    <3>1. \A q \in Requests : Doing(q, "revoke_all") => req'[q] = req[q]
      BY <1>2, <1>4 DEF Doing
    <3> QED BY <3>1, RevokingKept
  <2> QED BY <1>1, <1>2, <1>9, <2>1, <2>2, <2>3, <2>4, StandingKept
<1>10. ASSUME NEW q \in Requests PROVE CopyFresh(q)'
  <2>1. CASE q = r
    BY <1>5, <1>6, <2>1 DEF CopyFresh, Copy
  <2>2. CASE q # r /\ (req[q] = Idle \/ Head(req[q].todo) = "create")
    BY <1>2, <2>2 DEF CopyFresh, Copy
  <2>3. CASE q # r /\ req[q] # Idle /\ Head(req[q].todo) # "create"
    <3>1. req[q].id \in Uids /\ user[req[q].id] # None
      BY <2>3, Busy DEF OInv, IInv, RequestSound, RowCurrent, InFlight
    <3>2. user'[req[q].id] = user[req[q].id]
      BY <1>4, <1>5, <3>1
    <3> QED BY <1>2, <2>3, <3>2, CopyKept
  <2> QED BY <2>1, <2>2, <2>3
<1>11. Currents'
  BY <1>2, <1>9, <1>10, LoginKept DEF Currents
<1> QED BY <1>2, <1>7, <1>8, <1>11 DEF OInv, Steady

\* The statements about tokens and mails.
LEMMA TokensInTime ==
  ASSUME OInv, IInv', NEW r \in Requests, Statement(r),
         NEW stage \in {"token", "mail", "mark", "invalidate"}, Doing(r, stage),
         user' = user, session' = session, Links'
  PROVE  OInv'
<1>1. Steady /\ \A q \in Requests : q # r => req'[q] = req[q]
  BY StatementSteady
<1>2. \A q \in Requests, other \in {"create", "user", "revoke", "revoke_all"} :
        Doing(q, other) => req'[q] = req[q]
  BY <1>1 DEF Doing
<1>3. Families'
  BY <1>1, <1>2, SameSessions, FamiliesKept
<1>4. Currents'
  BY <1>1, <1>2, SameSessions, CurrentsKept
<1> QED BY <1>1, <1>3, <1>4 DEF OInv, Steady

\* A token is stored when no other is usable, and overtakes who would store
\* another.
LEMMA StoreTokenInTime ==
  ASSUME OInv, IInv', NEW r \in Requests, StoreToken(r)
  PROVE  OInv'
<1>1. /\ Doing(r, "token") /\ user' = user /\ session' = session
      /\ Overtake({<<q, "token">> : q \in StoringToo(r)})
  BY DEF StoreToken
<1>2. PICK t \in Tids :
        /\ token[t] = None
        /\ token' = [token EXCEPT ![t] = [user |-> req[r].id, purpose |-> Purpose(req[r].op),
                                          state |-> "active"]]
        /\ late' = IF Overtaken(r, "token") THEN late \cup {t} ELSE late
  BY DEF StoreToken
<1>3. /\ \A v \in Tids : v # t => token'[v] = token[v]
      /\ token'[t].user = req[r].id /\ token'[t].purpose = Purpose(req[r].op)
  BY <1>2 DEF OInv, IInv, TypeOK
<1>4. t \notin late' => ~Overtaken(r, "token")
  BY <1>2
<1>5. t \notin late' =>
        \A v \in Tids \ late : token[v] # None /\ token[v].state = "active" =>
          token[v].user # req[r].id \/ token[v].purpose # Purpose(req[r].op)
  BY <1>1, <1>4, StatementAbout DEF NoneActive
<1>6. late \subseteq late'
  BY <1>2
<1>7. OneLink'
  BY <1>3, <1>5, <1>6 DEF OInv, Links, OneLink
<1>8. /\ Steady /\ Goes(r) /\ Head(req[r].todo) = "token"
      /\ \A q \in Requests : q # r => req'[q] = req[q]
  BY <1>1, StatementSteady, StatementAbout DEF Statement
<1>9. ASSUME NEW q \in Requests, Doing(q, "token")', ~Overtaken(q, "token")'
      PROVE  /\ q # r /\ req'[q] = req[q] /\ Doing(q, "token") /\ ~Overtaken(q, "token")
             /\ req[q].id # req[r].id \/ Purpose(req[q].op) # Purpose(req[r].op)
  <2>1. req'[q] # Idle
    BY <1>9 DEF Doing, Idle
  <2>2. q # r
    BY <1>8, <1>9, <2>1 DEF Goes, Follows, Doing
  <2>3. req'[q] = req[q] /\ Doing(q, "token")
    BY <1>8, <1>9, <2>2 DEF Doing
  <2>4. /\ <<q, "token">> \in overtaken => <<q, "token">> \in overtaken'
        /\ q \in StoringToo(r) => <<q, "token">> \in overtaken'
    BY <1>1, <2>1, OvertakeSteady
  <2>5. ~Overtaken(q, "token") /\ q \notin StoringToo(r)
    BY <1>9, <2>4 DEF Overtaken
  <2> QED BY <2>2, <2>3, <2>5 DEF StoringToo
<1>10. ASSUME NEW q \in Requests PROVE NoneActive(q)'
  <2> SUFFICES ASSUME Doing(q, "token")', ~Overtaken(q, "token")', NEW v \in Tids \ late',
                      token'[v] # None, token'[v].state = "active"
      PROVE  token'[v].user # req'[q].id \/ token'[v].purpose # Purpose(req'[q].op)
    BY DEF NoneActive, Purpose
  <2>1. /\ req'[q] = req[q] /\ Doing(q, "token") /\ ~Overtaken(q, "token")
        /\ req[q].id # req[r].id \/ Purpose(req[q].op) # Purpose(req[r].op)
    BY <1>9
  <2>2. CASE v = t
    BY <1>3, <2>1, <2>2
  <2>3. CASE v # t
    BY <1>3, <1>6, <2>1, <2>3 DEF OInv, Links, NoneActive
  <2> QED BY <2>2, <2>3
<1>11. Links'
  BY <1>7, <1>10 DEF Links
<1> QED BY <1>1, <1>11, TokensInTime DEF Statement

LEMMA QueueLinkInTime ==
  ASSUME OInv, IInv', NEW r \in Requests, QueueLink(r)
  PROVE  OInv'
<1>1. Doing(r, "mail") /\ user' = user /\ session' = session /\ token' = token
  BY DEF QueueLink
<1>2. Steady /\ \A q \in Requests : q # r => req'[q] = req[q]
  BY StatementSteady DEF Statement
<1>3. \A q \in Requests : Doing(q, "create") \/ Doing(q, "invalidate") => req'[q] = req[q]
  BY <1>1, <1>2 DEF Doing
<1>4. Links'
  BY <1>1, <1>2, <1>3, LinksKept
<1> QED BY <1>1, <1>4, TokensInTime DEF Statement

LEMMA MarkUsedInTime ==
  ASSUME OInv, IInv', NEW r \in Requests, MarkUsed(r)
  PROVE  OInv'
<1>1. /\ Doing(r, "mark") /\ user' = user /\ session' = session
      /\ token' = [token EXCEPT ![req[r].tid].state = "followed"]
  BY DEF MarkUsed
<1>2. Steady /\ \A q \in Requests : q # r => req'[q] = req[q]
  BY StatementSteady DEF Statement
<1>3. \A q \in Requests : Doing(q, "create") \/ Doing(q, "invalidate") => req'[q] = req[q]
  BY <1>1, <1>2 DEF Doing
<1>4. PICK t \in Tids : t = req[r].tid /\ token[t] # None
  BY <1>1, StatementAbout, Rows DEF TokenCurrent, Belongs, OInv
<1>5. token'[t].state = "followed" /\ \A v \in Tids : v # t => token'[v] = token[v]
  <2>1. token' = [token EXCEPT ![t] = [token[t] EXCEPT !.state = "followed"]]
    BY <1>1, <1>4
  <2> QED BY <1>4, <2>1, TokenRow DEF OInv, IInv, TypeOK
<1>6. Links'
  BY <1>2, <1>3, <1>5, LinksKept
<1> QED BY <1>1, <1>6, TokensInTime DEF Statement

\* After it the account has no usable token for the purpose.
LEMMA InvalidateInTime ==
  ASSUME OInv, IInv', NEW r \in Requests, Invalidate(r)
  PROVE  OInv'
<1>1. Doing(r, "invalidate") /\ user' = user /\ session' = session
  BY DEF Invalidate
<1>2. Steady /\ Goes(r) /\ \A q \in Requests : q # r => req'[q] = req[q]
  BY StatementSteady DEF Statement
<1>3. PICK u, purpose : u = req[r].id /\ purpose = Purpose(req[r].op)
  OBVIOUS
<1>4. \A t \in Tids :
        IF /\ token[t] # None /\ token[t].state \in {"active", "expired"}
           /\ token[t].user = u /\ token[t].purpose = purpose
          THEN token'[t].state = "void" ELSE token'[t] = token[t]
  BY <1>3, TokenRow DEF Invalidate, OInv
<1>5. \A t \in Tids : token'[t] # None /\ token'[t].state = "active" =>
        token'[t].user # u \/ token'[t].purpose # purpose
  BY <1>4
<1>6. NoneActive(r)'
  <2>1. req'[r] # Idle => req'[r].id = u /\ Purpose(req'[r].op) = purpose
    BY <1>2, <1>3 DEF Goes
  <2> QED BY <1>5, <2>1 DEF NoneActive, Doing, Idle, Purpose
<1>7. \A q \in Requests : req'[q] = req[q] \/ NoneActive(q)'
  BY <1>2, <1>6
<1>8. \A t \in Tids : token'[t] = token[t] \/ token'[t].state # "active"
  BY <1>4
<1>9. Links'
  BY <1>2, <1>7, <1>8, LinksKept
<1> QED BY <1>1, <1>9, TokensInTime DEF Statement

\* A session that is not late is opened with the password of an active user, or
\* with those of the session it replaces.
LEMMA IssueTokensInTime ==
  ASSUME OInv, IInv', NEW r \in Requests, IssueTokens(r)
  PROVE  OInv'
<1>1. Doing(r, "session") /\ user' = user /\ token' = token
  BY DEF IssueTokens
<1>2. Steady /\ Goes(r) /\ \A q \in Requests : q # r => req'[q] = req[q]
  BY StatementSteady DEF Statement
<1>3. PICK u \in Uids, row \in User : u = req[r].id /\ row = req[r].row
  BY <1>1, StatementAbout
<1>4. /\ req[r].op \in {"register", "login", "refresh"} /\ Head(req[r].todo) = "session"
      /\ Replaces(r) /\ CopyFresh(r) /\ LoginActive(r) /\ RowCurrent(r) /\ req[r] # Idle
  BY <1>1, StatementAbout DEF Belongs
<1>5. req'[r] = Idle
  BY <1>2, <1>4 DEF Goes, Follows
<1>6. PICK s \in Sids :
        /\ session[s] = None
        /\ session' = [session EXCEPT ![s] =
             IF req[r].op = "refresh" THEN [session[req[r].sid] EXCEPT !.live = TRUE]
             ELSE [user |-> req[r].id, password |-> req[r].row.password, live |-> TRUE,
                   family |-> s]]
        /\ late' = IF TooLate(r) THEN late \cup {s} ELSE late
  BY DEF IssueTokens
<1>7. PICK new \in Session :
        /\ session' = [session EXCEPT ![s] = new]
        /\ req[r].op # "refresh" => new.user = u /\ new.password = row.password /\ new.family = s
        /\ req[r].op = "refresh" =>
             /\ new.user = session[req[r].sid].user
             /\ new.password = session[req[r].sid].password
             /\ new.family = session[req[r].sid].family
  <2>1. CASE req[r].op = "refresh"
    <3>1. PICK old \in Session : old = session[req[r].sid]
      BY <2>1, RefreshStages, Rows DEF OInv
    <3> DEFINE new == [old EXCEPT !.live = TRUE]
    <3>2. /\ new \in Session /\ new.user = old.user /\ new.password = old.password
          /\ new.family = old.family
      BY DEF Session
    <3> QED BY <1>6, <2>1, <3>1, <3>2
  <2>2. CASE req[r].op # "refresh"
    <3> DEFINE new == [user |-> u, password |-> row.password, live |-> TRUE, family |-> s]
    <3>1. new \in Session /\ new.user = u /\ new.password = row.password /\ new.family = s
      BY DEF Session, User
    <3> QED BY <1>3, <1>6, <2>2, <3>1
  <2> QED BY <2>1, <2>2
<1>8. session'[s] = new /\ new # None /\ \A v \in Sids : v # s => session'[v] = session[v]
  BY <1>7, NoneIsNoValue DEF OInv, IInv, TypeOK
<1>9. Links'
  <2>1. \A q \in Requests : Doing(q, "create") \/ Doing(q, "invalidate") => req'[q] = req[q]
    BY <1>1, <1>2 DEF Doing
  <2> QED BY <1>1, <1>2, <2>1, LinksKept
<1>10. Families'
  <2>1. PICK family \in Sids : family = new.family
    BY DEF Session
  <2>2. CASE req[r].op # "refresh"
    <3>1. family = s /\ session'[s].family = family /\ session'[s] # None
      BY <1>7, <1>8, <2>1, <2>2
    <3> HIDE <1>3, <1>4, <1>6, <1>7, <2>1
    <3> QED BY <1>2, <1>5, <1>6, <1>8, <3>1, OpenFamilies
  <2>3. CASE req[r].op = "refresh"
    <3>1. family = session[req[r].sid].family /\ session'[s].family = family /\ session'[s] # None
      BY <1>7, <1>8, <2>1, <2>3
    <3>2. InTime(r) \/ s \in late'
      BY <1>6, <2>3 DEF InTime, TooLate
    <3> HIDE <1>3, <1>4, <1>6, <1>7, <2>1
    <3> QED BY <1>1, <1>2, <1>5, <1>6, <1>8, <2>3, <3>1, <3>2, OpenFamilies
  <2> QED BY <2>2, <2>3
<1>11. \A q \in Requests : Doing(q, "revoke_all") => req'[q] = req[q]
  BY <1>2, <1>4 DEF Doing
<1>12. \A v : RevokingAll(v) => RevokingAll(v)'
  BY <1>11, RevokingKept
<1>13. ASSUME s \notin late' PROVE Current(s)'
  <2>1. ~TooLate(r)
    BY <1>6, <1>13
  <2>2. CASE req[r].op # "refresh"
    <3>1. Copy(r)
      BY <1>4, <2>1, <2>2 DEF Copy, TooLate
    <3>2. row.active /\ user[u].active /\ row.password = user[u].password
      BY <1>3, <1>4, <2>2, <3>1 DEF CopyFresh, LoginActive
    <3> QED BY <1>1, <1>7, <1>8, <2>2, <3>2 DEF Current
  <2>3. CASE req[r].op = "refresh"
    <3>1. InTime(r)
      BY <2>1, <2>3 DEF InTime, TooLate
    <3>2. PICK v \in Sids : v = req[r].sid /\ v \notin late
      BY <2>3, <3>1, RefreshStages DEF InTime
    <3>3. Current(v)
      BY <3>1, <3>2 DEF OInv, Currents, Standing
    <3>4. session'[s].user = session[v].user /\ session'[s].password = session[v].password
      BY <1>7, <1>8, <2>3, <3>2
    <3> QED BY <1>1, <1>12, <3>3, <3>4 DEF Current
  <2> QED BY <2>2, <2>3
<1>14. ASSUME NEW v \in Sids \ late', Standing(v)' PROVE Current(v)'
  <2>1. CASE v = s
    BY <1>13, <1>14, <2>1
  <2>2. CASE v # s
    <3>1. session'[v] = session[v] /\ (Live(v)' => Live(v))
      BY <1>8, <2>2 DEF Live
    <3>2. PICK w : w = session[v].user
      OBVIOUS
    <3> HIDE <1>3, <1>4, <1>6, <1>7, <1>8
    <3> QED BY <1>1, <1>2, <1>12, <1>14, <3>1, <3>2, StandingKept
  <2> QED BY <2>1, <2>2
<1>15. \A q \in Requests : CopyFresh(q)'
  <2>1. \A q \in Requests : req'[q] \in {req[q], Idle}
    BY <1>2, <1>5
  <2> QED BY <1>1, <1>2, <2>1, CopyKept
<1>16. Currents'
  BY <1>2, <1>14, <1>15, LoginKept DEF Currents
<1> QED BY <1>2, <1>9, <1>10, <1>16 DEF OInv, Steady

\* The user is read again: the copy is fresh.
LEMMA FindUserInTime ==
  ASSUME OInv, IInv', NEW r \in Requests, FindUser(r)
  PROVE  OInv'
<1>1. Doing(r, "user") /\ user' = user /\ session' = session /\ token' = token
  BY DEF FindUser
<1>2. Steady /\ Goes(r) /\ \A q \in Requests : q # r => req'[q] = req[q]
  BY StatementSteady DEF Statement
<1>3. /\ req[r] \in InFlight /\ req[r].row \in User /\ req[r].id \in Uids
      /\ Head(req[r].todo) = "user" /\ req[r].todo # <<>> /\ RowCurrent(r)
      /\ req[r].op \in {"refresh", "verify", "reset"}
  BY <1>1, StatementAbout DEF Belongs
<1>4. \A q \in Requests, other \in {"create", "invalidate", "revoke", "revoke_all"} :
        Doing(q, other) => req'[q] = req[q]
  BY <1>2, <1>3 DEF Doing
<1>5. Links'
  BY <1>1, <1>2, <1>4, LinksKept
<1>6. Families'
  BY <1>1, <1>2, <1>4, SameSessions, FamiliesKept
<1>7. ASSUME NEW s \in Sids \ late', Standing(s)' PROVE Current(s)'
  <2>1. Live(s)' => Live(s)
    BY <1>1 DEF Live
  <2>2. PICK v : v = session[s].user
    OBVIOUS
  <2>3. RevokingAll(v) => RevokingAll(v)'
    BY <1>4, RevokingKept
  <2> QED BY <1>1, <1>2, <1>7, <2>1, <2>2, <2>3, StandingKept
<1>8. CopyFresh(r)'
  <2> SUFFICES ASSUME Copy(r)' PROVE CopyFresh(r)'
    BY DEF CopyFresh
  <2>1. /\ req'[r] # Idle /\ req'[r].todo # <<"mark">>
        /\ req'[r].id = req[r].id /\ req'[r].op = req[r].op
    BY <1>2 DEF Copy, Goes
  <2>2. Advance(r, Read(r), req[r].tid)
    <3>1. req' # [req EXCEPT ![r].todo = <<"mark">>]
      <4>1. PICK old \in InFlight : old = req[r]
        BY <1>3
      <4>2. [old EXCEPT !.todo = <<"mark">>].todo = <<"mark">>
        BY DEF InFlight
      <4> QED BY <2>1, <4>1, <4>2 DEF OInv, IInv, TypeOK
    <3> QED BY <3>1 DEF FindUser
  <2>3. PICK u \in Uids, found \in User : u = req[r].id /\ found = user[u]
    BY <1>3, Rows DEF OInv, RowCurrent
  <2>4. /\ Read(r) \in User /\ (found.verified => Read(r).verified)
        /\ Read(r).active = found.active
        /\ req[r].op # "reset" => Read(r).password = found.password
    BY <1>3, <2>3, ReadIsUser
  <2>5. PICK new \in User, t \in Tids \cup {None} : new = Read(r) /\ Advance(r, new, t)
    BY <1>3, <2>2, <2>4 DEF InFlight
  <2>6. req'[r].row = new
    BY <1>3, <2>1, <2>5, AdvanceGoes DEF OInv
  <2> QED BY <1>1, <1>3, <2>1, <2>3, <2>4, <2>5, <2>6 DEF CopyFresh
<1>9. ASSUME NEW q \in Requests PROVE CopyFresh(q)'
  <2>1. CASE q = r
    BY <1>8, <2>1
  <2>2. CASE q # r
    BY <1>1, <1>2, <2>2, CopyKept
  <2> QED BY <2>1, <2>2
<1>10. Currents'
  BY <1>2, <1>7, <1>9, LoginKept DEF Currents
<1> QED BY <1>2, <1>5, <1>6, <1>10 DEF OInv, Steady

\* A session that is revoked or expired is the same session otherwise.
LEMMA DeadRow ==
  ASSUME IInv, NEW s \in Sids, session[s] # None
  PROVE  LET dead == [session[s] EXCEPT !.live = FALSE]
         IN  /\ dead # None /\ ~dead.live /\ dead.user = session[s].user
             /\ dead.family = session[s].family /\ dead.password = session[s].password
<1>1. session[s] \in Session
  BY Rows
<1> DEFINE dead == [session[s] EXCEPT !.live = FALSE]
<1>2. dead \in Session
  BY <1>1 DEF Session
<1>3. dead # None
  BY <1>2, NoneIsNoValue
<1>4. /\ ~dead.live /\ dead.user = session[s].user
      /\ dead.family = session[s].family /\ dead.password = session[s].password
  BY <1>1 DEF Session
<1> QED BY <1>3, <1>4

LEMMA OneEnds ==
  ASSUME IInv, NEW s \in Sids, session[s] # None,
         session' = [session EXCEPT ![s].live = FALSE]
  PROVE  SessionsFewer /\ ~Live(s)'
<1>1. session' = [session EXCEPT ![s] = [session[s] EXCEPT !.live = FALSE]]
  OBVIOUS
<1>2. PICK dead : dead = [session[s] EXCEPT !.live = FALSE]
  OBVIOUS
<1>3. /\ dead # None /\ ~dead.live /\ dead.user = session[s].user
      /\ dead.family = session[s].family /\ dead.password = session[s].password
  BY <1>2, DeadRow
<1>4. session'[s] = dead /\ \A v \in Sids : v # s => session'[v] = session[v]
  BY <1>1, <1>2 DEF IInv, TypeOK
<1> HIDE <1>1, <1>2
<1> QED BY <1>3, <1>4 DEF SessionsFewer, Live

LEMMA RevokeInTime ==
  ASSUME OInv, IInv', NEW r \in Requests, Revoke(r)
  PROVE  OInv'
<1>1. /\ Doing(r, "revoke") /\ user' = user /\ token' = token
      /\ session' = [session EXCEPT ![req[r].sid].live = FALSE]
      /\ Overtake({<<q, "session">> : q \in RevokingToo(r)})
  BY DEF Revoke
<1>2. Steady /\ \A q \in Requests : q # r => req'[q] = req[q]
  BY StatementSteady DEF Statement
<1>3. PICK sid \in Sids : sid = req[r].sid /\ session[sid] # None
  BY <1>1, StatementAbout DEF TokenCurrent, Belongs
<1>4. SessionsFewer /\ ~Live(sid)'
  <2>1. session' = [session EXCEPT ![sid].live = FALSE]
    BY <1>1, <1>3
  <2> QED BY <1>3, <2>1, OneEnds DEF OInv
<1>5. \A q \in RevokingToo(r) : req'[q] # Idle => Overtaken(q, "session")'
  BY <1>1, OvertakeSteady DEF Overtaken
<1>6. Families'
  BY <1>1, <1>2, <1>3, <1>4, <1>5, RevokeFamilies
<1>7. \A q \in Requests, other \in {"create", "invalidate", "user", "revoke_all"} :
        Doing(q, other) => req'[q] = req[q]
  BY <1>1, <1>2 DEF Doing
<1>8. Links'
  BY <1>1, <1>2, <1>7, LinksKept
<1>9. Currents'
  BY <1>1, <1>2, <1>4, <1>7, CurrentsKept
<1> QED BY <1>2, <1>6, <1>8, <1>9 DEF OInv, Steady

\* The row is written back as it is, or the sessions are about to be revoked,
\* or they are late.
LEMMA UpdateUserInTime ==
  ASSUME OInv, IInv', NEW r \in Requests, UpdateUser(r)
  PROVE  OInv'
<1>1. /\ Doing(r, "update") /\ user' = [user EXCEPT ![req[r].id] = req[r].row]
      /\ session' = session /\ token' = token
      /\ late' = IF Overtaken(r, "user") THEN late \cup SessionsOf(req[r].id) ELSE late
      /\ Overtake({<<q, "user">> : q \in Holding(r)})
  BY DEF UpdateUser
<1>2. Steady /\ Goes(r) /\ \A q \in Requests : q # r => req'[q] = req[q]
  BY StatementSteady DEF Statement
<1>3. PICK u \in Uids, row \in User : u = req[r].id /\ row = req[r].row
  BY <1>1, StatementAbout
<1>4. /\ Head(req[r].todo) = "update" /\ req[r].todo # <<>> /\ req[r] # Idle /\ CopyFresh(r)
      /\ req[r].op \in {"verify", "reset", "suspend", "profile"}
  BY <1>1, StatementAbout DEF Belongs
<1>5. user'[u] = row /\ \A v \in Uids : v # u => user'[v] = user[v]
  BY <1>1, <1>3 DEF OInv, IInv, TypeOK
<1>6. \A q \in Requests, other \in {"create", "invalidate", "user", "revoke", "revoke_all"} :
        Doing(q, other) => req'[q] = req[q]
  BY <1>2, <1>4 DEF Doing
<1>7. Links'
  BY <1>1, <1>2, <1>6, LinksKept
<1>8. Families'
  BY <1>1, <1>2, <1>6, SameSessions, FamiliesKept
<1>9. \A v : RevokingAll(v) => RevokingAll(v)'
  BY <1>6, RevokingKept
<1>10. ASSUME NEW s \in Sids \ late', Standing(s)' PROVE Current(s)'
  <2>1. Live(s)' => Live(s)
    BY <1>1 DEF Live
  <2>2. PICK v \in Uids : v = session[s].user /\ session[s] # None
    BY <1>2, <1>10, <2>1, StandingBefore
  <2>3. CASE v # u \/ (row.active = user[u].active /\ row.password = user[u].password)
    <3>1. user'[v].active = user[v].active /\ user'[v].password = user[v].password
      BY <1>5, <2>2, <2>3
    <3> QED BY <1>1, <1>2, <1>9, <1>10, <2>1, <2>2, <3>1, StandingKept
  <2>4. CASE v = u /\ ~(row.active = user[u].active /\ row.password = user[u].password)
    <3>1. ~Overtaken(r, "user")
      BY <1>1, <1>3, <1>10, <2>2, <2>4 DEF SessionsOf
    <3>2. Copy(r)
      <4>1. Head(<<"mark">>) = "mark"
        OBVIOUS
      <4> QED BY <1>4, <3>1, <4>1 DEF Copy
    <3>3. req[r].op \in {"reset", "suspend"}
      BY <1>3, <1>4, <2>4, <3>2 DEF CopyFresh
    <3>4. PICK t \in Tids \cup {None} : Advance(r, row, t)
      BY <1>3 DEF UpdateUser
    <3>5. req'[r] # Idle
      BY <1>3, <1>4, <3>3, <3>4, AdvanceGoes DEF OInv
    <3>6. Doing(r, "revoke_all")' /\ req'[r].id = u
      BY <1>2, <1>3, <1>4, <3>5 DEF Goes, Follows, Doing
    <3>7. RevokingAll(u)'
      BY <3>6 DEF RevokingAll
    <3> QED BY <1>1, <2>2, <2>4, <3>7 DEF Current
  <2> QED BY <2>3, <2>4
<1>11. ASSUME NEW q \in Requests PROVE CopyFresh(q)'
  <2>1. CASE q = r
    <3>1. req'[r] # Idle => req'[r].id = u /\ req'[r].row = row
      BY <1>2, <1>3, <1>4 DEF Goes
    <3> QED BY <1>5, <2>1, <3>1 DEF CopyFresh, Copy
  <2>2. CASE q # r /\ req[q].id = u
    <3> SUFFICES ASSUME Copy(q)' PROVE FALSE
      BY DEF CopyFresh
    <3>1. req'[q] = req[q] /\ req[q] # Idle /\ Head(req[q].todo) # "user"
      BY <1>2, <2>2 DEF Copy
    <3>2. q \in Holding(r)
      BY <1>3, <2>2, <3>1 DEF Holding, Doing
    <3>3. <<q, "user">> \in overtaken'
      BY <1>1, <3>1, <3>2, OvertakeSteady
    <3> QED BY <3>3 DEF Copy, Overtaken
  <2>3. CASE q # r /\ req[q].id # u
    <3>1. CASE req[q] = Idle
      BY <1>2, <2>3, <3>1 DEF CopyFresh, Copy
    <3>2. CASE req[q] # Idle
      <4>1. req[q].id \in Uids
        BY <3>2, Busy DEF OInv, InFlight
      <4>2. user'[req[q].id] = user[req[q].id]
        BY <1>5, <2>3, <4>1
      <4> QED BY <1>2, <2>3, <4>2, CopyKept
    <3> QED BY <3>1, <3>2
  <2> QED BY <2>1, <2>2, <2>3
<1>12. Currents'
  BY <1>2, <1>10, <1>11, LoginKept DEF Currents
<1> QED BY <1>2, <1>7, <1>8, <1>12 DEF OInv, Steady

\* After it no session of the user stands, but for late ones.
LEMMA RevokeAllInTime ==
  ASSUME OInv, IInv', NEW r \in Requests, RevokeAll(r)
  PROVE  OInv'
<1>1. /\ Doing(r, "revoke_all") /\ user' = user /\ token' = token
      /\ Overtake({<<q, "session">> : q \in Renewing(r)})
  BY DEF RevokeAll
<1>2. Steady /\ \A q \in Requests : q # r => req'[q] = req[q]
  BY StatementSteady DEF Statement
<1>3. PICK u \in Uids : u = req[r].id
  BY <1>1, StatementAbout
<1>4. req[r].op # "refresh"
  BY <1>1, StatementAbout DEF Belongs
<1>5. \A s \in Sids : /\ session'[s] = None <=> session[s] = None
                      /\ session[s] # None =>
                           /\ session'[s].user = session[s].user
                           /\ session'[s].family = session[s].family
                           /\ session'[s].password = session[s].password
                           /\ session'[s].live => session[s].live /\ session[s].user # u
  BY <1>3, DeadRow DEF RevokeAll, SessionsOf, OInv
<1>6. SessionsFewer
  BY <1>5 DEF SessionsFewer
<1>7. \A q \in Requests, other \in {"create", "invalidate", "user", "revoke"} :
        Doing(q, other) => req'[q] = req[q]
  BY <1>1, <1>2 DEF Doing
<1>8. Links'
  BY <1>1, <1>2, <1>7, LinksKept
<1>9. Families'
  BY <1>2, <1>6, <1>7, FamiliesKept
<1>10. ASSUME NEW s \in Sids \ late', Standing(s)' PROVE Current(s)'
  <2>1. (Live(s)' => Live(s)) /\ session[s] # None
    <3>1. Live(s)' => Live(s)
      BY <1>5 DEF Live
    <3> QED BY <1>2, <1>10, <3>1, StandingBefore
  <2>2. PICK v : v = session[s].user
    OBVIOUS
  <2>3. v # u
    <3> SUFFICES ASSUME v = u PROVE FALSE
      OBVIOUS
    <3>1. ~Live(s)'
      BY <1>5, <2>2 DEF Live
    <3>2. PICK q \in Requests : InTime(q)' /\ req'[q].sid = s
      BY <1>10, <3>1 DEF Standing
    <3>3. InTime(q) /\ req[q].sid = s
      BY <1>2, <3>2, InTimeBefore
    <3>4. q # r /\ req[q] # Idle /\ req'[q] # Idle
      BY <1>4, <3>2, <3>3 DEF InTime, Idle
    <3>5. q \in Renewing(r)
      BY <1>3, <2>1, <2>2, <3>3, <3>4 DEF Renewing, SessionsOf
    <3>6. <<q, "session">> \in overtaken'
      BY <1>1, <3>4, <3>5, OvertakeSteady
    <3> QED BY <3>2, <3>6 DEF InTime, Overtaken
  <2>4. RevokingAll(v) => RevokingAll(v)'
    <3>1. \A q \in Requests : Doing(q, "revoke_all") /\ req[q].id = v => req'[q] = req[q]
      BY <1>2, <1>3, <2>3
    <3> QED BY <3>1, RevokingKept
  <2>5. session'[s].user = session[s].user /\ session'[s].password = session[s].password
    BY <1>5, <2>1
  <2> HIDE <1>5
  <2> QED BY <1>1, <1>2, <1>10, <2>1, <2>2, <2>4, <2>5, StandingKept
<1>11. \A q \in Requests : CopyFresh(q)'
  BY <1>1, <1>2, <1>7, CopyKept
<1>12. Currents'
  BY <1>2, <1>10, <1>11, LoginKept DEF Currents
<1> QED BY <1>2, <1>8, <1>9, <1>12 DEF OInv, Steady

\* A request that ends before its revocation leaves the sessions of its user
\* late.
LEMMA AbandonInTime ==
  ASSUME OInv, IInv', NEW r \in Requests, Abandon(r)
  PROVE  OInv'
<1>1. /\ req[r] # Idle /\ req' = [req EXCEPT ![r] = Idle]
      /\ late' = IF Doing(r, "revoke_all") THEN late \cup SessionsOf(req[r].id) ELSE late
      /\ Overtake({}) /\ user' = user /\ session' = session /\ token' = token
  BY DEF Abandon
<1>2. req'[r] = Idle /\ \A q \in Requests : q # r => req'[q] = req[q]
  BY <1>1 DEF OInv, IInv, TypeOK
<1>3. Steady
  <2>1. req[r].todo # <<>>
    BY <1>1, Busy DEF OInv
  <2>2. (\A h \in overtaken : req'[h[1]] # Idle => h \in overtaken') /\ Clean'
    BY <1>1, OvertakeSteady
  <2> QED BY <1>1, <1>2, <2>1, <2>2 DEF Steady, Goes
<1>4. \A q \in Requests : req'[q] \in {req[q], Idle}
  BY <1>2
<1>5. Links'
  BY <1>1, <1>3, <1>4, LinksKept
<1>6. Families'
  BY <1>1, <1>3, <1>4, SameSessions, FamiliesKept
<1>7. ASSUME NEW s \in Sids \ late', Standing(s)' PROVE Current(s)'
  <2>1. (Live(s)' => Live(s)) /\ session[s] # None
    <3>1. Live(s)' => Live(s)
      BY <1>1 DEF Live
    <3> QED BY <1>3, <1>7, <3>1, StandingBefore
  <2>2. PICK v : v = session[s].user
    OBVIOUS
  <2>3. Doing(r, "revoke_all") => req[r].id # v
    BY <1>1, <1>7, <2>1, <2>2 DEF SessionsOf
  <2>4. RevokingAll(v) => RevokingAll(v)'
    <3>1. \A q \in Requests : Doing(q, "revoke_all") /\ req[q].id = v => req'[q] = req[q]
      BY <1>2, <2>3
    <3> QED BY <3>1, RevokingKept
  <2> QED BY <1>1, <1>3, <1>7, <2>1, <2>2, <2>4, StandingKept
<1>8. \A q \in Requests : CopyFresh(q)'
  BY <1>1, <1>3, <1>4, CopyKept
<1>9. Currents'
  BY <1>3, <1>7, <1>8, LoginKept DEF Currents
<1> QED BY <1>3, <1>5, <1>6, <1>9 DEF OInv, Steady

\* A step that leaves the requests and the users alone, and ends sessions and
\* tokens at most.
LEMMA ExpiryInTime ==
  ASSUME OInv, IInv', req' = req, user' = user, overtaken' = overtaken, late' = late,
         SessionsFewer, \A t \in Tids : token'[t] = token[t] \/ token'[t].state # "active"
  PROVE  OInv'
<1>1. Steady
  BY DEF Steady, OInv, Clean
<1>2. Links'
  BY <1>1, LinksKept
<1>3. Families'
  BY <1>1, FamiliesKept
<1>4. Currents'
  BY <1>1, CurrentsKept
<1> QED BY <1>1, <1>2, <1>3, <1>4 DEF OInv, Steady

LEMMA ExpireSessionInTime ==
  ASSUME OInv, IInv', NEW s \in Sids, ExpireSession(s)
  PROVE  OInv'
<1>1. /\ session[s] # None /\ session' = [session EXCEPT ![s].live = FALSE]
      /\ user' = user /\ token' = token /\ req' = req
      /\ overtaken' = overtaken /\ late' = late
  BY DEF ExpireSession, Live
<1>2. SessionsFewer
  BY <1>1, OneEnds DEF OInv
<1> QED BY <1>1, <1>2, ExpiryInTime

LEMMA ExpireTokenInTime ==
  ASSUME OInv, IInv', NEW t \in Tids, ExpireToken(t)
  PROVE  OInv'
<1>1. /\ token[t] # None /\ token' = [token EXCEPT ![t].state = "expired"]
      /\ user' = user /\ session' = session /\ req' = req
      /\ overtaken' = overtaken /\ late' = late
  BY DEF ExpireToken
<1>2. token'[t].state = "expired" /\ \A v \in Tids : v # t => token'[v] = token[v]
  <2>1. token' = [token EXCEPT ![t] = [token[t] EXCEPT !.state = "expired"]]
    BY <1>1
  <2> QED BY <1>1, <2>1, TokenRow DEF OInv, IInv, TypeOK
<1>3. \A v \in Tids : token'[v] = token[v] \/ token'[v].state # "active"
  BY <1>2
<1> QED BY <1>1, <1>3, SameSessions, ExpiryInTime

-----------------------------------------------------------------------------
\* What a request carries when it begins: the row as it is, but for what the
\* request changes.
Carries(r, op, u, row, s, t) ==
  /\ Begin(r, op, Plan[op], u, row, s, t)
  /\ op \in {"register", "login"} => row.active
  /\ op \notin {"register", "seed"} =>
       /\ row.verified = user[u].verified
       /\ op \notin {"suspend", "reset"} =>
            row.active = user[u].active /\ row.password = user[u].password
  /\ op = "refresh" => s \in Sids /\ Live(s)

LEMMA AccountCarries ==
  ASSUME IInv, NEW r \in Requests, NEW u \in Uids,
         \/ Login(r, u) \/ ResendVerification(r, u) \/ ForgotPassword(r, u)
         \/ SuspendUser(r, u) \/ UpdateProfile(r, u)
  PROVE  \E op \in Ops, row \in User : Carries(r, op, u, row, None, None)
<1>1. user[u] \in User
  BY Rows DEF Login, ResendVerification, ForgotPassword, SuspendUser, UpdateProfile
<1>2. CASE SuspendUser(r, u)
  <2>1. PICK row \in User :
          row = [user[u] EXCEPT !.active = FALSE] /\ row.verified = user[u].verified
    <3>1. /\ [user[u] EXCEPT !.active = FALSE] \in User
          /\ [user[u] EXCEPT !.active = FALSE].verified = user[u].verified
      BY <1>1 DEF User
    <3> QED BY <3>1
  <2>2. Begin(r, "suspend", Plan["suspend"], u, row, None, None)
    BY <1>2, <2>1 DEF SuspendUser, Begin
  <2> QED BY <2>1, <2>2 DEF Carries, Ops
<1>3. PICK row \in User : row = user[u]
  BY <1>1
<1>4. CASE Login(r, u)
  <2>1. Begin(r, "login", Plan["login"], u, row, None, None) /\ row.active
    BY <1>3, <1>4 DEF Login, Begin
  <2> QED BY <1>3, <2>1 DEF Carries, Ops
<1>5. CASE ResendVerification(r, u)
  <2>1. Begin(r, "resend", Plan["resend"], u, row, None, None)
    BY <1>3, <1>5 DEF ResendVerification, Begin
  <2> QED BY <1>3, <2>1 DEF Carries, Ops
<1>6. CASE ForgotPassword(r, u)
  <2>1. Begin(r, "forgot", Plan["forgot"], u, row, None, None)
    BY <1>3, <1>6 DEF ForgotPassword, Begin
  <2> QED BY <1>3, <2>1 DEF Carries, Ops
<1>7. CASE UpdateProfile(r, u)
  <2>1. Begin(r, "profile", Plan["profile"], u, row, None, None)
    BY <1>3, <1>7 DEF UpdateProfile, Begin
  <2> QED BY <1>3, <2>1 DEF Carries, Ops
<1> QED BY <1>2, <1>4, <1>5, <1>6, <1>7

LEMMA RequestCarries ==
  ASSUME IInv, NEW r \in Requests, Request(r)
  PROVE  \E op \in Ops, u \in Uids, row \in User, s \in Sids \cup {None}, t \in Tids \cup {None} :
           Carries(r, op, u, row, s, t)
<1>1. ASSUME NEW u \in Uids, NEW e \in Emails, NEW p \in Passwords, Register(r, u, e, p)
      PROVE  \E row \in User : Carries(r, "register", u, row, None, None)
  <2>1. PICK row \in User :
          row.active /\ Begin(r, "register", Plan["register"], u, row, None, None)
    BY <1>1 DEF Register, User
  <2> QED BY <2>1 DEF Carries
<1>2. ASSUME NEW u \in Uids, NEW p \in Passwords, SeedAdmin(r, u, p)
      PROVE  \E row \in User : Carries(r, "seed", u, row, None, None)
  <2>1. PICK row \in User : Begin(r, "seed", Plan["seed"], u, row, None, None)
    BY <1>2, SeedAssumption DEF SeedAdmin, User
  <2> QED BY <2>1 DEF Carries
<1>3. ASSUME NEW s \in Sids, Refresh(r, s) \/ Logout(r, s)
      PROVE  \E op \in Ops, u \in Uids, row \in User : Carries(r, op, u, row, s, None)
  <2>1. Live(s) /\ session[s].user \in Uids /\ user[session[s].user] # None
    BY <1>3, Rows DEF Refresh, Logout, Live
  <2>2. PICK u \in Uids : u = session[s].user
    BY <2>1
  <2>3. PICK row \in User : row = user[u]
    BY <2>1, <2>2, Rows
  <2>4. PICK op \in {"refresh", "logout"} : Begin(r, op, Plan[op], u, row, s, None)
    BY <1>3, <2>2, <2>3 DEF Refresh, Logout, Begin
  <2> QED BY <2>1, <2>3, <2>4 DEF Carries, Ops
<1>4. ASSUME NEW t \in Tids, VerifyEmail(r, t)
      PROVE  \E op \in Ops, u \in Uids, row \in User : Carries(r, op, u, row, None, t)
  <2>1. token[t].user \in Uids /\ user[token[t].user] \in User
    BY <1>4, PresentedIs DEF VerifyEmail
  <2>2. PICK u \in Uids : u = token[t].user
    BY <2>1
  <2>3. PICK row \in User : row = user[u]
    BY <2>1, <2>2
  <2>4. Begin(r, "verify", Plan["verify"], u, row, None, t)
    BY <1>4, <2>2, <2>3 DEF VerifyEmail, Begin
  <2> QED BY <2>3, <2>4 DEF Carries, Ops
<1>5. ASSUME NEW t \in Tids, NEW p \in Passwords, ResetPassword(r, t, p)
      PROVE  \E op \in Ops, u \in Uids, row \in User : Carries(r, op, u, row, None, t)
  <2>1. token[t].user \in Uids /\ user[token[t].user] \in User
    BY <1>5, PresentedIs DEF ResetPassword
  <2>2. PICK u \in Uids : u = token[t].user
    BY <2>1
  <2>3. PICK row \in User :
          row = [user[u] EXCEPT !.password = p] /\ row.verified = user[u].verified
    <3>1. /\ [user[u] EXCEPT !.password = p] \in User
          /\ [user[u] EXCEPT !.password = p].verified = user[u].verified
      BY <2>1, <2>2 DEF User
    <3> QED BY <3>1
  <2>4. Begin(r, "reset", Plan["reset"], u, row, None, t)
    BY <1>5, <2>2, <2>3 DEF ResetPassword, Begin
  <2> QED BY <2>3, <2>4 DEF Carries, Ops
<1>6. "register" \in Ops /\ "seed" \in Ops
  BY DEF Ops
<1>7. CASE \E u \in Uids, e \in Emails, p \in Passwords : Register(r, u, e, p)
  BY <1>1, <1>6, <1>7
<1>8. CASE \E u \in Uids, p \in Passwords : SeedAdmin(r, u, p)
  BY <1>2, <1>6, <1>8
<1>9. CASE \E u \in Uids : Login(r, u) \/ ResendVerification(r, u) \/ ForgotPassword(r, u)
                             \/ SuspendUser(r, u) \/ UpdateProfile(r, u)
  BY <1>9, AccountCarries
<1>10. CASE \E s \in Sids : Refresh(r, s) \/ Logout(r, s)
  BY <1>3, <1>10
<1>11. CASE \E t \in Tids : VerifyEmail(r, t) \/ \E p \in Passwords : ResetPassword(r, t, p)
  BY <1>4, <1>5, <1>11
<1> QED BY <1>7, <1>8, <1>9, <1>10, <1>11 DEF Request

\* A request that begins is overtaken by nobody yet.
LEMMA RequestInTime ==
  ASSUME OInv, IInv', NEW r \in Requests, Request(r)
  PROVE  OInv'
<1>1. PICK op \in Ops, u \in Uids, row \in User, s \in Sids \cup {None}, t \in Tids \cup {None} :
        Carries(r, op, u, row, s, t)
  BY RequestCarries DEF OInv
<1> DEFINE new == [op |-> op, todo |-> Plan[op], id |-> u, row |-> row, sid |-> s, tid |-> t]
<1>2. /\ req[r] = Idle /\ req'[r] = new /\ \A q \in Requests : q # r => req'[q] = req[q]
      /\ user' = user /\ session' = session /\ token' = token
      /\ overtaken' = overtaken /\ late' = late
  BY <1>1 DEF Carries, Begin, OInv, IInv, TypeOK
<1> HIDE DEF new
<1>3. /\ new.op = op /\ new.todo = Plan[op] /\ new.id = u /\ new.row = row /\ new.sid = s
  BY DEF new
<1>4. req'[r] # Idle
  BY <1>2, <1>3 DEF Idle, Ops
<1>5. Clean'
  <2>1. \A h \in overtaken : h[1] \in Requests
    BY DEF OInv, IInv, TypeOK
  <2> QED BY <1>2, <1>4, <2>1 DEF OInv, Clean
<1>6. ~Doing(r, "token")' /\ (op = "refresh" => ~Doing(r, "session")')
  BY <1>2, <1>3, PlanHeads DEF Doing
<1>7. Links'
  <2>1. OneLink'
    BY <1>2 DEF OInv, Links, OneLink
  <2>2. ASSUME NEW q \in Requests, q # r PROVE NoneActive(q)'
    <3>1. NoneActive(q)
      BY DEF OInv, Links
    <3> QED BY <1>2, <2>2, <3>1 DEF NoneActive, Doing, Overtaken, Purpose
  <2>3. NoneActive(r)'
    BY <1>6 DEF NoneActive
  <2> QED BY <2>1, <2>2, <2>3 DEF Links
<1>8. \A q \in Requests : q # r =>
        /\ InTime(q)' <=> InTime(q)
        /\ Doing(q, "session")' <=> Doing(q, "session")
  BY <1>2 DEF InTime, Doing, Overtaken
<1>9. InTime(r)' => s \in Sids /\ Live(s) /\ s \notin late /\ op = "refresh" /\ req'[r].sid = s
  BY <1>1, <1>2, <1>3 DEF InTime, Carries
<1>10. Families'
  <2>1. FamilyKnown' /\ Rotation' /\ \A v \in Sids : Live(v)' <=> Live(v)
    BY <1>2 DEF OInv, Families, FamilyKnown, Rotation, Live
  <2>2. ASSUME NEW p \in Requests, InTime(p)', p # r PROVE Replaces(p)'
    <3>1. Replaces(p) /\ InTime(p) /\ req'[p] = req[p]
      BY <1>2, <1>8, <2>2 DEF OInv, Families
    <3>2. ASSUME NEW v \in Sids \ late', Live(v)', session'[v].family = session'[req'[p].sid].family
          PROVE  v = req'[p].sid /\ ~Doing(p, "session")'
      BY <1>2, <1>8, <2>1, <2>2, <3>1, <3>2 DEF Replaces
    <3>3. ASSUME NEW q \in Requests \ {p}, InTime(q)',
                 session'[req'[q].sid].family = session'[req'[p].sid].family
          PROVE  req'[q].sid = req'[p].sid /\ ~Doing(p, "session")'
      <4>1. CASE q = r
        BY <1>2, <1>9, <2>1, <3>2, <3>3, <4>1
      <4>2. CASE q # r
        BY <1>2, <1>8, <2>2, <3>1, <3>3, <4>2 DEF Replaces
      <4> QED BY <4>1, <4>2
    <3> QED BY <3>2, <3>3 DEF Replaces
  <2>3. ASSUME InTime(r)' PROVE Replaces(r)'
    <3>1. ASSUME NEW v \in Sids \ late', Live(v)', session'[v].family = session'[req'[r].sid].family
          PROVE  v = req'[r].sid /\ ~Doing(r, "session")'
      <4>1. v = s
        BY <1>2, <1>9, <2>1, <2>3, <3>1 DEF OInv, Families, Rotation
      <4> QED BY <1>6, <1>9, <2>3, <4>1
    <3>2. ASSUME NEW q \in Requests \ {r}, InTime(q)',
                 session'[req'[q].sid].family = session'[req'[r].sid].family
          PROVE  req'[q].sid = req'[r].sid /\ ~Doing(r, "session")'
      <4>1. InTime(q) /\ session[s].family = session[req[q].sid].family /\ req'[q] = req[q]
        BY <1>2, <1>8, <1>9, <2>3, <3>2
      <4>2. Replaces(q)
        BY DEF OInv, Families
      <4>3. s = req[q].sid
        BY <1>9, <2>3, <4>1, <4>2 DEF Replaces
      <4> QED BY <1>6, <1>9, <2>3, <4>1, <4>3
    <3> QED BY <3>1, <3>2 DEF Replaces
  <2>4. \A p \in Requests : Replaces(p)'
    BY <2>2, <2>3 DEF Replaces
  <2> QED BY <2>1, <2>4 DEF Families
<1>11. ASSUME NEW v \in Sids \ late', Standing(v)' PROVE Current(v)'
  <2>1. Standing(v)
    <3>1. CASE Live(v)'
      BY <1>2, <3>1 DEF Standing, Live
    <3>2. CASE \E q \in Requests : InTime(q)' /\ req'[q].sid = v
      <4>1. PICK q \in Requests : InTime(q)' /\ req'[q].sid = v
        BY <3>2
      <4>2. CASE q = r
        BY <1>9, <4>1, <4>2 DEF Standing
      <4>3. CASE q # r
        BY <1>2, <1>8, <4>1, <4>3 DEF Standing
      <4> QED BY <4>2, <4>3
    <3> QED BY <1>11, <3>1, <3>2 DEF Standing
  <2>2. Current(v)
    BY <1>2, <1>11, <2>1 DEF OInv, Currents
  <2>3. PICK w : w = session[v].user
    OBVIOUS
  <2>4. RevokingAll(w) => RevokingAll(w)'
    <3>1. \A q \in Requests : Doing(q, "revoke_all") /\ req[q].id = w => req'[q] = req[q]
      BY <1>2, DoingIsBusy
    <3> QED BY <3>1, RevokingKept
  <2> QED BY <1>2, <2>2, <2>3, <2>4 DEF Current
<1>12. ASSUME NEW q \in Requests PROVE CopyFresh(q)' /\ LoginActive(q)'
  <2>1. CASE q = r
    <3>1. Head(req'[r].todo) # "create" => op \notin {"register", "seed"}
      BY <1>2, <1>3, PlanHeads
    <3>2. CopyFresh(r)'
      BY <1>1, <1>2, <1>3, <3>1 DEF CopyFresh, Copy, Carries
    <3>3. LoginActive(r)'
      BY <1>1, <1>2, <1>3 DEF LoginActive, Carries
    <3> QED BY <2>1, <3>2, <3>3
  <2>2. CASE q # r
    <3>1. CopyFresh(q) /\ LoginActive(q)
      BY DEF OInv, Currents
    <3> QED BY <1>2, <2>2, <3>1 DEF CopyFresh, Copy, Overtaken, LoginActive
  <2> QED BY <2>1, <2>2
<1>13. Currents'
  BY <1>11, <1>12 DEF Currents
<1> QED BY <1>5, <1>7, <1>10, <1>13 DEF OInv

-----------------------------------------------------------------------------
LEMMA InitInTime == Init => OInv
<1> SUFFICES ASSUME Init PROVE OInv
  OBVIOUS
<1>1. IInv
  BY InitSound
<1>2. Clean
  BY DEF Init, Clean
<1>3. Links
  BY DEF Init, Links, OneLink, NoneActive, Doing, Idle
<1>4. Families
  BY DEF Init, Families, FamilyKnown, Rotation, Replaces, InTime, Live, Idle
<1>5. Currents
  BY DEF Init, Currents, Standing, InTime, Live, CopyFresh, Copy, LoginActive, Idle
<1> QED BY <1>1, <1>2, <1>3, <1>4, <1>5 DEF OInv

LEMMA NextInTime == OInv /\ [Next]_vars => OInv'
<1> SUFFICES ASSUME OInv, [Next]_vars PROVE OInv'
  OBVIOUS
<1>1. IInv'
  BY NextSound DEF OInv
<1>2. ASSUME NEW r \in Requests, Request(r) PROVE OInv'
  BY <1>1, <1>2, RequestInTime
<1>3. ASSUME NEW r \in Requests, Statement(r) PROVE OInv'
  BY <1>1, <1>3, CreateUserInTime, StoreTokenInTime, QueueLinkInTime, IssueTokensInTime,
     FindUserInTime, RevokeInTime, MarkUsedInTime, InvalidateInTime, UpdateUserInTime,
     RevokeAllInTime
  DEF Statement
<1>4. ASSUME NEW r \in Requests, Abandon(r) PROVE OInv'
  BY <1>1, <1>4, AbandonInTime
<1>5. ASSUME UNCHANGED vars PROVE OInv'
  <2>1. /\ user' = user /\ session' = session /\ token' = token /\ req' = req
        /\ overtaken' = overtaken /\ late' = late
    BY <1>5 DEF vars
  <2> QED BY <1>1, <2>1, SameSessions, ExpiryInTime
<1> QED BY <1>1, <1>2, <1>3, <1>4, <1>5, ExpireSessionInTime, ExpireTokenInTime DEF Next

\* The invariant in every reachable state, however requests overlap and end.
THEOREM InTimeSound == Spec => []OInv
<1>1. Init => OInv
  BY InitInTime
<1>2. OInv /\ [Next]_vars => OInv'
  BY NextInTime
<1> QED BY <1>1, <1>2, PTL DEF Spec

\* Of each purpose an account has one usable link, but for those that a request
\* stored after another, which overlapped it, had stored its own.
THEOREM OneUsableLink == Spec => []OneLink
<1>1. OInv => OneLink
  BY DEF OInv, Links
<1> QED BY <1>1, InTimeSound, PTL

\* However many refreshes of one token overlap, with a logout or a revocation of
\* all, one of them at most is in time and leaves a live token that is not late:
\* a login has one such token.
THEOREM RotationHolds == Spec => []Rotation
<1>1. OInv => Rotation
  BY DEF OInv, Families
<1> QED BY <1>1, InTimeSound, PTL

\* A live session that is not late belongs to an active user and descends from a
\* login with the password that is valid now, or its revocation is due, although
\* logins, refreshes, resets, suspensions and profile updates overlap.
THEOREM SessionsAreCurrent == Spec => []SessionsCurrent
<1>1. OInv => SessionsCurrent
  BY DEF OInv, Currents, SessionsCurrent, Standing, Current
<1> QED BY <1>1, InTimeSound, PTL

\* No step takes back a verification, although four handlers write the column,
\* but a write of a row that another request has written in between.
THEOREM VerificationStays == Spec => StaysVerified
<1>1. OInv /\ [Next]_vars =>
        [\A u \in Uids : user[u] # None /\ user[u].verified =>
           \/ user'[u].verified
           \/ \E r \in Requests : Overtaken(r, "user") /\ req[r].id = u /\ UpdateUser(r)]_vars
  <2> SUFFICES ASSUME OInv, [Next]_vars, NEW u \in Uids, user[u] # None, user[u].verified,
                      \A r \in Requests : ~(Overtaken(r, "user") /\ req[r].id = u /\ UpdateUser(r))
      PROVE  user'[u].verified
    OBVIOUS
  <2>1. CASE user' = user
    BY <2>1
  <2>2. ASSUME NEW r \in Requests, CreateUser(r) PROVE user'[u].verified
    <3>1. PICK v \in Uids : v = req[r].id /\ user[v] = None
      BY <2>2, StatementAbout DEF CreateUser, RowCurrent
    <3>2. user' = [user EXCEPT ![v] = req[r].row]
      BY <2>2, <3>1 DEF CreateUser
    <3> QED BY <3>1, <3>2
  <2>3. ASSUME NEW r \in Requests, UpdateUser(r) PROVE user'[u].verified
    <3>1. PICK v \in Uids : v = req[r].id
      BY <2>3, StatementAbout DEF UpdateUser
    <3>2. user'[v] = req[r].row /\ \A w \in Uids : w # v => user'[w] = user[w]
      BY <2>3, <3>1 DEF UpdateUser, OInv, IInv, TypeOK
    <3>3. CASE v = u
      <4>1. ~Overtaken(r, "user")
        BY <2>3, <3>1, <3>3
      <4>2. Head(req[r].todo) = "update" /\ req[r] # Idle /\ CopyFresh(r)
        BY <2>3, StatementAbout DEF UpdateUser
      <4>3. Head(<<"mark">>) = "mark"
        OBVIOUS
      <4>4. Copy(r)
        BY <4>1, <4>2, <4>3 DEF Copy
      <4> QED BY <3>1, <3>2, <3>3, <4>2, <4>4 DEF CopyFresh
    <3>4. CASE v # u
      BY <3>2, <3>4
    <3> QED BY <3>3, <3>4
  <2>4. CASE \A r \in Requests : ~CreateUser(r) /\ ~UpdateUser(r)
    <3>1. user' = user
      BY <2>4 DEF Next, Request, Statement, vars, Register, SeedAdmin, Login, ResendVerification,
        ForgotPassword, SuspendUser, UpdateProfile, Refresh, Logout, VerifyEmail, ResetPassword,
        Begin, StoreToken, QueueLink, IssueTokens, FindUser, Revoke, MarkUsed, Invalidate,
        RevokeAll, Abandon, ExpireSession, ExpireToken
    <3> QED BY <3>1
  <2> QED BY <2>1, <2>2, <2>3, <2>4
<1> QED BY <1>1, InTimeSound, PTL DEF Spec, StaysVerified
=============================================================================
