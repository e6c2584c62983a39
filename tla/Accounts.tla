------------------------------ MODULE Accounts ------------------------------
(***************************************************************************)
(* Accounts, sessions and the links sent by mail (service/auth.rs, the     *)
(* suspend_user of admin.rs, account.rs, the extractors of                 *)
(* middleware/auth.rs).  A request begins with reads and checks and then   *)
(* has a plan, the statements it awaits one after the other; Plan lists    *)
(* them.  It may end before any of them (Abandon).                         *)
(* Names and phone numbers are left out: a profile update then writes back *)
(* the row that was read.  A server process that starts may seed the       *)
(* administrator, before it serves; another may serve already or start at  *)
(* the same time.  Expiry may come at any time.                            *)
(***************************************************************************)
EXTENDS Sequences
CONSTANTS
  Uids, Emails,    \* ids of users, and their normalised addresses
  AdminEmail,      \* config.admin_email, normalised
  Passwords,
  Sids,            \* ids of refresh tokens
  Tids,            \* ids of one-time tokens
  Requests,        \* requests the server can be serving at one time
  None             \* SQL NULL, and "no such row"

VARIABLES
  user,            \* the tables: id -> row, or None
  session,
  token,
  links,           \* one-time tokens whose raw value was put in a mail
  req,             \* the request in each slot, or Idle
  overtaken,       \* history: <<r, table>>, another request has changed what
                   \* this one read there
  late             \* history: sessions and tokens that an overtaken request
                   \* opened, or that a revocation should have ended

vars == <<user, session, token, links, req, overtaken, late>>

Purposes == {"email_verification", "password_reset"}
User == [email : Emails, password : Passwords, verified : BOOLEAN, active : BOOLEAN,
         admin : BOOLEAN]

\* family is the session of the login or registration a token descends from,
\* password the one that login or registration gave.
Session == [user : Uids, password : Passwords, family : Sids, live : BOOLEAN]
\* followed: used by the request that the link was opened with; void: used_at
\* was set by a request for another link.
Token == [user : Uids, purpose : Purposes, state : {"active", "followed", "void", "expired"}]

ASSUME SeedAssumption == AdminEmail \in Emails

Tables == {"user", "session", "token"}

ASSUME NoneIsNoValue ==
  None \notin User \cup Session \cup Token \cup Passwords \cup Sids \cup Tids

Ops == {"register", "login", "refresh", "logout", "verify", "resend", "forgot", "reset",
        "suspend", "profile", "seed"}
Stages == {"create", "token", "mail", "session", "user", "revoke", "mark", "update",
           "invalidate", "revoke_all"}

\* The statements of each handler after its first reads.
Plan ==
  [register |-> <<"create", "token", "mail", "session">>,
   login    |-> <<"session">>,
   refresh  |-> <<"user", "revoke", "session">>,
   logout   |-> <<"revoke">>,
   verify   |-> <<"user", "mark", "update">>,
   resend   |-> <<"invalidate", "token", "mail">>,
   forgot   |-> <<"invalidate", "token", "mail">>,
   reset    |-> <<"user", "mark", "update", "revoke_all">>,
   suspend  |-> <<"update", "revoke_all">>,
   profile  |-> <<"update">>,
   seed     |-> <<"create">>]

Purpose(op) == IF op \in {"forgot", "reset"} THEN "password_reset" ELSE "email_verification"

Idle == [op |-> "none", todo |-> <<>>]
InFlight == [op : Ops, todo : Seq(Stages), id : Uids, row : User,
             sid : Sids \cup {None}, tid : Tids \cup {None}]

TypeOK ==
  /\ user \in [Uids -> User \cup {None}]
  /\ session \in [Sids -> Session \cup {None}]
  /\ token \in [Tids -> Token \cup {None}]
  /\ links \in SUBSET Tids
  /\ req \in [Requests -> InFlight \cup {Idle}]
  /\ overtaken \in SUBSET (Requests \X Tables)
  /\ late \in SUBSET (Sids \cup Tids)

Init ==
  /\ user = [u \in Uids |-> None]
  /\ session = [s \in Sids |-> None]
  /\ token = [t \in Tids |-> None]
  /\ links = {}
  /\ req = [r \in Requests |-> Idle]
  /\ overtaken = {}
  /\ late = {}

-----------------------------------------------------------------------------
Begin(r, op, todo, u, row, s, t) ==
  /\ req[r] = Idle
  /\ req' = [req EXCEPT ![r] = [op |-> op, todo |-> todo, id |-> u, row |-> row,
                                sid |-> s, tid |-> t]]
  /\ UNCHANGED <<user, session, token, links, overtaken, late>>

\* The id is drawn by Uuid::now_v7.
Unused(u) == user[u] = None /\ \A q \in Requests : req[q] # Idle => req[q].id # u

\* Mutant: no unique index on email.
EmailNotIndexed(e) == e \in Emails

EmailFree(e) == \A v \in Uids : user[v] # None => user[v].email # e

Register(r, u, e, p) ==
  /\ Unused(u)
  /\ \A v \in Uids : user[v] # None => user[v].email # e
  /\ Begin(r, "register", Plan.register, u,
           [email |-> e, password |-> p, verified |-> FALSE, active |-> TRUE, admin |-> FALSE],
           None, None)

\* seed_admin; when its insert fails the process exits.
SeedAdmin(r, u, p) ==
  /\ Unused(u)
  /\ \A v \in Uids : user[v] # None => ~user[v].admin /\ user[v].email # AdminEmail
  /\ Begin(r, "seed", Plan.seed, u,
           [email |-> AdminEmail, password |-> p, verified |-> TRUE, active |-> TRUE,
            admin |-> TRUE], None, None)

\* Mutant: a suspended account may log in.
LoginAnyStatus(r, u) ==
  /\ user[u] # None
  /\ Begin(r, "login", Plan.login, u, user[u], None, None)

\* With the right password; any other attempt changes nothing.
Login(r, u) ==
  /\ user[u] # None
  /\ user[u].active
  /\ Begin(r, "login", Plan.login, u, user[u], None, None)

Live(s) == session[s] # None /\ session[s].live

Refresh(r, s) ==
  /\ Live(s)
  /\ Begin(r, "refresh", Plan.refresh, session[s].user, user[session[s].user], s, None)

Logout(r, s) ==
  /\ Live(s)
  /\ Begin(r, "logout", Plan.logout, session[s].user, user[session[s].user], s, None)

\* Mutant: a link is good for either purpose.
PresentedAny(t, purpose) == t \in links /\ token[t].state = "active" /\ purpose \in Purposes

\* The raw value is known from the mail only.
Presented(t, purpose) ==
  t \in links /\ token[t].state = "active" /\ token[t].purpose = purpose

VerifyEmail(r, t) ==
  /\ Presented(t, "email_verification")
  /\ Begin(r, "verify", Plan.verify, token[t].user, user[token[t].user], None, t)

\* The hash of the new password is ready before the user is read again: it is
\* carried in the row.
ResetPassword(r, t, p) ==
  /\ Presented(t, "password_reset")
  /\ Begin(r, "reset", Plan.reset, token[t].user,
           [user[token[t].user] EXCEPT !.password = p], None, t)

ResendVerification(r, u) ==
  /\ user[u] # None
  /\ ~user[u].verified /\ user[u].active
  /\ Begin(r, "resend", Plan.resend, u, user[u], None, None)

ForgotPassword(r, u) ==
  /\ user[u] # None
  /\ user[u].active
  /\ Begin(r, "forgot", Plan.forgot, u, user[u], None, None)

\* Mutant: the row is rebuilt without its verification.
SuspendUserAnew(r, u) ==
  /\ user[u] # None
  /\ ~user[u].admin
  /\ Begin(r, "suspend", Plan.suspend, u,
           [user[u] EXCEPT !.active = FALSE, !.verified = FALSE], None, None)

SuspendUser(r, u) ==
  /\ user[u] # None
  /\ ~user[u].admin
  /\ Begin(r, "suspend", Plan.suspend, u, [user[u] EXCEPT !.active = FALSE], None, None)

\* The row is the one the extractor read; an access token was issued with
\* some session.
UpdateProfile(r, u) ==
  /\ user[u] # None
  /\ user[u].active
  /\ \E s \in Sids : session[s] # None /\ session[s].user = u
  /\ Begin(r, "profile", Plan.profile, u, user[u], None, None)

-----------------------------------------------------------------------------
Doing(r, stage) == req[r].todo # <<>> /\ Head(req[r].todo) = stage

\* The request goes on to its next statement, or has ended.
Advance(r, row, t) ==
  LET rest == Tail(req[r].todo)
  IN  req' = [req EXCEPT ![r] = IF rest = <<>> THEN Idle
                                ELSE [@ EXCEPT !.todo = rest, !.row = row, !.tid = t]]

\* What this step makes of the requests that are under way: requests that have
\* ended are forgotten.
Overtake(hits) == overtaken' = {h \in overtaken \cup hits : req'[h[1]] # Idle}

Overtaken(r, table) == <<r, table>> \in overtaken

SessionsOf(u) == {s \in Sids : session[s] # None /\ session[s].user = u}

CreateUser(r) ==
  /\ Doing(r, "create")
  /\ EmailFree(req[r].row.email)
  /\ user' = [user EXCEPT ![req[r].id] = req[r].row]
  /\ Advance(r, req[r].row, None)
  /\ Overtake({})
  /\ UNCHANGED <<session, token, links, late>>

\* Other requests that are about to store a token of the same kind, and have
\* invalidated the ones before it.
StoringToo(r) ==
  {q \in Requests \ {r} : /\ Doing(q, "token") /\ req[q].id = req[r].id
                          /\ Purpose(req[q].op) = Purpose(req[r].op)}

\* Mutant: the id of the new token is forgotten.
StoreTokenForgets(r) ==
  /\ Doing(r, "token")
  /\ \E t \in Tids :
       /\ token[t] = None
       /\ token' = [token EXCEPT ![t] = [user |-> req[r].id, purpose |-> Purpose(req[r].op),
                                         state |-> "active"]]
       /\ Advance(r, req[r].row, None)
       /\ late' = IF Overtaken(r, "token") THEN late \cup {t} ELSE late
  /\ Overtake({<<q, "token">> : q \in StoringToo(r)})
  /\ UNCHANGED <<user, session, links>>

StoreToken(r) ==
  /\ Doing(r, "token")
  /\ \E t \in Tids :
       /\ token[t] = None
       /\ token' = [token EXCEPT ![t] = [user |-> req[r].id, purpose |-> Purpose(req[r].op),
                                         state |-> "active"]]
       /\ Advance(r, req[r].row, t)
       /\ late' = IF Overtaken(r, "token") THEN late \cup {t} ELSE late
  /\ Overtake({<<q, "token">> : q \in StoringToo(r)})
  /\ UNCHANGED <<user, session, links>>

QueueLink(r) ==
  /\ Doing(r, "mail")
  /\ links' = links \cup {req[r].tid}
  /\ Advance(r, req[r].row, None)
  /\ Overtake({})
  /\ UNCHANGED <<user, session, token, late>>

\* The user was read before another request wrote it, or the session it
\* replaces was revoked by another, or was late already.
TooLate(r) ==
  IF req[r].op = "refresh" THEN Overtaken(r, "session") \/ req[r].sid \in late
                           ELSE Overtaken(r, "user")

\* issue_tokens; the access token is stateless.
IssueTokens(r) ==
  /\ Doing(r, "session")
  /\ \E s \in Sids :
       /\ session[s] = None
       /\ session' = [session EXCEPT ![s] =
            IF req[r].op = "refresh" THEN [session[req[r].sid] EXCEPT !.live = TRUE]
            ELSE [user |-> req[r].id, password |-> req[r].row.password, live |-> TRUE,
                  family |-> s]]
       /\ late' = IF TooLate(r) THEN late \cup {s} ELSE late
  /\ Advance(r, req[r].row, None)
  /\ Overtake({})
  /\ UNCHANGED <<user, token, links>>

\* The user is read by a second statement.  A refresh needs an active user; a
\* verified one has nothing to write; a reset changes the password.
Read(r) ==
  LET found == user[req[r].id]
  IN  IF req[r].op = "reset" THEN [found EXCEPT !.password = req[r].row.password]
      ELSE IF req[r].op = "verify" THEN [found EXCEPT !.verified = TRUE]
      ELSE found

FindUser(r) ==
  /\ Doing(r, "user")
  /\ req[r].op = "refresh" => user[req[r].id].active
  /\ IF req[r].op = "verify" /\ user[req[r].id].verified
       THEN req' = [req EXCEPT ![r].todo = <<"mark">>]
       ELSE Advance(r, Read(r), req[r].tid)
  /\ Overtake({})
  /\ UNCHANGED <<user, session, token, links, late>>

\* Other requests that found the session live and are still to revoke it.
RevokingToo(r) ==
  {q \in Requests \ {r} : (Doing(q, "user") \/ Doing(q, "revoke")) /\ req[q].sid = req[r].sid}

\* Mutant: the statement matches no row.
RevokeNone(r) ==
  /\ Doing(r, "revoke")
  /\ Advance(r, req[r].row, None)
  /\ Overtake({<<q, "session">> : q \in RevokingToo(r)})
  /\ UNCHANGED <<user, session, token, links, late>>

Revoke(r) ==
  /\ Doing(r, "revoke")
  /\ session' = [session EXCEPT ![req[r].sid].live = FALSE]
  /\ Advance(r, req[r].row, None)
  /\ Overtake({<<q, "session">> : q \in RevokingToo(r)})
  /\ UNCHANGED <<user, token, links, late>>

MarkUsed(r) ==
  /\ Doing(r, "mark")
  /\ token' = [token EXCEPT ![req[r].tid].state = "followed"]
  /\ Advance(r, req[r].row, None)
  /\ Overtake({})
  /\ UNCHANGED <<user, session, links, late>>

\* Mutant: the tokens of the other purpose are invalidated.
InvalidateOthers(r) ==
  /\ Doing(r, "invalidate")
  /\ token' = [t \in Tids |->
       IF /\ token[t] # None /\ token[t].state \in {"active", "expired"}
          /\ token[t].user = req[r].id /\ token[t].purpose # Purpose(req[r].op)
         THEN [token[t] EXCEPT !.state = "void"] ELSE token[t]]
  /\ Advance(r, req[r].row, None)
  /\ Overtake({})
  /\ UNCHANGED <<user, session, links, late>>

\* invalidate_for_user: tokens without used_at.
Invalidate(r) ==
  /\ Doing(r, "invalidate")
  /\ token' = [t \in Tids |->
       IF /\ token[t] # None /\ token[t].state \in {"active", "expired"}
          /\ token[t].user = req[r].id /\ token[t].purpose = Purpose(req[r].op)
         THEN [token[t] EXCEPT !.state = "void"] ELSE token[t]]
  /\ Advance(r, req[r].row, None)
  /\ Overtake({})
  /\ UNCHANGED <<user, session, links, late>>

\* Other requests that hold a copy of the user's row.
Holding(r) ==
  {q \in Requests \ {r} : req[q] # Idle /\ req[q].id = req[r].id /\ ~Doing(q, "user")}

\* Every column of the copy is written back.
UpdateUser(r) ==
  /\ Doing(r, "update")
  /\ user' = [user EXCEPT ![req[r].id] = req[r].row]
  /\ Advance(r, req[r].row, None)
  /\ late' = IF Overtaken(r, "user") THEN late \cup SessionsOf(req[r].id) ELSE late
  /\ Overtake({<<q, "user">> : q \in Holding(r)})
  /\ UNCHANGED <<session, token, links>>

\* Other requests whose session is one of the user's.
Renewing(r) == {q \in Requests \ {r} : req[q] # Idle /\ req[q].sid \in SessionsOf(req[r].id)}

RevokeAll(r) ==
  /\ Doing(r, "revoke_all")
  /\ session' = [s \in Sids |-> IF s \in SessionsOf(req[r].id)
                                  THEN [session[s] EXCEPT !.live = FALSE] ELSE session[s]]
  /\ Advance(r, req[r].row, None)
  /\ Overtake({<<q, "session">> : q \in Renewing(r)})
  /\ UNCHANGED <<user, token, links, late>>

\* A refusal, a time-out, a client that is gone, an error or a crash.
Abandon(r) ==
  /\ req[r] # Idle
  /\ req' = [req EXCEPT ![r] = Idle]
  /\ late' = IF Doing(r, "revoke_all") THEN late \cup SessionsOf(req[r].id) ELSE late
  /\ Overtake({})
  /\ UNCHANGED <<user, session, token, links>>

ExpireSession(s) ==
  /\ Live(s)
  /\ session' = [session EXCEPT ![s].live = FALSE]
  /\ UNCHANGED <<user, token, links, req, overtaken, late>>

ExpireToken(t) ==
  /\ token[t] # None /\ token[t].state = "active"
  /\ token' = [token EXCEPT ![t].state = "expired"]
  /\ UNCHANGED <<user, session, links, req, overtaken, late>>

Request(r) ==
  \/ \E u \in Uids, e \in Emails, p \in Passwords : Register(r, u, e, p)
  \/ \E u \in Uids, p \in Passwords : SeedAdmin(r, u, p)
  \/ \E u \in Uids : Login(r, u) \/ ResendVerification(r, u) \/ ForgotPassword(r, u)
                    \/ SuspendUser(r, u) \/ UpdateProfile(r, u)
  \/ \E s \in Sids : Refresh(r, s) \/ Logout(r, s)
  \/ \E t \in Tids : VerifyEmail(r, t) \/ \E p \in Passwords : ResetPassword(r, t, p)

Statement(r) ==
  \/ CreateUser(r) \/ StoreToken(r) \/ QueueLink(r) \/ IssueTokens(r) \/ FindUser(r)
  \/ Revoke(r) \/ MarkUsed(r) \/ Invalidate(r) \/ UpdateUser(r) \/ RevokeAll(r)

Next ==
  \/ \E r \in Requests : Request(r) \/ Statement(r) \/ Abandon(r)
  \/ \E s \in Sids : ExpireSession(s)
  \/ \E t \in Tids : ExpireToken(t)

Spec == Init /\ [][Next]_vars

-----------------------------------------------------------------------------
\* Two racing registrations never leave two accounts with one address, and two
\* processes that start together never two administrators (main.rs:133).
OneAccountPerEmail ==
  \A u, v \in {w \in Uids : user[w] # None} :
    user[u].email = user[v].email \/ (user[u].admin /\ user[v].admin) => u = v

\* A verified account, unless it was seeded, has followed a verification link
\* that was mailed for it, although every profile update, reset and suspension
\* rewrites the column: a link that a resend made void does not count.
VerifiedByLink ==
  \A u \in Uids : user[u] # None /\ user[u].verified /\ ~user[u].admin =>
    \E t \in links : /\ token[t] # None /\ token[t].user = u
                     /\ token[t].purpose = "email_verification" /\ token[t].state = "followed"

\* Of each purpose an account has one usable link, but for the links of requests
\* that overlapped: each request for a link makes the ones before it void.
OneLink ==
  LET Usable == {t \in Tids \ late : token[t] # None /\ token[t].state = "active"}
  IN  \A t, v \in Usable :
        token[t].user = token[v].user /\ token[t].purpose = token[v].purpose => t = v

\* A login has one live refresh token at most: each refresh replaces it
\* (docs/API.md:30).  Of refreshes that overlap with one token one is in time;
\* the tokens of the others, and what descends from them, are late.
Rotation ==
  \A s, v \in Sids \ late :
    Live(s) /\ Live(v) /\ session[s].family = session[v].family => s = v

RevokingAll(u) == \E r \in Requests : Doing(r, "revoke_all") /\ req[r].id = u

\* A live session belongs to an active user and descends from a login with the
\* password that is valid now (docs/API.md:37 and 40), through every suspension
\* and reset, unless the revocation is still to come, or the session is late:
\* its login or refresh was overtaken, the revocation cut off, or the row lost.
SessionsCurrent ==
  \A s \in Sids \ late : Live(s) =>
    LET u == session[s].user
    IN  \/ user[u].active /\ session[s].password = user[u].password
        \/ RevokingAll(u)

\* An account that is verified stays verified, whatever is written back to its
\* row, unless the row was read before another request wrote it.
StaysVerified ==
  [][\A u \in Uids : user[u] # None /\ user[u].verified =>
       \/ user'[u].verified
       \/ \E r \in Requests : Overtaken(r, "user") /\ req[r].id = u /\ UpdateUser(r)]_vars

\* A profile update changes the fields it is given and nothing else
\* (docs/API.md:418): none of the columns kept here.
ProfileKeepsRest ==
  [][\A r \in Requests :
       req[r].op = "profile" /\ req'[r].op # "profile" => user' = user]_vars
=============================================================================
