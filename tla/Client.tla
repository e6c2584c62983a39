------------------------------- MODULE Client -------------------------------
(***************************************************************************)
(* The session of the browser application (src/frontend/src/api/client.ts, *)
(* tokenStore.ts, context/AuthProvider.tsx) in several tabs.  The refresh  *)
(* token is in localStorage, shared by the tabs; everything else is in the *)
(* memory of a tab.  An action is the code between two awaits.  What the   *)
(* server does with refresh tokens in detail is Accounts; here it serves   *)
(* one request at a time.                                                  *)
(*                                                                         *)
(* The session epoch is only ever compared with a value read earlier, so   *)
(* the refresh that remembers it is marked as out of date when it moves.   *)
(* A new epoch also empties the query cache, which then ignores what the   *)
(* pending query for the user's profile says: the request is "dropped".    *)
(***************************************************************************)
EXTENDS Naturals, FiniteSets

CONSTANTS
  Tabs,
  Slots,          \* authenticated requests a tab can have under way
  MaxPending,     \* bound: requests under way in all the tabs
  MaxLogouts,     \* bound: logouts under way in all the tabs
  Families,       \* bound: logins
  Rids,           \* bound: token pairs, by the id of the refresh token
  None            \* no token, nothing under way

VARIABLES
  pair,           \* the server: pair -> what became of it, or None
  fresh,          \* the server: pairs whose access token has not expired
  banned,         \* the server: logins whose user is suspended
  stored,         \* localStorage: the refresh token
  access,         \* per tab: the access token
  active,         \* per tab: sessionActive
  refresh,        \* per tab: refreshPromise
  logout,         \* per tab: the refresh token that is being revoked
  req,            \* per tab and slot: the request under way
  lost            \* history: pairs presented in a refresh that broke down

server == <<pair, fresh, banned>>
vars == <<pair, fresh, banned, stored, access, active, refresh, logout, req, lost>>

Opt(S) == S \cup {None}

\* by is the tab whose refresh rotated the pair away.
Pair == [family : Families, state : {"live", "rotated", "closed"}, by : Opt(Tabs)]
Refresh == [stage : {"sent", "refused", "granted", "reading"}, pair : Rids,
            next : Opt(Rids), current : BOOLEAN]
Pending == [kind : {"me", "dropped", "other"}, stage : {"sent", "waiting", "retry"},
            pair : Opt(Rids)]

ASSUME NoneIsNoValue == None \notin Tabs \cup Rids \cup Pair \cup Refresh \cup Pending

TypeOK ==
  /\ pair \in [Rids -> Opt(Pair)]
  /\ fresh \in SUBSET Rids
  /\ banned \in SUBSET Families
  /\ stored \in Opt(Rids)
  /\ access \in [Tabs -> Opt(Rids)]
  /\ active \in [Tabs -> BOOLEAN]
  /\ refresh \in [Tabs -> Opt(Refresh)]
  /\ logout \in [Tabs -> Opt(Rids)]
  /\ req \in [Tabs -> [Slots -> Opt(Pending)]]
  /\ lost \in SUBSET Rids

Init ==
  /\ pair = [r \in Rids |-> None]
  /\ fresh = {} /\ banned = {} /\ lost = {}
  /\ stored = None
  /\ access = [t \in Tabs |-> None]
  /\ active = [t \in Tabs |-> FALSE]
  /\ refresh = [t \in Tabs |-> None]
  /\ logout = [t \in Tabs |-> None]
  /\ req = [t \in Tabs |-> [s \in Slots |-> None]]

-----------------------------------------------------------------------------
(* The tokens and the requests of a tab.                                   *)

Dropped(q) == IF q # None /\ q.kind = "me" THEN [q EXCEPT !.kind = "dropped"] ELSE q
Outdated(f) == IF f = None THEN None ELSE [f EXCEPT !.current = FALSE]

\* tokenStore.clear, sessionActive set to false and the query cache emptied.
\* next and rest are what becomes of the refresh and the requests of the tab.
SignOut(t, next, rest) ==
  /\ stored' = None
  /\ access' = [access EXCEPT ![t] = None]
  /\ active' = [active EXCEPT ![t] = FALSE]
  /\ refresh' = [refresh EXCEPT ![t] = Outdated(next)]
  /\ req' = [req EXCEPT ![t] = [s \in Slots |-> Dropped(rest[s])]]

\* The tab goes on with the refresh next and the requests rest.
GoOn(t, next, rest) ==
  /\ refresh' = [refresh EXCEPT ![t] = next]
  /\ req' = [req EXCEPT ![t] = rest]
  /\ UNCHANGED <<stored, access, active>>

\* Mutant: the new refresh token is not stored.
SetAccessOnly(t, r) ==
  /\ access' = [access EXCEPT ![t] = r]
  /\ stored' = IF stored = None THEN r ELSE stored

SetTokens(t, r) ==
  /\ access' = [access EXCEPT ![t] = r]
  /\ stored' = r

Without(t, s) == [req[t] EXCEPT ![s] = None]
Waiting(t) == {s \in Slots : req[t][s] # None /\ req[t][s].stage = "waiting"}
MeUnderWay(t) == \E s \in Slots : req[t][s] # None /\ req[t][s].kind = "me"

\* The requests once the refresh they wait for is over: sent again with the
\* new access token, or at an end.
Retried(t, r) ==
  [s \in Slots |-> IF s \in Waiting(t) THEN [req[t][s] EXCEPT !.stage = "retry", !.pair = r]
                   ELSE req[t][s]]
Ended(t) == [s \in Slots |-> IF s \in Waiting(t) THEN None ELSE req[t][s]]

\* A request for the profile that ends with 401 or 403 ends the session.
Failed(t, next, failed, rest) ==
  IF \E s \in failed : req[t][s].kind = "me" THEN SignOut(t, next, rest)
  ELSE GoOn(t, next, rest)

-----------------------------------------------------------------------------
(* The server.                                                             *)

Issue(r, f) == pair[r] = None /\ pair' = [pair EXCEPT ![r] = [family |-> f, state |-> "live",
                                                              by |-> None]]

Redeemable(r) == pair[r].state = "live" /\ pair[r].family \notin banned

\* AuthService::refresh, and its answer on the way back.
RefreshAtServer(t) ==
  /\ refresh[t] # None /\ refresh[t].stage = "sent"
  /\ LET p == refresh[t].pair IN
     \/ /\ Redeemable(p)
        /\ \E r \in {r \in Rids : pair[r] = None} :
             /\ pair' = [pair EXCEPT ![p].state = "rotated", ![p].by = t,
                           ![r] = [family |-> pair[p].family, state |-> "live", by |-> None]]
             /\ fresh' = fresh \cup {r}
             /\ refresh' = [refresh EXCEPT ![t].stage = "granted", ![t].next = r]
     \/ /\ ~Redeemable(p)
        /\ refresh' = [refresh EXCEPT ![t].stage = "refused"]
        /\ UNCHANGED <<pair, fresh>>
  /\ UNCHANGED <<banned, stored, access, active, logout, req, lost>>

\* The server answers 500, before or after it has revoked the pair.
RefreshBreaks(t) ==
  /\ refresh[t] # None /\ refresh[t].stage = "sent"
  /\ refresh' = [refresh EXCEPT ![t].stage = "refused"]
  /\ lost' = lost \cup {refresh[t].pair}
  /\ UNCHANGED <<server, stored, access, active, logout, req>>

\* A pair whose refresh broke down may have been rotated all the same.
LostAtServer(r) ==
  /\ r \in lost /\ Redeemable(r)
  /\ pair' = [pair EXCEPT ![r].state = "rotated"]
  /\ UNCHANGED <<fresh, banned, stored, access, active, refresh, logout, req, lost>>

Closed(p) == IF p # None /\ p.state = "live" THEN [p EXCEPT !.state = "closed"] ELSE p

\* A password reset or the end of their life closes the pairs of a login, and
\* a suspension also shuts the user out.
EndFamily(f) ==
  /\ \E r \in Rids : pair[r] # None /\ pair[r].family = f /\ pair[r].state = "live"
  /\ pair' = [r \in Rids |-> IF pair[r] # None /\ pair[r].family = f THEN Closed(pair[r])
                             ELSE pair[r]]
  /\ banned' \in {banned, banned \cup {f}}
  /\ UNCHANGED <<fresh, stored, access, active, refresh, logout, req, lost>>

InUse(r) ==
  \E t \in Tabs : access[t] = r \/ \E s \in Slots : req[t][s] # None /\ req[t][s].pair = r

\* An access token expires; before it is in use nobody could tell.
Expire(r) ==
  /\ r \in fresh /\ InUse(r)
  /\ fresh' = fresh \ {r}
  /\ UNCHANGED <<pair, banned, stored, access, active, refresh, logout, req, lost>>

-----------------------------------------------------------------------------
(* Login, logout, and a tab that is loaded again.                          *)

\* The login and registration pages are open to everybody at any time.
Login(t, f, r) ==
  /\ \A p \in Rids : pair[p] # None => pair[p].family # f
  /\ Issue(r, f)
  /\ fresh' = fresh \cup {r}
  /\ SetTokens(t, r)
  /\ active' = [active EXCEPT ![t] = TRUE]
  /\ UNCHANGED <<banned, refresh, logout, req, lost>>

LogoutStart(t) ==
  /\ active[t] /\ logout[t] = None /\ stored # None
  /\ Cardinality({x \in Tabs : logout[x] # None}) < MaxLogouts
  /\ logout' = [logout EXCEPT ![t] = stored]
  /\ UNCHANGED <<server, stored, access, active, refresh, req, lost>>

LogoutAtServer(t) ==
  /\ logout[t] # None
  /\ pair' = [pair EXCEPT ![logout[t]] = Closed(@)]
  /\ UNCHANGED <<fresh, banned, stored, access, active, refresh, logout, req, lost>>

\* The answer is in, or the call failed, or there was nothing to revoke.
LogoutDone(t) ==
  /\ logout[t] # None \/ (active[t] /\ stored = None)
  /\ logout' = [logout EXCEPT ![t] = None]
  /\ SignOut(t, refresh[t], req[t])
  /\ UNCHANGED <<server, lost>>

Presented(t) == IF refresh[t] = None THEN {} ELSE {refresh[t].pair}

Reload(t) ==
  /\ lost' = lost \cup Presented(t)
  /\ access' = [access EXCEPT ![t] = None]
  /\ active' = [active EXCEPT ![t] = stored # None]
  /\ refresh' = [refresh EXCEPT ![t] = None]
  /\ logout' = [logout EXCEPT ![t] = None]
  /\ req' = [req EXCEPT ![t] = [s \in Slots |-> None]]
  /\ UNCHANGED <<server, stored>>

-----------------------------------------------------------------------------
(* Requests.                                                               *)

Send(t, s, kind) ==
  /\ active[t]
  /\ req[t][s] = None
  /\ kind = "me" => ~MeUnderWay(t)
  /\ Cardinality({x \in Tabs \X Slots : req[x[1]][x[2]] # None}) < MaxPending
  /\ req' = [req EXCEPT ![t][s] = [kind |-> kind, stage |-> "sent", pair |-> access[t]]]
  /\ UNCHANGED <<server, stored, access, active, refresh, logout, lost>>

Answerable(t, s) == req[t][s] # None /\ req[t][s].stage # "waiting"
Accepted(t, s) == req[t][s].pair \in fresh

\* A success, an error without consequences for the session, or no answer.
Answered(t, s) ==
  /\ Answerable(t, s)
  /\ req' = [req EXCEPT ![t] = Without(t, s)]
  /\ UNCHANGED <<server, stored, access, active, refresh, logout, lost>>

\* Mutant: every request starts a refresh of its own.
OwnRefresh(t) == [stage |-> "sent", pair |-> stored, next |-> None, current |-> TRUE]

\* 401, and a refresh token is stored: start a refresh or wait for the one
\* that is under way.
SharedRefresh(t) ==
  IF refresh[t] # None THEN refresh[t]
  ELSE [stage |-> "sent", pair |-> stored, next |-> None, current |-> TRUE]

\* Mutant: a refresh is started although no token is stored.
UnauthorizedAlways(t, s) ==
  /\ Answerable(t, s) /\ ~Accepted(t, s)
  /\ req[t][s].stage = "sent"
  /\ GoOn(t, SharedRefresh(t), [req[t] EXCEPT ![s].stage = "waiting", ![s].pair = None])
  /\ UNCHANGED <<server, logout, lost>>

Unauthorized(t, s) ==
  /\ Answerable(t, s) /\ ~Accepted(t, s)
  /\ req[t][s].stage = "sent" /\ stored # None
  /\ GoOn(t, SharedRefresh(t), [req[t] EXCEPT ![s].stage = "waiting", ![s].pair = None])
  /\ UNCHANGED <<server, logout, lost>>

\* 401 with nothing to refresh with.
Rejected(t, s) ==
  /\ Answerable(t, s) /\ ~Accepted(t, s)
  /\ req[t][s].stage = "sent" /\ stored = None
  /\ Failed(t, refresh[t], {s}, Without(t, s))
  /\ UNCHANGED <<server, logout, lost>>

\* 401 to the second attempt.
RetryRejected(t, s) ==
  /\ Answerable(t, s) /\ ~Accepted(t, s)
  /\ req[t][s].stage = "retry"
  /\ SignOut(t, refresh[t], Without(t, s))
  /\ UNCHANGED <<server, logout, lost>>

\* 403 to the request for the profile: the user is suspended.
ShutOut(t, s) ==
  /\ Answerable(t, s) /\ Accepted(t, s)
  /\ req[t][s].kind = "me" /\ pair[req[t][s].pair].family \in banned
  /\ SignOut(t, refresh[t], Without(t, s))
  /\ UNCHANGED <<server, logout, lost>>

\* 403 to any other request, for any reason: the profile is asked for again.
Forbidden(t, s) ==
  /\ Answerable(t, s) /\ Accepted(t, s)
  /\ req[t][s].kind = "other" /\ access[t] # None
  /\ req' = [req EXCEPT ![t] = [[x \in Slots |-> Dropped(req[t][x])] EXCEPT ![s] =
                                  [kind |-> "me", stage |-> "sent", pair |-> access[t]]]]
  /\ UNCHANGED <<server, stored, access, active, refresh, logout, lost>>

-----------------------------------------------------------------------------
(* The answer of a refresh.                                                *)

\* The session ended while the refresh was under way: its answer is ignored.
RefreshOutdated(t) ==
  /\ refresh[t] # None /\ refresh[t].stage \in {"granted", "refused"}
  /\ ~refresh[t].current
  /\ Failed(t, None, Waiting(t), Ended(t))
  /\ UNCHANGED <<server, logout, lost>>

\* Mutant: the epoch is not compared.
RefusedWhenever(t) ==
  /\ refresh[t] # None /\ refresh[t].stage = "refused"
  /\ SignOut(t, None, Ended(t))
  /\ UNCHANGED <<server, logout, lost>>

RefreshRefused(t) ==
  /\ refresh[t] # None /\ refresh[t].stage = "refused"
  /\ refresh[t].current
  /\ SignOut(t, None, Ended(t))
  /\ UNCHANGED <<server, logout, lost>>

\* The headers say 200 and the session goes on: the body is still to come.
RefreshGranted(t) ==
  /\ refresh[t] # None /\ refresh[t].stage = "granted"
  /\ refresh[t].current
  /\ GoOn(t, [refresh[t] EXCEPT !.stage = "reading"], req[t])
  /\ UNCHANGED <<server, logout, lost>>

\* The epoch is not compared again after response.json().
Install(t) ==
  /\ refresh[t] # None /\ refresh[t].stage = "reading"
  /\ SetTokens(t, refresh[t].next)
  /\ refresh' = [refresh EXCEPT ![t] = None]
  /\ req' = [req EXCEPT ![t] = Retried(t, refresh[t].next)]
  /\ UNCHANGED <<server, active, logout, lost>>

\* No connection, or the answer breaks off: no 401, the tokens stay.
RefreshFails(t) ==
  /\ refresh[t] # None
  /\ lost' = lost \cup Presented(t)
  /\ GoOn(t, None, Ended(t))
  /\ UNCHANGED <<server, logout>>

Next ==
  \/ \E t \in Tabs, f \in Families, r \in Rids : Login(t, f, r)
  \/ \E t \in Tabs : \/ RefreshAtServer(t) \/ RefreshBreaks(t) \/ RefreshFails(t)
                     \/ RefreshOutdated(t) \/ RefreshRefused(t)
                     \/ RefreshGranted(t) \/ Install(t)
                     \/ LogoutStart(t) \/ LogoutAtServer(t) \/ LogoutDone(t)
                     \/ Reload(t)
  \/ \E t \in Tabs, s \in Slots :
       \/ Send(t, s, "me") \/ Send(t, s, "other") \/ Answered(t, s)
       \/ Unauthorized(t, s) \/ Rejected(t, s) \/ RetryRejected(t, s)
       \/ ShutOut(t, s) \/ Forbidden(t, s)
  \/ \E r \in Rids : LostAtServer(r) \/ Expire(r)
  \/ \E f \in Families : EndFamily(f)

Spec == Init /\ [][Next]_vars

-----------------------------------------------------------------------------
(* Properties.                                                             *)

\* docs/API.md:30: the stored refresh token is replaced each time one is
\* rotated.  The token in localStorage has not been rotated away, unless the
\* refresh that did it is still under way in some tab, or broke down before
\* its answer arrived.
StoredIsCurrent ==
  stored # None /\ pair[stored].state = "rotated" =>
    \/ stored \in lost
    \/ \E t \in Tabs : stored \in Presented(t)

\* A tab never brings a refusal on itself: the token that the server refuses
\* was revoked, is of a suspended user, was rotated by another tab, or was
\* presented before in a refresh that broke down.
RefusedForCause ==
  \A t \in Tabs : refresh[t] # None /\ refresh[t].stage = "refused" =>
    LET p == refresh[t].pair IN
      \/ p \in lost
      \/ pair[p].family \in banned
      \/ pair[p].state = "closed"
      \/ pair[p].state = "rotated" /\ pair[p].by # t

\* A refresh whose session ended before its answer arrived ends without a
\* trace: it neither stores the tokens it got nor ends the session that began
\* in the meantime, unless the new session's own request for the profile was
\* waiting for it.
LateAnswerIgnored ==
  [][\A t \in Tabs :
       refresh[t] # None /\ ~refresh[t].current /\ refresh[t].stage # "reading"
         /\ refresh'[t] # refresh[t] /\ refresh'[t] = None
         /\ ~(\E s \in Waiting(t) : req[t][s].kind = "me")
       => stored' = stored]_vars
=============================================================================
