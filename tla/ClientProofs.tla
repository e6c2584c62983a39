---------------------------- MODULE ClientProofs ----------------------------
(***************************************************************************)
(* The session of the browser application, for any number of tabs, logins, *)
(* pairs and requests.  The argument follows a pair of tokens: the one a   *)
(* refresh got is known to that refresh alone until it is stored, and a    *)
(* stored pair that was rotated away is still in the hands of the tab that *)
(* rotated it.                                                             *)
(***************************************************************************)
EXTENDS Client, TLAPS

\* The pair is on its way to a tab, or being read there.
Holding(t) == refresh[t] # None /\ refresh[t].stage \in {"granted", "reading"}

\* Every pair a tab knows of was issued.
Issued ==
  /\ stored # None => pair[stored] # None
  /\ \A r \in lost : pair[r] # None
  /\ \A t \in Tabs : refresh[t] # None => pair[refresh[t].pair] # None
  /\ \A t \in Tabs : Holding(t) => refresh[t].next \in Rids /\ pair[refresh[t].next] # None
  /\ \A t \in Tabs : logout[t] # None => pair[logout[t]] # None

\* A pair that is not installed yet has been presented by nobody, is held by
\* one tab, and cannot have been rotated.
NextUnseen ==
  \A t \in Tabs : Holding(t) =>
    /\ refresh[t].next # stored /\ refresh[t].next \notin lost
    /\ pair[refresh[t].next].state # "rotated"
    /\ \A u \in Tabs : /\ refresh[u] # None => refresh[u].pair # refresh[t].next
                       /\ Holding(u) /\ u # t => refresh[u].next # refresh[t].next

\* The stored pair, once rotated, is being replaced by the tab that did it.
StoredReplaced ==
  stored # None /\ pair[stored].state = "rotated" /\ stored \notin lost =>
    \E t \in Tabs : Holding(t) /\ refresh[t].pair = stored /\ pair[stored].by = t

\* A pair that a tab presents was not rotated by an earlier refresh of its own.
SentIsNew ==
  \A t \in Tabs : refresh[t] # None /\ refresh[t].stage = "sent" =>
    LET p == refresh[t].pair
    IN  pair[p].state = "rotated" => p \in lost \/ pair[p].by # t

\* A refresh that is out of date has not presented the pair that is stored.
OutdatedElsewhere ==
  \A t \in Tabs : refresh[t] # None /\ ~refresh[t].current => refresh[t].pair # stored

IInv ==
  /\ TypeOK
  /\ Issued /\ NextUnseen /\ StoredReplaced /\ SentIsNew /\ OutdatedElsewhere
  /\ RefusedForCause

-----------------------------------------------------------------------------
\* The fields of a refresh that is under way.
LEMMA RefreshTyped ==
  ASSUME TypeOK, NEW t \in Tabs, refresh[t] # None
  PROVE  /\ refresh[t] \in Refresh
         /\ refresh[t].stage \in {"sent", "refused", "granted", "reading"}
         /\ refresh[t].pair \in Rids /\ refresh[t].next \in Opt(Rids)
         /\ refresh[t].current \in BOOLEAN
<1>1. refresh[t] \in Refresh
  BY DEF TypeOK, Opt
<1> QED BY <1>1 DEF Refresh

\* A step of one tab that presents no new pair, installs none and leaves the
\* server alone.  A pair it drops while it is stored is recorded as lost.
LEMMA LocalKeeps ==
  ASSUME IInv, TypeOK', NEW t \in Tabs, NEW f \in Opt(Refresh),
         pair' = pair, banned' = banned,
         lost \subseteq lost', lost' \subseteq lost \cup Presented(t),
         refresh' = [refresh EXCEPT ![t] = f],
         stored' \in {stored, None},
         \A u \in Tabs : logout'[u] \in {logout[u], stored, None},
         f # None =>
           /\ refresh[t] # None /\ f.pair = refresh[t].pair /\ f.next = refresh[t].next
           /\ f.stage = refresh[t].stage \/ (refresh[t].stage = "granted" /\ f.stage = "reading")
           /\ f.current = refresh[t].current \/ stored' = None,
         f = None /\ Holding(t) =>
           stored' = None \/ refresh[t].pair \in lost' \/ ~refresh[t].current
  PROVE  IInv'
<1>1. refresh'[t] = f /\ \A u \in Tabs : u # t => refresh'[u] = refresh[u]
  BY DEF IInv, TypeOK
<1>2. \A u \in Tabs : refresh'[u] # None =>
        /\ refresh[u] # None
        /\ refresh'[u].pair = refresh[u].pair /\ refresh'[u].next = refresh[u].next
        /\ refresh'[u].stage \in {"sent", "refused"} => refresh'[u].stage = refresh[u].stage
        /\ Holding(u)' <=> Holding(u)
  BY <1>1 DEF Holding, Refresh, IInv, TypeOK
<1>3. \A u \in Tabs : Holding(u)' => Holding(u) /\ refresh'[u] # None
  BY <1>2 DEF Holding
<1>4. \A r \in lost' : r \in lost \/ (refresh[t] # None /\ r = refresh[t].pair)
  BY DEF Presented
<1>5. Issued'
  <2>1. stored' # None => pair'[stored'] # None
    BY DEF IInv, Issued
  <2>2. \A r \in lost' : pair'[r] # None
    BY <1>4 DEF IInv, Issued
  <2>3. \A u \in Tabs : refresh'[u] # None => pair'[refresh'[u].pair] # None
    BY <1>2 DEF IInv, Issued
  <2>4. \A u \in Tabs : Holding(u)' => refresh'[u].next \in Rids /\ pair'[refresh'[u].next] # None
    BY <1>2, <1>3 DEF IInv, Issued
  <2>5. \A u \in Tabs : logout'[u] # None => pair'[logout'[u]] # None
    BY DEF IInv, Issued
  <2> QED BY <2>1, <2>2, <2>3, <2>4, <2>5 DEF Issued
<1>6. NextUnseen'
  <2> SUFFICES ASSUME NEW u \in Tabs, Holding(u)'
      PROVE  /\ refresh'[u].next # stored' /\ refresh'[u].next \notin lost'
             /\ pair'[refresh'[u].next].state # "rotated"
             /\ \A v \in Tabs : /\ refresh'[v] # None => refresh'[v].pair # refresh'[u].next
                                /\ Holding(v)' /\ v # u => refresh'[v].next # refresh'[u].next
    BY DEF NextUnseen
  <2>1. Holding(u) /\ refresh'[u].next = refresh[u].next /\ refresh[u].next \in Rids
    BY <1>2, <1>3 DEF IInv, Issued
  <2>2. refresh[u].next # stored' /\ refresh[u].next \notin lost'
    <3>1. /\ refresh[u].next # stored /\ refresh[u].next \notin lost
          /\ refresh[t] # None => refresh[t].pair # refresh[u].next
      BY <2>1 DEF IInv, NextUnseen
    <3>2. refresh[u].next # None
      BY <2>1, NoneIsNoValue
    <3>3. refresh[u].next # stored'
      BY <3>1, <3>2
    <3>4. refresh[u].next \notin lost'
      BY <1>4, <3>1
    <3> QED BY <3>3, <3>4
  <2>3. \A v \in Tabs : /\ refresh'[v] # None => refresh'[v].pair # refresh'[u].next
                        /\ Holding(v)' /\ v # u => refresh'[v].next # refresh'[u].next
    BY <1>2, <1>3, <2>1 DEF IInv, NextUnseen
  <2> QED BY <2>1, <2>2, <2>3 DEF IInv, NextUnseen
<1>7. StoredReplaced'
  <2> SUFFICES ASSUME stored' # None, pair'[stored'].state = "rotated", stored' \notin lost'
      PROVE  \E u \in Tabs : Holding(u)' /\ refresh'[u].pair = stored' /\ pair'[stored'].by = u
    BY DEF StoredReplaced
  <2>1. stored' = stored /\ stored \notin lost
    OBVIOUS
  <2>2. PICK u \in Tabs : Holding(u) /\ refresh[u].pair = stored /\ pair[stored].by = u
    BY <2>1 DEF IInv, StoredReplaced
  <2>3. refresh'[u] # None
    <3>1. CASE u # t
      BY <1>1, <2>2, <3>1 DEF Holding
    <3>2. CASE u = t
      <4>1. refresh[t].current
        BY <2>2, <3>2 DEF IInv, OutdatedElsewhere, Holding
      <4> QED BY <1>1, <2>1, <2>2, <3>2, <4>1
    <3> QED BY <3>1, <3>2
  <2> QED BY <1>2, <2>1, <2>2, <2>3
<1>8. SentIsNew'
  BY <1>2 DEF IInv, SentIsNew
<1>9. OutdatedElsewhere'
  <2> SUFFICES ASSUME NEW u \in Tabs, refresh'[u] # None, ~refresh'[u].current
      PROVE  refresh'[u].pair # stored'
    BY DEF OutdatedElsewhere
  <2>1. refresh[u] # None /\ refresh'[u].pair = refresh[u].pair /\ refresh[u].pair \in Rids
    BY <1>2, RefreshTyped DEF IInv
  <2>2. CASE stored' = None
    BY <2>1, <2>2, NoneIsNoValue
  <2>3. CASE stored' # None
    <3>1. stored' = stored /\ ~refresh[u].current
      BY <1>1, <2>3
    <3> QED BY <2>1, <3>1 DEF IInv, OutdatedElsewhere
  <2> QED BY <2>2, <2>3
<1>10. RefusedForCause'
  BY <1>2 DEF IInv, RefusedForCause
<1> QED BY <1>5, <1>6, <1>7, <1>8, <1>9, <1>10 DEF IInv

\* A step that leaves the session and the pairs alone.
LEMMA SameKeeps ==
  ASSUME IInv, TypeOK', pair' = pair, banned' = banned, stored' = stored, refresh' = refresh,
         lost' = lost, \A u \in Tabs : logout'[u] \in {logout[u], stored, None}
  PROVE  IInv'
<1>1. Issued'
  BY DEF IInv, Issued, Holding
<1>2. NextUnseen' /\ StoredReplaced'
  BY DEF IInv, NextUnseen, StoredReplaced, Holding
<1>3. SentIsNew' /\ OutdatedElsewhere' /\ RefusedForCause'
  BY DEF IInv, SentIsNew, OutdatedElsewhere, RefusedForCause
<1> QED BY <1>1, <1>2, <1>3 DEF IInv

\* A step of the server that rotates nothing but what a broken refresh lost.
LEMMA ServerKeeps ==
  ASSUME IInv, TypeOK', stored' = stored, refresh' = refresh, lost' = lost, logout' = logout,
         banned \subseteq banned',
         \A p \in Rids : pair[p] # None =>
           /\ pair'[p] # None /\ pair'[p].family = pair[p].family
           /\ pair[p].state # "live" => pair'[p] = pair[p]
           /\ pair'[p].state = "rotated" => pair[p].state = "rotated" \/ p \in lost
  PROVE  IInv'
<1>1. \A t \in Tabs : refresh[t] # None => refresh[t].pair \in Rids /\ pair[refresh[t].pair] # None
  BY RefreshTyped DEF IInv, Issued
<1>2. stored # None => stored \in Rids /\ pair[stored] # None
  BY DEF IInv, Issued, TypeOK, Opt
<1>3. \A t \in Tabs : logout[t] # None => logout[t] \in Rids /\ pair[logout[t]] # None
  BY DEF IInv, Issued, TypeOK, Opt
<1>4. \A t \in Tabs : Holding(t) => refresh[t].next \in Rids /\ pair[refresh[t].next] # None
  BY DEF IInv, Issued
<1>5. \A r \in lost : r \in Rids /\ pair[r] # None
  BY DEF IInv, Issued, TypeOK
<1>6. Issued'
  BY <1>1, <1>2, <1>3, <1>4, <1>5 DEF Issued, Holding
<1>7. NextUnseen'
  BY <1>4 DEF IInv, NextUnseen, Holding
<1>8. StoredReplaced'
  BY <1>2 DEF IInv, StoredReplaced, Holding
<1>9. SentIsNew'
  BY <1>1 DEF IInv, SentIsNew
<1>10. OutdatedElsewhere'
  BY DEF IInv, OutdatedElsewhere
<1>11. RefusedForCause'
  BY <1>1 DEF IInv, RefusedForCause
<1> QED BY <1>6, <1>7, <1>8, <1>9, <1>10, <1>11 DEF IInv

-----------------------------------------------------------------------------
\* The requests of a tab keep their types.
LEMMA PendingTyped ==
  ASSUME TypeOK, NEW t \in Tabs
  PROVE  /\ req[t] \in [Slots -> Opt(Pending)]
         /\ \A s \in Slots : Without(t, s) \in [Slots -> Opt(Pending)]
         /\ Ended(t) \in [Slots -> Opt(Pending)]
         /\ \A r \in Rids : Retried(t, r) \in [Slots -> Opt(Pending)]
         /\ \A q \in Opt(Pending) : Dropped(q) \in Opt(Pending)
<1>1. req[t] \in [Slots -> Opt(Pending)]
  BY DEF TypeOK
<1>2. \A s \in Slots : Without(t, s) \in [Slots -> Opt(Pending)]
  BY <1>1 DEF Without, Opt
<1>3. Ended(t) \in [Slots -> Opt(Pending)]
  BY <1>1 DEF Ended, Opt
<1>4. ASSUME NEW r \in Rids PROVE Retried(t, r) \in [Slots -> Opt(Pending)]
  <2>1. ASSUME NEW s \in Waiting(t)
        PROVE  [req[t][s] EXCEPT !.stage = "retry", !.pair = r] \in Pending
    <3>1. req[t][s] \in Pending
      BY <1>1, <2>1 DEF Waiting, Opt
    <3> QED BY <3>1 DEF Pending, Opt
  <2> QED BY <1>1, <2>1 DEF Retried, Opt
<1>5. ASSUME NEW q \in Opt(Pending) PROVE Dropped(q) \in Opt(Pending)
  <2>1. q # None => q \in Pending /\ [q EXCEPT !.kind = "dropped"] \in Pending
    BY DEF Opt, Pending
  <2> QED BY <2>1 DEF Dropped, Opt
<1> QED BY <1>1, <1>2, <1>3, <1>4, <1>5

\* Ending the session or going on with next and rest keeps the types of the
\* tab, and changes the refresh in no more than its being up to date.
LEMMA SessionTyped ==
  ASSUME TypeOK, NEW t \in Tabs, NEW next \in Opt(Refresh), NEW rest \in [Slots -> Opt(Pending)],
         SignOut(t, next, rest) \/ GoOn(t, next, rest)
  PROVE  /\ stored' \in {stored, None} /\ stored' \in Opt(Rids)
         /\ access' \in [Tabs -> Opt(Rids)] /\ active' \in [Tabs -> BOOLEAN]
         /\ req' \in [Tabs -> [Slots -> Opt(Pending)]]
         /\ refresh' \in [Tabs -> Opt(Refresh)]
         /\ \E f \in Opt(Refresh) :
              /\ refresh' = [refresh EXCEPT ![t] = f]
              /\ next = None <=> f = None
              /\ f # None => /\ f.pair = next.pair /\ f.next = next.next
                             /\ f.stage = next.stage
                             /\ f.current = next.current \/ stored' = None
<1>1. CASE GoOn(t, next, rest)
  BY <1>1 DEF GoOn, TypeOK, Opt
<1>2. CASE SignOut(t, next, rest)
  <2>1. [s \in Slots |-> Dropped(rest[s])] \in [Slots -> Opt(Pending)]
    BY PendingTyped
  <2>2. next # None =>
          /\ next \in Refresh
          /\ [next EXCEPT !.current = FALSE] \in Refresh
          /\ [next EXCEPT !.current = FALSE].pair = next.pair
          /\ [next EXCEPT !.current = FALSE].next = next.next
          /\ [next EXCEPT !.current = FALSE].stage = next.stage
    BY DEF Opt, Refresh
  <2>3. /\ Outdated(next) \in Opt(Refresh) /\ (next = None <=> Outdated(next) = None)
        /\ next # None => /\ Outdated(next).pair = next.pair /\ Outdated(next).next = next.next
                          /\ Outdated(next).stage = next.stage
    BY <2>2, NoneIsNoValue DEF Outdated, Opt
  <2>4. /\ stored' = None /\ refresh' = [refresh EXCEPT ![t] = Outdated(next)]
        /\ access' = [access EXCEPT ![t] = None] /\ active' = [active EXCEPT ![t] = FALSE]
        /\ req' = [req EXCEPT ![t] = [s \in Slots |-> Dropped(rest[s])]]
    BY <1>2 DEF SignOut
  <2> HIDE <1>2
  <2>5. access' \in [Tabs -> Opt(Rids)] /\ active' \in [Tabs -> BOOLEAN] /\ stored' \in Opt(Rids)
    BY <2>4 DEF TypeOK, Opt
  <2>6. req' \in [Tabs -> [Slots -> Opt(Pending)]]
    BY <2>1, <2>4 DEF TypeOK
  <2>7. refresh' \in [Tabs -> Opt(Refresh)]
    BY <2>3, <2>4 DEF TypeOK
  <2> QED BY <2>3, <2>4, <2>5, <2>6, <2>7
<1> QED BY <1>1, <1>2

\* The tab ends its session or goes on, with a refresh that is the old one, the
\* old one being read, or none.
LEMMA QuietKeeps ==
  ASSUME IInv, NEW t \in Tabs, NEW next \in Opt(Refresh), NEW rest \in [Slots -> Opt(Pending)],
         SignOut(t, next, rest) \/ GoOn(t, next, rest),
         pair' = pair, fresh' = fresh, banned' = banned,
         logout' \in [Tabs -> Opt(Rids)],
         \A u \in Tabs : logout'[u] \in {logout[u], stored, None},
         lost \subseteq lost', lost' \subseteq lost \cup Presented(t),
         next # None =>
           /\ refresh[t] # None /\ next.pair = refresh[t].pair /\ next.next = refresh[t].next
           /\ next.stage = refresh[t].stage
                \/ (refresh[t].stage = "granted" /\ next.stage = "reading")
           /\ next.current = refresh[t].current,
         next = None /\ Holding(t) =>
           stored' = None \/ refresh[t].pair \in lost' \/ ~refresh[t].current
  PROVE  IInv'
<1>1. TypeOK
  BY DEF IInv
<1>2. Presented(t) \subseteq Rids
  BY <1>1, RefreshTyped DEF Presented
<1>3. TypeOK'
  BY <1>1, <1>2, SessionTyped DEF TypeOK
<1>4. PICK f \in Opt(Refresh) :
         /\ refresh' = [refresh EXCEPT ![t] = f] /\ stored' \in {stored, None}
         /\ next = None <=> f = None
         /\ f # None => /\ f.pair = next.pair /\ f.next = next.next /\ f.stage = next.stage
                        /\ f.current = next.current \/ stored' = None
  BY <1>1, SessionTyped
<1> QED BY <1>3, <1>4, LocalKeeps

LEMMA LogoutDoneKeeps ==
  ASSUME IInv, NEW t \in Tabs, LogoutDone(t)
  PROVE  IInv'
<1>1. TypeOK
  BY DEF IInv
<1>2. PICK next \in Opt(Refresh) : next = refresh[t]
  BY <1>1 DEF TypeOK
<1>3. PICK rest \in [Slots -> Opt(Pending)] : rest = req[t]
  BY <1>1, PendingTyped
<1>4. SignOut(t, next, rest)
  BY <1>2, <1>3 DEF LogoutDone, SignOut
<1>5. /\ logout' \in [Tabs -> Opt(Rids)] /\ \A u \in Tabs : logout'[u] \in {logout[u], stored, None}
      /\ pair' = pair /\ fresh' = fresh /\ banned' = banned /\ lost' = lost
  BY <1>1 DEF LogoutDone, server, TypeOK, Opt
<1> QED BY <1>2, <1>4, <1>5, QuietKeeps DEF Holding

\* The requests for which the tab or the server has nothing left to do.
LEMMA EndedRequestKeeps ==
  ASSUME IInv, NEW t \in Tabs, NEW s \in Slots,
         Rejected(t, s) \/ RetryRejected(t, s) \/ ShutOut(t, s)
  PROVE  IInv'
<1>1. TypeOK
  BY DEF IInv
<1>2. PICK next \in Opt(Refresh) : next = refresh[t]
  BY <1>1 DEF TypeOK
<1>3. PICK rest \in [Slots -> Opt(Pending)] : rest = Without(t, s)
  BY <1>1, PendingTyped
<1>4. SignOut(t, next, rest) \/ GoOn(t, next, rest)
  BY <1>2, <1>3 DEF Rejected, RetryRejected, ShutOut, Failed, SignOut, GoOn
<1>5. /\ pair' = pair /\ fresh' = fresh /\ banned' = banned /\ lost' = lost /\ logout' = logout
  BY DEF Rejected, RetryRejected, ShutOut, server
<1>6. logout' \in [Tabs -> Opt(Rids)] /\ \A u \in Tabs : logout'[u] \in {logout[u], stored, None}
  BY <1>1, <1>5 DEF TypeOK
<1> QED BY <1>2, <1>4, <1>5, <1>6, QuietKeeps DEF Holding

\* The ends of a refresh, but for the one that stores its pair.
LEMMA EndedRefreshKeeps ==
  ASSUME IInv, NEW t \in Tabs, RefreshOutdated(t) \/ RefreshRefused(t) \/ RefreshFails(t)
  PROVE  IInv'
<1>1. TypeOK /\ refresh[t] # None
  BY DEF IInv, RefreshOutdated, RefreshRefused, RefreshFails
<1>2. PICK rest \in [Slots -> Opt(Pending)] : rest = Ended(t)
  BY <1>1, PendingTyped
<1>3. SignOut(t, None, rest) \/ GoOn(t, None, rest)
  BY <1>2 DEF RefreshOutdated, RefreshRefused, RefreshFails, Failed, SignOut, GoOn
<1>4. /\ pair' = pair /\ fresh' = fresh /\ banned' = banned /\ logout' = logout
      /\ lost \subseteq lost' /\ lost' \subseteq lost \cup Presented(t)
  BY DEF RefreshOutdated, RefreshRefused, RefreshFails, server
<1>5. logout' \in [Tabs -> Opt(Rids)] /\ \A u \in Tabs : logout'[u] \in {logout[u], stored, None}
  BY <1>1, <1>4 DEF TypeOK
<1>6. Holding(t) => stored' = None \/ refresh[t].pair \in lost' \/ ~refresh[t].current
  BY <1>1 DEF RefreshOutdated, RefreshRefused, RefreshFails, Holding, Presented, SignOut
<1>7. None \in Opt(Refresh)
  BY DEF Opt
<1> QED BY <1>3, <1>4, <1>5, <1>6, <1>7, QuietKeeps

LEMMA RefreshGrantedKeeps ==
  ASSUME IInv, NEW t \in Tabs, RefreshGranted(t)
  PROVE  IInv'
<1>1. TypeOK /\ refresh[t] # None /\ refresh[t].stage = "granted"
  BY DEF IInv, RefreshGranted
<1>2. PICK next \in Refresh :
        /\ next = [refresh[t] EXCEPT !.stage = "reading"]
        /\ next.pair = refresh[t].pair /\ next.next = refresh[t].next
        /\ next.stage = "reading" /\ next.current = refresh[t].current
  <2>1. refresh[t] \in Refresh
    BY <1>1, RefreshTyped
  <2>2. /\ [refresh[t] EXCEPT !.stage = "reading"] \in Refresh
        /\ [refresh[t] EXCEPT !.stage = "reading"].pair = refresh[t].pair
        /\ [refresh[t] EXCEPT !.stage = "reading"].next = refresh[t].next
        /\ [refresh[t] EXCEPT !.stage = "reading"].stage = "reading"
        /\ [refresh[t] EXCEPT !.stage = "reading"].current = refresh[t].current
    BY <2>1 DEF Refresh
  <2> QED BY <2>2
<1>3. PICK rest \in [Slots -> Opt(Pending)] : rest = req[t]
  BY <1>1, PendingTyped
<1>4. GoOn(t, next, rest)
  BY <1>2, <1>3 DEF RefreshGranted, GoOn
<1>5. /\ pair' = pair /\ fresh' = fresh /\ banned' = banned /\ lost' = lost /\ logout' = logout
  BY DEF RefreshGranted, server
<1>6. logout' \in [Tabs -> Opt(Rids)] /\ \A u \in Tabs : logout'[u] \in {logout[u], stored, None}
  BY <1>1, <1>5 DEF TypeOK
<1>7. next # None /\ next \in Opt(Refresh)
  BY NoneIsNoValue DEF Opt
<1> QED BY <1>1, <1>2, <1>4, <1>5, <1>6, <1>7, QuietKeeps

LEMMA ReloadKeeps ==
  ASSUME IInv, NEW t \in Tabs, Reload(t)
  PROVE  IInv'
<1>1. TypeOK /\ Presented(t) \subseteq Rids
  BY RefreshTyped DEF IInv, Presented
<1>2. /\ pair' = pair /\ fresh' = fresh /\ banned' = banned /\ stored' = stored
      /\ lost' = lost \cup Presented(t)
      /\ refresh' = [refresh EXCEPT ![t] = None] /\ logout' = [logout EXCEPT ![t] = None]
  BY DEF Reload, server
<1>3. TypeOK'
  <2>1. [s \in Slots |-> None] \in [Slots -> Opt(Pending)]
    BY DEF Opt
  <2>2. req' = [req EXCEPT ![t] = [s \in Slots |-> None]] /\ access' = [access EXCEPT ![t] = None]
        /\ active' = [active EXCEPT ![t] = stored # None]
    BY DEF Reload
  <2>3. req' \in [Tabs -> [Slots -> Opt(Pending)]]
    BY <1>1, <2>1, <2>2 DEF TypeOK
  <2>4. active' \in [Tabs -> BOOLEAN]
    <3>1. (stored # None) \in BOOLEAN
      OBVIOUS
    <3> QED BY <1>1, <2>2, <3>1 DEF TypeOK
  <2>5. access' \in [Tabs -> Opt(Rids)] /\ logout' \in [Tabs -> Opt(Rids)]
        /\ refresh' \in [Tabs -> Opt(Refresh)]
    BY <1>1, <1>2, <2>2 DEF TypeOK, Opt
  <2> QED BY <1>1, <1>2, <2>3, <2>4, <2>5 DEF TypeOK
<1>4. \A u \in Tabs : logout'[u] \in {logout[u], stored, None}
  BY <1>1, <1>2 DEF TypeOK
<1>5. Holding(t) => refresh[t].pair \in lost'
  BY <1>2 DEF Holding, Presented
<1>6. None \in Opt(Refresh)
  BY DEF Opt
<1> QED BY <1>2, <1>3, <1>4, <1>5, <1>6, LocalKeeps

LEMMA RequestKeeps ==
  ASSUME IInv, NEW t \in Tabs, NEW s \in Slots,
         Send(t, s, "me") \/ Send(t, s, "other") \/ Answered(t, s) \/ Forbidden(t, s)
  PROVE  IInv'
<1>1. /\ pair' = pair /\ fresh' = fresh /\ banned' = banned /\ stored' = stored
      /\ access' = access /\ active' = active /\ refresh' = refresh /\ logout' = logout
      /\ lost' = lost
  BY DEF Send, Answered, Forbidden, server
<1>2. TypeOK /\ access[t] \in Opt(Rids)
  BY DEF IInv, TypeOK
<1>3. \A kind \in {"me", "other"} : [kind |-> kind, stage |-> "sent", pair |-> access[t]] \in Pending
  BY <1>2 DEF Pending
<1>4. PICK mine \in [Slots -> Opt(Pending)] : req' = [req EXCEPT ![t] = mine]
  <2>1. CASE Answered(t, s)
    BY <1>2, <2>1, PendingTyped DEF Answered
  <2>2. CASE Send(t, s, "me") \/ Send(t, s, "other")
    <3>1. PICK q \in Pending : req' = [req EXCEPT ![t][s] = q]
      BY <1>3, <2>2 DEF Send
    <3>2. req' = [req EXCEPT ![t] = [req[t] EXCEPT ![s] = q]]
      BY <3>1
    <3>3. [req[t] EXCEPT ![s] = q] \in [Slots -> Opt(Pending)]
      BY <1>2, PendingTyped DEF Opt
    <3> QED BY <3>2, <3>3
  <2>3. CASE Forbidden(t, s)
    <3>1. [x \in Slots |-> Dropped(req[t][x])] \in [Slots -> Opt(Pending)]
      BY <1>2, PendingTyped
    <3>2. [[x \in Slots |-> Dropped(req[t][x])] EXCEPT ![s] =
             [kind |-> "me", stage |-> "sent", pair |-> access[t]]] \in [Slots -> Opt(Pending)]
      BY <1>3, <3>1 DEF Opt
    <3> QED BY <2>3, <3>2 DEF Forbidden
  <2> QED BY <2>1, <2>2, <2>3
<1>5. TypeOK'
  BY <1>1, <1>2, <1>4 DEF TypeOK
<1> QED BY <1>1, <1>5, SameKeeps

LEMMA LogoutStartKeeps ==
  ASSUME IInv, NEW t \in Tabs, LogoutStart(t)
  PROVE  IInv'
<1>1. /\ pair' = pair /\ fresh' = fresh /\ banned' = banned /\ stored' = stored
      /\ access' = access /\ active' = active /\ refresh' = refresh /\ req' = req /\ lost' = lost
      /\ logout' = [logout EXCEPT ![t] = stored]
  BY DEF LogoutStart, server
<1>2. TypeOK'
  BY <1>1 DEF IInv, TypeOK
<1>3. \A u \in Tabs : logout'[u] \in {logout[u], stored, None}
  BY <1>1 DEF IInv, TypeOK
<1> QED BY <1>1, <1>2, <1>3, SameKeeps

LEMMA ExpireKeeps ==
  ASSUME IInv, NEW r \in Rids, Expire(r)
  PROVE  IInv'
<1>1. /\ pair' = pair /\ banned' = banned /\ stored' = stored /\ fresh' = fresh \ {r}
      /\ access' = access /\ active' = active /\ refresh' = refresh /\ req' = req /\ lost' = lost
      /\ logout' = logout
  BY DEF Expire
<1>2. TypeOK'
  BY <1>1 DEF IInv, TypeOK
<1> QED BY <1>1, <1>2, SameKeeps

\* The rows of the server, and what closing does to one.
LEMMA PairTyped ==
  ASSUME TypeOK, NEW p \in Rids
  PROVE  /\ Closed(pair[p]) \in Opt(Pair)
         /\ pair[p] # None =>
              /\ pair[p] \in Pair /\ pair[p].state \in {"live", "rotated", "closed"}
              /\ pair[p].family \in Families /\ pair[p].by \in Opt(Tabs)
              /\ Closed(pair[p]) # None /\ Closed(pair[p]).family = pair[p].family
              /\ pair[p].state # "live" => Closed(pair[p]) = pair[p]
              /\ Closed(pair[p]).state = "rotated" => pair[p].state = "rotated"
<1>1. pair[p] \in Opt(Pair)
  BY DEF TypeOK
<1>2. CASE pair[p] = None
  BY <1>1, <1>2 DEF Closed, Opt
<1>3. CASE pair[p] # None
  <2>1. pair[p] \in Pair
    BY <1>1, <1>3 DEF Opt
  <2>2. /\ [pair[p] EXCEPT !.state = "closed"] \in Pair
        /\ [pair[p] EXCEPT !.state = "closed"].family = pair[p].family
        /\ [pair[p] EXCEPT !.state = "closed"].state = "closed"
    BY <2>1 DEF Pair
  <2>3. /\ pair[p].state \in {"live", "rotated", "closed"}
        /\ pair[p].family \in Families /\ pair[p].by \in Opt(Tabs)
    BY <2>1 DEF Pair
  <2> QED BY <1>3, <2>1, <2>2, <2>3, NoneIsNoValue DEF Closed, Opt
<1> QED BY <1>2, <1>3

LEMMA EndFamilyKeeps ==
  ASSUME IInv, NEW f \in Families, EndFamily(f)
  PROVE  IInv'
<1>1. /\ banned' \in {banned, banned \cup {f}} /\ fresh' = fresh /\ stored' = stored
      /\ access' = access /\ active' = active /\ refresh' = refresh /\ req' = req /\ lost' = lost
      /\ logout' = logout
      /\ pair' = [r \in Rids |-> IF pair[r] # None /\ pair[r].family = f THEN Closed(pair[r])
                                 ELSE pair[r]]
  BY DEF EndFamily
<1>2. TypeOK /\ \A p \in Rids : pair'[p] \in {pair[p], Closed(pair[p])}
  BY <1>1 DEF IInv
<1>3. TypeOK'
  <2>1. pair' \in [Rids -> Opt(Pair)]
    BY <1>1, <1>2, PairTyped DEF TypeOK
  <2> QED BY <1>1, <1>2, <2>1 DEF TypeOK
<1>4. \A p \in Rids : pair[p] # None =>
        /\ pair'[p] # None /\ pair'[p].family = pair[p].family
        /\ pair[p].state # "live" => pair'[p] = pair[p]
        /\ pair'[p].state = "rotated" => pair[p].state = "rotated" \/ p \in lost
  BY <1>2, PairTyped
<1> QED BY <1>1, <1>3, <1>4, ServerKeeps

LEMMA LogoutAtServerKeeps ==
  ASSUME IInv, NEW t \in Tabs, LogoutAtServer(t)
  PROVE  IInv'
<1>1. /\ banned' = banned /\ fresh' = fresh /\ stored' = stored
      /\ access' = access /\ active' = active /\ refresh' = refresh /\ req' = req /\ lost' = lost
      /\ logout' = logout
      /\ pair' = [pair EXCEPT ![logout[t]] = Closed(pair[logout[t]])]
  BY DEF LogoutAtServer
<1>2. TypeOK /\ \A p \in Rids : pair'[p] \in {pair[p], Closed(pair[p])}
  BY <1>1 DEF IInv, TypeOK
<1>3. TypeOK'
  <2>1. pair' \in [Rids -> Opt(Pair)]
    BY <1>1, <1>2, PairTyped DEF TypeOK
  <2> QED BY <1>1, <1>2, <2>1 DEF TypeOK
<1>4. \A p \in Rids : pair[p] # None =>
        /\ pair'[p] # None /\ pair'[p].family = pair[p].family
        /\ pair[p].state # "live" => pair'[p] = pair[p]
        /\ pair'[p].state = "rotated" => pair[p].state = "rotated" \/ p \in lost
  BY <1>2, PairTyped
<1> QED BY <1>1, <1>3, <1>4, ServerKeeps

LEMMA LostAtServerKeeps ==
  ASSUME IInv, NEW r \in Rids, LostAtServer(r)
  PROVE  IInv'
<1>1. /\ banned' = banned /\ fresh' = fresh /\ stored' = stored
      /\ access' = access /\ active' = active /\ refresh' = refresh /\ req' = req /\ lost' = lost
      /\ logout' = logout
      /\ r \in lost /\ pair[r].state = "live" /\ pair' = [pair EXCEPT ![r].state = "rotated"]
  BY DEF LostAtServer, Redeemable
<1>2. TypeOK /\ pair[r] # None
  BY <1>1 DEF IInv, Issued
<1>3. PICK new \in Pair : /\ pair' = [pair EXCEPT ![r] = new]
                          /\ new.family = pair[r].family
  <2>1. pair[r] \in Pair
    BY <1>2, PairTyped
  <2>2. /\ [pair[r] EXCEPT !.state = "rotated"] \in Pair
        /\ [pair[r] EXCEPT !.state = "rotated"].family = pair[r].family
    BY <2>1 DEF Pair
  <2> QED BY <1>1, <2>2
<1>4. pair'[r] = new /\ new # None /\ \A p \in Rids : p # r => pair'[p] = pair[p]
  BY <1>2, <1>3, NoneIsNoValue DEF TypeOK
<1>5. TypeOK'
  <2>1. pair' \in [Rids -> Opt(Pair)]
    BY <1>2, <1>3 DEF TypeOK, Opt
  <2> QED BY <1>1, <1>2, <2>1 DEF TypeOK
<1>6. \A p \in Rids : pair[p] # None =>
        /\ pair'[p] # None /\ pair'[p].family = pair[p].family
        /\ pair[p].state # "live" => pair'[p] = pair[p]
        /\ pair'[p].state = "rotated" => pair[p].state = "rotated" \/ p \in lost
  BY <1>1, <1>3, <1>4
<1> QED BY <1>1, <1>5, <1>6, ServerKeeps

\* A refresh that is refused is not one that holds a pair.
LEMMA RefusedTyped ==
  ASSUME TypeOK, NEW t \in Tabs, refresh[t] # None
  PROVE  \E f \in Refresh :
           /\ f = [refresh[t] EXCEPT !.stage = "refused"]
           /\ f.stage = "refused" /\ f.pair = refresh[t].pair /\ f.next = refresh[t].next
           /\ f.current = refresh[t].current
<1>1. refresh[t] \in Refresh
  BY RefreshTyped
<1>2. /\ [refresh[t] EXCEPT !.stage = "refused"] \in Refresh
      /\ [refresh[t] EXCEPT !.stage = "refused"].stage = "refused"
      /\ [refresh[t] EXCEPT !.stage = "refused"].pair = refresh[t].pair
      /\ [refresh[t] EXCEPT !.stage = "refused"].next = refresh[t].next
      /\ [refresh[t] EXCEPT !.stage = "refused"].current = refresh[t].current
  BY <1>1 DEF Refresh
<1> QED BY <1>2

\* A refusal for cause; the refresh may be recorded as lost with it.
LEMMA RefusalKeeps ==
  ASSUME IInv, NEW t \in Tabs, refresh[t] # None, refresh[t].stage = "sent",
         refresh' = [refresh EXCEPT ![t].stage = "refused"],
         pair' = pair, fresh' = fresh, banned' = banned, stored' = stored, access' = access,
         active' = active, logout' = logout, req' = req,
         lost' = lost \/ lost' = lost \cup {refresh[t].pair},
         LET p == refresh[t].pair
         IN  \/ p \in lost'
             \/ pair[p].family \in banned
             \/ pair[p].state = "closed"
             \/ pair[p].state = "rotated" /\ pair[p].by # t
  PROVE  IInv'
<1>1. TypeOK /\ refresh[t].pair \in Rids
  BY RefreshTyped DEF IInv
<1>2. PICK f \in Refresh :
        /\ refresh' = [refresh EXCEPT ![t] = f]
        /\ f.stage = "refused" /\ f.pair = refresh[t].pair /\ f.next = refresh[t].next
        /\ f.current = refresh[t].current
  BY <1>1, RefusedTyped
<1>3. refresh'[t] = f /\ f # None /\ \A u \in Tabs : u # t => refresh'[u] = refresh[u]
  BY <1>1, <1>2, NoneIsNoValue DEF TypeOK
<1>4. TypeOK'
  <2>1. refresh' \in [Tabs -> Opt(Refresh)]
    BY <1>1, <1>2 DEF TypeOK, Opt
  <2> QED BY <1>1, <2>1 DEF TypeOK
<1>5. \A u \in Tabs : /\ Holding(u)' <=> Holding(u)
                      /\ refresh'[u] # None =>
                           /\ refresh[u] # None /\ refresh'[u].pair = refresh[u].pair
                           /\ refresh'[u].next = refresh[u].next
                           /\ refresh'[u].current = refresh[u].current
                           /\ refresh'[u].stage = "sent" => refresh[u].stage = "sent"
                           /\ refresh'[u].stage = "refused" => u = t \/ refresh[u].stage = "refused"
  BY <1>2, <1>3 DEF Holding
<1>6. \A u \in Tabs : Holding(u) => refresh'[u] # None
  BY <1>5 DEF Holding
<1>7. Issued'
  BY <1>5, <1>6 DEF IInv, Issued
<1>8. NextUnseen'
  BY <1>5, <1>6 DEF IInv, NextUnseen
<1>9. StoredReplaced'
  BY <1>5, <1>6 DEF IInv, StoredReplaced
<1>10. SentIsNew' /\ OutdatedElsewhere'
  BY <1>5 DEF IInv, SentIsNew, OutdatedElsewhere
<1>11. RefusedForCause'
  BY <1>2, <1>3, <1>5 DEF IInv, RefusedForCause
<1> QED BY <1>4, <1>7, <1>8, <1>9, <1>10, <1>11 DEF IInv

LEMMA RefreshBreaksKeeps ==
  ASSUME IInv, NEW t \in Tabs, RefreshBreaks(t)
  PROVE  IInv'
BY RefusalKeeps DEF RefreshBreaks, server

\* The server takes the pair that is presented for a new one.
LEMMA RotationKeeps ==
  ASSUME IInv, TypeOK', NEW t \in Tabs, NEW p \in Rids, NEW r \in Rids,
         NEW old \in Pair, NEW new \in Pair, NEW f \in Refresh,
         refresh[t] # None, refresh[t].stage = "sent", p = refresh[t].pair,
         pair[p] # None, pair[r] = None,
         pair'[p] = old, pair'[r] = new, \A q \in Rids : q # p /\ q # r => pair'[q] = pair[q],
         old.state = "rotated", old.by = t, new.state = "live",
         refresh'[t] = f, \A u \in Tabs : u # t => refresh'[u] = refresh[u],
         f.stage = "granted", f.pair = p, f.next = r, f.current = refresh[t].current,
         banned' = banned, stored' = stored, logout' = logout, lost' = lost
  PROVE  IInv'
<1>1. TypeOK /\ r # p
  BY DEF IInv
<1>2. old # None /\ new # None /\ f # None
  BY NoneIsNoValue
<1>3. \A q \in Rids : pair[q] # None =>
        /\ pair'[q] # None
        /\ q # r
        /\ q # p => pair'[q] = pair[q]
  <2> TAKE q \in Rids
  <2>1. CASE q = p
    BY <1>1, <1>2, <2>1
  <2>2. CASE q # p
    BY <2>2
  <2> QED BY <2>1, <2>2
<1>4. r # stored /\ r \notin lost
  BY <1>1, NoneIsNoValue DEF IInv, Issued
<1>5. \A u \in Tabs : /\ u # t => (Holding(u)' <=> Holding(u))
                      /\ u = t => ~Holding(u) /\ Holding(u)'
  BY <1>2 DEF Holding
<1>6. \A u \in Tabs : refresh'[u] # None =>
        /\ refresh[u] # None /\ refresh'[u].pair = refresh[u].pair
        /\ refresh'[u].current = refresh[u].current
        /\ refresh'[u].stage \in {"sent", "refused"} => u # t
        /\ refresh[u].pair \in Rids /\ pair[refresh[u].pair] # None
  <2> TAKE u \in Tabs
  <2>1. refresh[u] # None => refresh[u].pair \in Rids /\ pair[refresh[u].pair] # None
    BY <1>1, RefreshTyped DEF IInv, Issued
  <2>2. CASE u = t
    BY <2>1, <2>2
  <2>3. CASE u # t
    BY <2>1, <2>3
  <2> QED BY <2>2, <2>3
<1>7. \A u \in Tabs : Holding(u) =>
        /\ refresh[u].next \in Rids /\ pair[refresh[u].next] # None
        /\ refresh[u].next # r /\ refresh[u].next # p /\ u # t
  BY <1>5 DEF IInv, Issued, NextUnseen
<1>8. Issued'
  <2>1. stored' # None => pair'[stored'] # None
    BY <1>3 DEF IInv, Issued, TypeOK, Opt
  <2>2. \A q \in lost' : pair'[q] # None
    BY <1>3 DEF IInv, Issued, TypeOK
  <2>3. \A u \in Tabs : refresh'[u] # None => pair'[refresh'[u].pair] # None
    BY <1>3, <1>6
  <2>4. ASSUME NEW u \in Tabs, Holding(u)'
        PROVE  refresh'[u].next \in Rids /\ pair'[refresh'[u].next] # None
    <3>1. CASE u = t
      BY <1>2, <3>1
    <3>2. CASE u # t
      BY <1>3, <1>5, <1>7, <2>4, <3>2
    <3> QED BY <3>1, <3>2
  <2>5. \A u \in Tabs : logout'[u] # None => pair'[logout'[u]] # None
    BY <1>3 DEF IInv, Issued, TypeOK, Opt
  <2> QED BY <2>1, <2>2, <2>3, <2>4, <2>5 DEF Issued
<1>9. NextUnseen'
  <2>1. ASSUME NEW u \in Tabs, Holding(u)', u # t
        PROVE  /\ refresh'[u].next # stored' /\ refresh'[u].next \notin lost'
               /\ pair'[refresh'[u].next].state # "rotated"
    <3>1. Holding(u) /\ refresh'[u] = refresh[u]
      BY <1>5, <2>1
    <3>2. pair'[refresh[u].next] = pair[refresh[u].next]
      BY <1>3, <1>7, <3>1
    <3> QED BY <3>1, <3>2 DEF IInv, NextUnseen
  <2>2. /\ refresh'[t].next = r /\ r # stored' /\ r \notin lost' /\ pair'[r].state # "rotated"
    BY <1>4
  <2>3. ASSUME NEW u \in Tabs, Holding(u)', NEW v \in Tabs
        PROVE  /\ refresh'[v] # None => refresh'[v].pair # refresh'[u].next
               /\ Holding(v)' /\ v # u => refresh'[v].next # refresh'[u].next
    <3>1. CASE u = t
      <4>1. refresh'[v] # None => refresh'[v].pair # r
        BY <1>6
      <4>2. Holding(v)' /\ v # t => refresh'[v].next # r
        BY <1>5, <1>7
      <4> QED BY <2>2, <3>1, <4>1, <4>2
    <3>2. CASE u # t
      <4>1. Holding(u) /\ refresh'[u] = refresh[u]
        BY <1>5, <2>3, <3>2
      <4>2. refresh[v] # None => refresh[v].pair # refresh[u].next
        BY <4>1 DEF IInv, NextUnseen
      <4>3. refresh'[v] # None => refresh'[v].pair # refresh[u].next
        BY <1>6, <4>2
      <4>4. CASE v = t
        BY <1>7, <4>1, <4>3, <4>4
      <4>5. CASE v # t
        BY <1>5, <4>1, <4>3, <4>5 DEF IInv, NextUnseen
      <4> QED BY <4>4, <4>5
    <3> QED BY <3>1, <3>2
  <2>4. ASSUME NEW u \in Tabs, Holding(u)'
        PROVE  /\ refresh'[u].next # stored' /\ refresh'[u].next \notin lost'
               /\ pair'[refresh'[u].next].state # "rotated"
    BY <2>1, <2>2, <2>4
  <2> QED BY <2>3, <2>4 DEF NextUnseen
<1>10. StoredReplaced'
  <2> SUFFICES ASSUME stored # None, pair'[stored].state = "rotated", stored \notin lost
      PROVE  \E u \in Tabs : Holding(u)' /\ refresh'[u].pair = stored /\ pair'[stored].by = u
    BY DEF StoredReplaced
  <2>1. CASE stored = p
    BY <1>5, <2>1
  <2>2. CASE stored # p
    <3>1. pair'[stored] = pair[stored]
      BY <1>3, <2>2 DEF IInv, Issued, TypeOK, Opt
    <3>2. PICK u \in Tabs : Holding(u) /\ refresh[u].pair = stored /\ pair[stored].by = u
      BY <3>1 DEF IInv, StoredReplaced
    <3>3. u # t
      BY <2>2, <3>2
    <3> QED BY <1>5, <3>1, <3>2, <3>3
  <2> QED BY <2>1, <2>2
<1>11. SentIsNew'
  <2> SUFFICES ASSUME NEW u \in Tabs, refresh'[u] # None, refresh'[u].stage = "sent",
                      pair'[refresh'[u].pair].state = "rotated"
      PROVE  refresh'[u].pair \in lost \/ pair'[refresh'[u].pair].by # u
    BY DEF SentIsNew
  <2>1. u # t /\ refresh'[u] = refresh[u]
    BY <1>6
  <2>2. CASE refresh[u].pair = p
    BY <2>1, <2>2
  <2>3. CASE refresh[u].pair # p
    <3>1. pair'[refresh[u].pair] = pair[refresh[u].pair]
      BY <1>3, <1>6, <2>3
    <3> QED BY <2>1, <3>1 DEF IInv, SentIsNew
  <2> QED BY <2>2, <2>3
<1>12. OutdatedElsewhere'
  BY <1>6 DEF IInv, OutdatedElsewhere
<1>13. RefusedForCause'
  <2> SUFFICES ASSUME NEW u \in Tabs, refresh'[u] # None, refresh'[u].stage = "refused"
      PROVE  LET q == refresh'[u].pair
             IN  \/ q \in lost
                 \/ pair'[q].family \in banned
                 \/ pair'[q].state = "closed"
                 \/ pair'[q].state = "rotated" /\ pair'[q].by # u
    BY DEF RefusedForCause
  <2>1. u # t /\ refresh'[u] = refresh[u]
    BY <1>6
  <2>2. CASE refresh[u].pair = p
    BY <2>1, <2>2
  <2>3. CASE refresh[u].pair # p
    <3>1. pair'[refresh[u].pair] = pair[refresh[u].pair]
      BY <1>3, <1>6, <2>3
    <3> QED BY <2>1, <3>1 DEF IInv, RefusedForCause
  <2> QED BY <2>2, <2>3
<1> QED BY <1>8, <1>9, <1>10, <1>11, <1>12, <1>13 DEF IInv

LEMMA RefreshAtServerKeeps ==
  ASSUME IInv, NEW t \in Tabs, RefreshAtServer(t)
  PROVE  IInv'
<1>1. TypeOK /\ refresh[t] # None /\ refresh[t].stage = "sent"
  BY DEF RefreshAtServer, IInv
<1>2. PICK p \in Rids : p = refresh[t].pair
  BY <1>1, RefreshTyped
<1>3. pair[p] # None /\ pair[p].state \in {"live", "rotated", "closed"}
  BY <1>1, <1>2, PairTyped DEF IInv, Issued
<1>4. /\ banned' = banned /\ stored' = stored /\ access' = access /\ active' = active
      /\ logout' = logout /\ req' = req /\ lost' = lost
  BY DEF RefreshAtServer
<1>5. CASE Redeemable(p)
  <2>1. PICK r \in Rids :
          /\ pair[r] = None
          /\ pair' = [pair EXCEPT ![p].state = "rotated", ![p].by = t,
                        ![r] = [family |-> pair[p].family, state |-> "live", by |-> None]]
          /\ fresh' = fresh \cup {r}
          /\ refresh' = [refresh EXCEPT ![t].stage = "granted", ![t].next = r]
    BY <1>2, <1>5 DEF RefreshAtServer
  <2>2. PICK old \in Pair, new \in Pair :
          /\ old.state = "rotated" /\ old.by = t /\ new.state = "live"
          /\ pair' = [[pair EXCEPT ![p] = old] EXCEPT ![r] = new]
    <3> DEFINE new == [family |-> pair[p].family, state |-> "live", by |-> None]
               old == [pair[p] EXCEPT !.state = "rotated", !.by = t]
    <3>1. pair[p] \in Pair /\ pair[p].family \in Families
      BY <1>1, <1>3, PairTyped
    <3>2. old \in Pair /\ old.state = "rotated" /\ old.by = t
      BY <3>1 DEF Pair, Opt
    <3>3. new \in Pair /\ new.state = "live"
      BY <3>1 DEF Pair, Opt
    <3>4. pair' = [[pair EXCEPT ![p] = old] EXCEPT ![r] = new]
      BY <1>1, <1>3, <2>1 DEF TypeOK
    <3> QED BY <3>2, <3>3, <3>4
  <2>3. PICK f \in Refresh :
          /\ refresh' = [refresh EXCEPT ![t] = f]
          /\ f.stage = "granted" /\ f.pair = p /\ f.next = r /\ f.current = refresh[t].current
    <3> DEFINE f == [refresh[t] EXCEPT !.stage = "granted", !.next = r]
    <3>1. refresh[t] \in Refresh
      BY <1>1, RefreshTyped
    <3>2. f \in Refresh /\ f.stage = "granted" /\ f.pair = refresh[t].pair /\ f.next = r
          /\ f.current = refresh[t].current
      BY <3>1 DEF Refresh, Opt
    <3>3. refresh' = [refresh EXCEPT ![t] = f]
      BY <1>1, <2>1 DEF TypeOK
    <3> QED BY <1>2, <3>2, <3>3
  <2>4. /\ pair' \in [Rids -> Opt(Pair)] /\ pair'[p] = old /\ pair'[r] = new
        /\ \A q \in Rids : q # p /\ q # r => pair'[q] = pair[q]
    <3>1. pair \in [Rids -> Opt(Pair)] /\ p # r /\ old \in Opt(Pair) /\ new \in Opt(Pair)
      BY <1>1, <1>3, <2>1 DEF TypeOK, Opt
    <3> HIDE <2>1
    <3> QED BY <2>2, <3>1
  <2>5. /\ refresh' \in [Tabs -> Opt(Refresh)] /\ refresh'[t] = f
        /\ \A u \in Tabs : u # t => refresh'[u] = refresh[u]
    <3>1. refresh \in [Tabs -> Opt(Refresh)] /\ f \in Opt(Refresh)
      BY <1>1 DEF TypeOK, Opt
    <3> QED BY <2>3, <3>1
  <2>6. TypeOK'
    BY <1>1, <1>4, <2>1, <2>4, <2>5 DEF TypeOK
  <2>7. pair[r] = None
    BY <2>1
  <2> HIDE <2>1
  <2> QED BY <1>1, <1>2, <1>3, <1>4, <2>2, <2>3, <2>4, <2>5, <2>6, <2>7, RotationKeeps
<1>6. CASE ~Redeemable(p)
  <2>1. /\ refresh' = [refresh EXCEPT ![t].stage = "refused"]
        /\ pair' = pair /\ fresh' = fresh
    BY <1>2, <1>6 DEF RefreshAtServer
  <2>2. \/ p \in lost'
        \/ pair[p].family \in banned
        \/ pair[p].state = "closed"
        \/ pair[p].state = "rotated" /\ pair[p].by # t
    BY <1>1, <1>2, <1>3, <1>4, <1>6 DEF Redeemable, IInv, SentIsNew
  <2> QED BY <1>1, <1>2, <1>4, <2>1, <2>2, RefusalKeeps
<1> QED BY <1>5, <1>6
\* The first request that is told its token has expired starts a refresh.
LEMMA UnauthorizedKeeps ==
  ASSUME IInv, NEW t \in Tabs, NEW s \in Slots, Unauthorized(t, s)
  PROVE  IInv'
<1>1. TypeOK /\ stored \in Rids /\ req[t][s] \in Pending
  BY PendingTyped DEF IInv, TypeOK, Opt, Unauthorized, Answerable
<1>2. PICK rest \in [Slots -> Opt(Pending)] :
        rest = [req[t] EXCEPT ![s].stage = "waiting", ![s].pair = None]
  <2>1. [req[t][s] EXCEPT !.stage = "waiting", !.pair = None] \in Pending
    BY <1>1 DEF Pending, Opt
  <2>2. [req[t] EXCEPT ![s] = [req[t][s] EXCEPT !.stage = "waiting", !.pair = None]]
          \in [Slots -> Opt(Pending)]
    BY <1>1, <2>1, PendingTyped DEF Opt
  <2>3. [req[t] EXCEPT ![s].stage = "waiting", ![s].pair = None]
          = [req[t] EXCEPT ![s] = [req[t][s] EXCEPT !.stage = "waiting", !.pair = None]]
    BY <1>1, PendingTyped
  <2> QED BY <2>2, <2>3
<1>3. /\ pair' = pair /\ fresh' = fresh /\ banned' = banned /\ logout' = logout /\ lost' = lost
      /\ stored' = stored /\ access' = access /\ active' = active
      /\ req' = [req EXCEPT ![t] = rest]
      /\ refresh' = [refresh EXCEPT ![t] = SharedRefresh(t)]
  BY <1>2 DEF Unauthorized, GoOn, server
<1>4. CASE refresh[t] # None
  <2>1. refresh' = refresh
    BY <1>1, <1>3, <1>4 DEF SharedRefresh, TypeOK
  <2>2. TypeOK'
    BY <1>1, <1>3, <2>1 DEF TypeOK
  <2> QED BY <1>3, <2>1, <2>2, SameKeeps
<1>5. CASE refresh[t] = None
  <2>1. PICK f \in Refresh : /\ f = SharedRefresh(t)
                             /\ f.stage = "sent" /\ f.pair = stored /\ f.current
    <3> DEFINE f == [stage |-> "sent", pair |-> stored, next |-> None, current |-> TRUE]
    <3>1. f \in Refresh
      BY <1>1 DEF Refresh, Opt
    <3>2. f = SharedRefresh(t)
      BY <1>5 DEF SharedRefresh
    <3> QED BY <3>1, <3>2
  <2>2. /\ refresh'[t] = f /\ f # None
        /\ \A u \in Tabs : u # t => refresh'[u] = refresh[u]
    BY <1>1, <1>3, <2>1, NoneIsNoValue DEF TypeOK
  <2>3. TypeOK'
    <3>1. refresh' \in [Tabs -> Opt(Refresh)]
      BY <1>1, <1>3, <2>1 DEF TypeOK, Opt
    <3> QED BY <1>1, <1>3, <3>1 DEF TypeOK
  <2>4. stored # None
    BY <1>1, NoneIsNoValue
  <2>5. \A u \in Tabs : /\ Holding(u)' <=> Holding(u)
                        /\ Holding(u) => u # t /\ refresh'[u] = refresh[u]
    BY <1>5, <2>1, <2>2 DEF Holding
  <2>6. Issued'
    <3>1. \A u \in Tabs : refresh'[u] # None => pair'[refresh'[u].pair] # None
      BY <1>3, <2>1, <2>2, <2>4 DEF IInv, Issued
    <3> QED BY <1>3, <2>5, <3>1 DEF IInv, Issued
  <2>7. NextUnseen'
    <3> SUFFICES ASSUME NEW u \in Tabs, Holding(u), NEW v \in Tabs
        PROVE  /\ refresh'[v] # None => refresh'[v].pair # refresh[u].next
               /\ Holding(v) /\ v # u => refresh[v].next # refresh[u].next
      BY <1>3, <2>5 DEF NextUnseen, IInv
    <3> QED BY <2>1, <2>2 DEF IInv, NextUnseen
  <2>8. StoredReplaced'
    BY <1>3, <2>5 DEF IInv, StoredReplaced
  <2>9. SentIsNew'
    <3>1. pair[stored].state = "rotated" => stored \in lost \/ pair[stored].by # t
      BY <2>4, <2>5 DEF IInv, StoredReplaced
    <3> QED BY <1>3, <2>1, <2>2, <3>1 DEF IInv, SentIsNew
  <2>10. OutdatedElsewhere'
    BY <1>3, <2>1, <2>2 DEF IInv, OutdatedElsewhere
  <2>11. RefusedForCause'
    BY <1>3, <2>1, <2>2 DEF IInv, RefusedForCause
  <2> QED BY <2>3, <2>6, <2>7, <2>8, <2>9, <2>10, <2>11 DEF IInv
<1> QED BY <1>4, <1>5

-----------------------------------------------------------------------------
\* Storing a pair that nobody has presented and nobody else holds.
LEMMA StoreKeeps ==
  ASSUME IInv, TypeOK', NEW n \in Rids, stored' = n,
         pair'[n] # None, pair'[n].state # "rotated",
         \A p \in Rids : pair[p] # None => pair'[p] = pair[p],
         banned' = banned, lost' = lost, logout' = logout,
         \A u \in Tabs : refresh'[u] # None =>
           /\ refresh'[u] = refresh[u] /\ refresh[u].pair # n
           /\ Holding(u) => refresh[u].next # n
  PROVE  IInv'
<1>1. \A u \in Tabs : /\ refresh'[u] # None =>
                            /\ refresh'[u] = refresh[u] /\ refresh[u].pair # n
                            /\ refresh[u].pair \in Rids /\ pair[refresh[u].pair] # None
                            /\ pair'[refresh[u].pair] = pair[refresh[u].pair]
  BY RefreshTyped DEF IInv, Issued
<1>2. \A u \in Tabs : Holding(u)' =>
        /\ Holding(u) /\ refresh'[u] = refresh[u] /\ refresh[u].next # n
        /\ refresh[u].next \in Rids /\ pair[refresh[u].next] # None
        /\ pair'[refresh[u].next] = pair[refresh[u].next]
  BY <1>1 DEF Holding, IInv, Issued
<1>3. Issued'
  <2>1. \A r \in lost' : pair'[r] # None
    BY DEF IInv, Issued, TypeOK
  <2>2. \A u \in Tabs : logout'[u] # None => pair'[logout'[u]] # None
    BY DEF IInv, Issued, TypeOK, Opt
  <2> QED BY <1>1, <1>2, <2>1, <2>2 DEF Issued
<1>4. NextUnseen'
  BY <1>1, <1>2 DEF IInv, NextUnseen
<1>5. StoredReplaced'
  BY DEF StoredReplaced
<1>6. SentIsNew' /\ OutdatedElsewhere' /\ RefusedForCause'
  BY <1>1 DEF IInv, SentIsNew, OutdatedElsewhere, RefusedForCause
<1> QED BY <1>3, <1>4, <1>5, <1>6 DEF IInv

LEMMA InstallKeeps ==
  ASSUME IInv, NEW t \in Tabs, Install(t)
  PROVE  IInv'
<1>1. TypeOK /\ Holding(t)
  BY DEF IInv, Install, Holding
<1>2. PICK n \in Rids : n = refresh[t].next
  BY <1>1 DEF IInv, Issued
<1>3. /\ pair' = pair /\ fresh' = fresh /\ banned' = banned /\ logout' = logout /\ lost' = lost
      /\ stored' = n /\ access' = [access EXCEPT ![t] = n] /\ active' = active
      /\ refresh' = [refresh EXCEPT ![t] = None]
      /\ req' = [req EXCEPT ![t] = Retried(t, n)]
  BY <1>2 DEF Install, SetTokens, server
<1>4. TypeOK'
  <2>1. req' \in [Tabs -> [Slots -> Opt(Pending)]]
    BY <1>1, <1>3, PendingTyped DEF TypeOK
  <2>2. refresh' \in [Tabs -> Opt(Refresh)] /\ access' \in [Tabs -> Opt(Rids)]
    BY <1>1, <1>3 DEF TypeOK, Opt
  <2> QED BY <1>1, <1>3, <2>1, <2>2 DEF TypeOK, Opt
<1>5. pair[n] # None /\ pair[n].state # "rotated"
  BY <1>1, <1>2 DEF IInv, Issued, NextUnseen
<1>6. \A u \in Tabs : refresh'[u] # None => u # t /\ refresh'[u] = refresh[u]
  BY <1>1, <1>3 DEF TypeOK
<1>7. \A u \in Tabs : u # t => /\ refresh[u] # None => refresh[u].pair # n
                               /\ Holding(u) => refresh[u].next # n
  BY <1>1, <1>2 DEF IInv, NextUnseen
<1> QED BY <1>3, <1>4, <1>5, <1>6, <1>7, StoreKeeps

LEMMA LoginKeeps ==
  ASSUME IInv, NEW t \in Tabs, NEW f \in Families, NEW r \in Rids, Login(t, f, r)
  PROVE  IInv'
<1>1. TypeOK /\ pair[r] = None
  BY DEF IInv, Login, Issue
<1>2. /\ pair' = [pair EXCEPT ![r] = [family |-> f, state |-> "live", by |-> None]]
      /\ fresh' = fresh \cup {r} /\ stored' = r /\ access' = [access EXCEPT ![t] = r]
      /\ active' = [active EXCEPT ![t] = TRUE]
      /\ banned' = banned /\ refresh' = refresh /\ logout' = logout /\ req' = req
      /\ lost' = lost
  BY DEF Login, Issue, SetTokens
<1>3. PICK new \in Pair : /\ new.state = "live"
                          /\ pair' = [pair EXCEPT ![r] = new]
  BY <1>2 DEF Pair, Opt
<1>4. /\ pair' \in [Rids -> Opt(Pair)] /\ pair'[r] = new /\ new # None
      /\ \A p \in Rids : pair[p] # None => pair'[p] = pair[p]
  BY <1>1, <1>3, NoneIsNoValue DEF TypeOK, Opt
<1>5. TypeOK'
  BY <1>1, <1>2, <1>4 DEF TypeOK, Opt
<1>6. \A u \in Tabs : refresh[u] # None =>
        /\ refresh[u].pair # r
        /\ Holding(u) => refresh[u].next # r
  BY <1>1 DEF IInv, Issued
<1> QED BY <1>2, <1>3, <1>4, <1>5, <1>6, StoreKeeps
-----------------------------------------------------------------------------
LEMMA InitSound == ASSUME Init PROVE IInv
<1>1. TypeOK
  BY DEF Init, TypeOK, Opt
<1>2. Issued /\ NextUnseen /\ StoredReplaced /\ SentIsNew /\ OutdatedElsewhere /\ RefusedForCause
  BY DEF Init, Issued, NextUnseen, StoredReplaced, SentIsNew, OutdatedElsewhere,
         RefusedForCause, Holding
<1> QED BY <1>1, <1>2 DEF IInv

LEMMA NextSound == ASSUME IInv, [Next]_vars PROVE IInv'
<1>1. CASE UNCHANGED vars
  <2>1. /\ pair' = pair /\ fresh' = fresh /\ banned' = banned /\ logout' = logout
        /\ lost' = lost /\ stored' = stored /\ access' = access /\ active' = active
        /\ req' = req /\ refresh' = refresh
    BY <1>1 DEF vars
  <2>2. TypeOK'
    BY <2>1 DEF IInv, TypeOK
  <2>3. \A u \in Tabs : logout'[u] \in {logout[u], stored, None}
    BY <2>1
  <2> QED BY <2>1, <2>2, <2>3, SameKeeps
<1>2. CASE Next
  <2>1. ASSUME NEW t \in Tabs, NEW f \in Families, NEW r \in Rids, Login(t, f, r) PROVE IInv'
    BY <2>1, LoginKeeps
  <2>2. ASSUME NEW t \in Tabs,
               \/ RefreshAtServer(t) \/ RefreshBreaks(t) \/ RefreshFails(t)
               \/ RefreshOutdated(t) \/ RefreshRefused(t)
               \/ RefreshGranted(t) \/ Install(t)
               \/ LogoutStart(t) \/ LogoutAtServer(t) \/ LogoutDone(t)
               \/ Reload(t)
        PROVE  IInv'
    BY <2>2, RefreshAtServerKeeps, RefreshBreaksKeeps, EndedRefreshKeeps, RefreshGrantedKeeps,
       InstallKeeps, LogoutStartKeeps, LogoutAtServerKeeps, LogoutDoneKeeps, ReloadKeeps
  <2>3. ASSUME NEW t \in Tabs, NEW s \in Slots,
               \/ Send(t, s, "me") \/ Send(t, s, "other") \/ Answered(t, s)
               \/ Unauthorized(t, s) \/ Rejected(t, s) \/ RetryRejected(t, s)
               \/ ShutOut(t, s) \/ Forbidden(t, s)
        PROVE  IInv'
    BY <2>3, RequestKeeps, UnauthorizedKeeps, EndedRequestKeeps
  <2>4. ASSUME NEW r \in Rids, LostAtServer(r) \/ Expire(r) PROVE IInv'
    BY <2>4, LostAtServerKeeps, ExpireKeeps
  <2>5. ASSUME NEW f \in Families, EndFamily(f) PROVE IInv'
    BY <2>5, EndFamilyKeeps
  <2> QED BY <1>2, <2>1, <2>2, <2>3, <2>4, <2>5 DEF Next
<1> QED BY <1>1, <1>2

\* The pair a tab got is its own until it is stored, and a stored pair that
\* was rotated away is about to be replaced: whatever the tabs, their requests
\* and the server do, in any order.
THEOREM Sound == Spec => []IInv
<1>1. Init => IInv
  BY InitSound
<1>2. IInv /\ [Next]_vars => IInv'
  BY NextSound
<1> QED BY <1>1, <1>2, PTL DEF Spec

\* The variables of the tabs and of the server hold what client.ts and the
\* sessions table can hold.
THEOREM TypeCorrect == Spec => []TypeOK
<1>1. IInv => TypeOK
  BY DEF IInv
<1> QED BY <1>1, Sound, PTL

\* The refresh token in localStorage has not been rotated away, unless the
\* refresh that did it is under way or broke down (performRefresh, setTokens).
THEOREM StoredCurrent == Spec => []StoredIsCurrent
<1>1. IInv => StoredIsCurrent
  <2> SUFFICES ASSUME IInv, stored # None, pair[stored].state = "rotated", stored \notin lost
      PROVE  \E t \in Tabs : stored \in Presented(t)
    BY DEF StoredIsCurrent
  <2>1. PICK t \in Tabs : Holding(t) /\ refresh[t].pair = stored
    BY DEF IInv, StoredReplaced
  <2> QED BY <2>1 DEF Presented, Holding
<1> QED BY <1>1, Sound, PTL

\* No tab is refused because of what it did itself: refreshPromise keeps a tab
\* from presenting a pair twice.
THEOREM Refused == Spec => []RefusedForCause
<1>1. IInv => RefusedForCause
  BY DEF IInv
<1> QED BY <1>1, Sound, PTL

-----------------------------------------------------------------------------
\* Ending the session of a tab forgets no refresh but the one that is over.
LEMMA SignOutRemembers ==
  ASSUME TypeOK, NEW t \in Tabs, NEW u \in Tabs, refresh[t] # None,
         NEW next \in Opt(Refresh), NEW rest \in [Slots -> Opt(Pending)],
         SignOut(u, next, rest), u = t => next # None
  PROVE  refresh'[t] # None
<1>1. PICK f \in Opt(Refresh) : refresh' = [refresh EXCEPT ![u] = f] /\ (next = None <=> f = None)
  BY SessionTyped
<1> QED BY <1>1 DEF TypeOK

\* A late answer is ignored (the comparisons of sessionEpoch in client.ts): a
\* refresh that is out of date stores nothing and ends no later session.
THEOREM LateAnswers == Spec => LateAnswerIgnored
<1> DEFINE Quiet(t) ==
      refresh[t] # None /\ ~refresh[t].current /\ refresh[t].stage # "reading"
        /\ refresh'[t] # refresh[t] /\ refresh'[t] = None
        /\ ~(\E s \in Waiting(t) : req[t][s].kind = "me")
      => stored' = stored
<1>1. ASSUME TypeOK, [Next]_vars PROVE \A t \in Tabs : Quiet(t)
  <2> SUFFICES ASSUME NEW t \in Tabs, refresh[t] # None, ~refresh[t].current,
                      refresh[t].stage # "reading", refresh'[t] = None,
                      ~(\E s \in Waiting(t) : req[t][s].kind = "me")
      PROVE  stored' = stored
    OBVIOUS
  <2>1. CASE UNCHANGED vars
    BY <2>1 DEF vars
  <2>2. ASSUME NEW u \in Tabs, NEW f \in Families, NEW r \in Rids, Login(u, f, r)
        PROVE  stored' = stored
    BY <2>2 DEF Login
  <2>3. ASSUME NEW u \in Tabs,
               \/ RefreshAtServer(u) \/ RefreshBreaks(u) \/ RefreshFails(u) \/ RefreshGranted(u)
               \/ LogoutStart(u) \/ LogoutAtServer(u) \/ Reload(u)
        PROVE  stored' = stored
    BY <2>3 DEF RefreshAtServer, RefreshBreaks, RefreshFails, RefreshGranted, LogoutStart,
                LogoutAtServer, Reload, GoOn
  <2>4. ASSUME NEW u \in Tabs, RefreshOutdated(u) PROVE stored' = stored
    <3>1. Failed(u, None, Waiting(u), Ended(u))
      BY <2>4 DEF RefreshOutdated
    <3>2. CASE \E s \in Waiting(u) : req[u][s].kind = "me"
      <4>1. SignOut(u, None, Ended(u)) /\ u # t
        BY <3>1, <3>2 DEF Failed
      <4>2. PICK rest \in [Slots -> Opt(Pending)] : rest = Ended(u)
        BY <1>1, PendingTyped
      <4>3. PICK next \in Opt(Refresh) : next = None
        BY DEF Opt
      <4>4. SignOut(u, next, rest)
        BY <4>1, <4>2, <4>3 DEF SignOut
      <4> QED BY <1>1, <4>1, <4>4, SignOutRemembers
    <3>3. CASE ~ \E s \in Waiting(u) : req[u][s].kind = "me"
      BY <3>1, <3>3 DEF Failed, GoOn
    <3> QED BY <3>2, <3>3
  <2>5. ASSUME NEW u \in Tabs, RefreshRefused(u) PROVE stored' = stored
    <3>1. refresh' = [refresh EXCEPT ![u] = Outdated(None)] /\ u # t
      BY <2>5 DEF RefreshRefused, SignOut
    <3> QED BY <1>1, <3>1 DEF TypeOK
  <2>6. ASSUME NEW u \in Tabs, Install(u) PROVE stored' = stored
    <3>1. refresh' = [refresh EXCEPT ![u] = None] /\ u # t
      BY <2>6 DEF Install
    <3> QED BY <1>1, <3>1 DEF TypeOK
  <2>7. ASSUME NEW u \in Tabs, NEW rest \in [Slots -> Opt(Pending)],
               SignOut(u, refresh[u], rest) \/ GoOn(u, refresh[u], rest)
        PROVE  stored' = stored
    <3>1. CASE GoOn(u, refresh[u], rest)
      BY <3>1 DEF GoOn
    <3>2. CASE SignOut(u, refresh[u], rest)
      <4>1. PICK next \in Opt(Refresh) : next = refresh[u]
        BY <1>1 DEF TypeOK
      <4>2. SignOut(u, next, rest)
        BY <3>2, <4>1 DEF SignOut
      <4> QED BY <1>1, <4>1, <4>2, SignOutRemembers
    <3> QED BY <2>7, <3>1, <3>2
  <2>8. ASSUME NEW u \in Tabs, LogoutDone(u) PROVE stored' = stored
    <3>1. PICK rest \in [Slots -> Opt(Pending)] : rest = req[u]
      BY <1>1, PendingTyped
    <3>2. SignOut(u, refresh[u], rest)
      BY <2>8, <3>1 DEF LogoutDone, SignOut
    <3> QED BY <2>7, <3>2
  <2>9. ASSUME NEW u \in Tabs, NEW s \in Slots,
               Rejected(u, s) \/ RetryRejected(u, s) \/ ShutOut(u, s)
        PROVE  stored' = stored
    <3>1. PICK rest \in [Slots -> Opt(Pending)] : rest = Without(u, s)
      BY <1>1, PendingTyped
    <3>2. SignOut(u, refresh[u], rest) \/ GoOn(u, refresh[u], rest)
      BY <2>9, <3>1 DEF Rejected, RetryRejected, ShutOut, Failed, SignOut, GoOn
    <3> QED BY <2>7, <3>2
  <2>10. ASSUME NEW u \in Tabs, NEW s \in Slots,
                \/ Send(u, s, "me") \/ Send(u, s, "other") \/ Answered(u, s)
                \/ Unauthorized(u, s) \/ Forbidden(u, s)
         PROVE  stored' = stored
    BY <2>10 DEF Send, Answered, Unauthorized, Forbidden, GoOn
  <2>11. ASSUME NEW r \in Rids, LostAtServer(r) \/ Expire(r) PROVE stored' = stored
    BY <2>11 DEF LostAtServer, Expire
  <2>12. ASSUME NEW f \in Families, EndFamily(f) PROVE stored' = stored
    BY <2>12 DEF EndFamily
  <2> QED BY <1>1, <2>1, <2>2, <2>3, <2>4, <2>5, <2>6, <2>8, <2>9, <2>10, <2>11, <2>12 DEF Next
<1> HIDE DEF Quiet
<1>2. TypeOK /\ [Next]_vars => [\A t \in Tabs : Quiet(t)]_vars
  BY <1>1
<1>3. [][\A t \in Tabs : Quiet(t)]_vars => LateAnswerIgnored
  BY DEF Quiet, LateAnswerIgnored
<1> QED BY <1>2, <1>3, TypeCorrect, PTL DEF Spec
=============================================================================
