------------------------------- MODULE Search -------------------------------
(***************************************************************************)
(* The lists of the server (jobs, an owner's jobs, applications, and the   *)
(* administrator's), read page by page.  A request runs two statements     *)
(* without a transaction: COUNT, then the page by LIMIT and OFFSET.  A     *)
(* visitor follows the pager of the browser application from page to page, *)
(* or types a page number, while rows enter, leave and move.               *)
(* Which filter is in force does not matter: a row matches it or not.      *)
(***************************************************************************)
EXTENDS Integers, FiniteSets
CONSTANTS
  Rows,            \* ids
  Tables,          \* the tables a visit may begin with
  Sorts, Databases,
  Amounts,         \* salaries
  Asked,           \* per_page of the query string, or None
  Far,             \* page numbers typed by hand
  DefaultPerPage,  \* DEFAULT_PER_PAGE
  MaxPerPage,      \* MAX_PER_PAGE
  Width,           \* integers wrap here: 2 to the 64
  MaxChanges,      \* bound: changes of the table during a visit
  None             \* SQL NULL, and an absent parameter

\* date is published_at in the public list and created_at in the others, and
\* 0 before there is one; amount is the salary column the sort looks at.
Row == [shown : BOOLEAN, date : Nat, featured : BOOLEAN, amount : Amounts \cup {None}]

ASSUME SearchAssumption ==
  /\ Tables \subseteq [Rows -> Row]
  /\ Sorts \subseteq {"newest", "oldest", "salary_high", "salary_low", "created"}
  /\ Databases \subseteq {"sqlite", "postgres"}
  /\ Amounts \subseteq Nat /\ None \notin Int
  /\ Asked \subseteq Int \cup {None}
  /\ Far \subseteq 1..(Width \div 2 - 1)
  /\ MaxPerPage \in Nat /\ DefaultPerPage \in 1..MaxPerPage
  /\ Width \in Nat /\ Width \div 2 > 1
  /\ IsFiniteSet(Rows) /\ Cardinality(Rows) < Width \div 2
  /\ MaxChanges \in Nat

\* A row on the list has its date, and dates, kept to the microsecond, are
\* distinct.
Dated(t) ==
  \A r, s \in Rows : /\ t[r].shown => t[r].date # 0
                     /\ t[r].date = t[s].date /\ t[r].date # 0 => r = s

ASSUME TablesAssumption == \A t \in Tables : Dated(t)

VARIABLES
  row,             \* the table
  list,            \* the list that is visited; it does not change
  page,            \* the page asked for last, 0 before the first
  stage,           \* "counted" between the two statements of a request
  total,           \* the number of rows the last COUNT found
  seen,            \* the rows shown so far
  stayed,          \* history: rows on the list during the whole walk
  repeats,         \* history: how often a row was shown again
  losses, doubles, \* history: changes that may cost the visitor a row, or show one twice
  changes          \* bound

walk == <<list, page, stage, total, seen, repeats>>
vars == <<row, list, page, stage, total, seen, stayed, repeats, losses, doubles, changes>>

TypeOK ==
  /\ row \in [Rows -> Row]
  /\ list \in [sort : Sorts, database : Databases, limit : 1..MaxPerPage]
  /\ page \in 0..(Width \div 2 - 1)
  /\ stage \in {"idle", "counted"}
  /\ total \in 0..Cardinality(Rows)
  /\ seen \in SUBSET Rows
  /\ stayed \in SUBSET Rows
  /\ repeats \in Nat
  /\ losses \in 0..changes
  /\ doubles \in 0..changes
  /\ changes \in 0..MaxChanges

-----------------------------------------------------------------------------
\* resolve_pagination.
Given(asked, default) == IF asked = None THEN default ELSE asked

\* Mutant: the lower end is forgotten.
AtMost(asked) ==
  LET n == Given(asked, DefaultPerPage) IN IF n > MaxPerPage THEN MaxPerPage ELSE n

PerPage(asked) ==
  LET n == Given(asked, DefaultPerPage)
  IN  IF n < 1 THEN 1 ELSE IF n > MaxPerPage THEN MaxPerPage ELSE n

PageNumber(asked) == LET n == Given(asked, 1) IN IF n < 1 THEN 1 ELSE n

Wrapped(n) == ((n + Width \div 2) % Width) - (Width \div 2)

\* Mutant: pages are counted from 0.
OffsetFromZero == Wrapped(page * list.limit)

Offset == Wrapped((page - 1) * list.limit)

Overflows == (page - 1) * list.limit >= Width \div 2

-----------------------------------------------------------------------------
\* The order of a table t, smaller ranks first.  Only the public list puts
\* featured jobs first; NULL is the smallest value for SQLite, and Postgres is
\* asked for NULLS LAST.
BySalary == list.sort \in {"salary_high", "salary_low"}

FeaturedRank(t, r) == IF list.sort # "created" /\ t[r].featured THEN 0 ELSE 1

NullRank ==
  IF list.sort = "salary_low" /\ list.database = "sqlite" THEN -1 ELSE Width

AmountRank(t, r) ==
  IF ~BySalary THEN 0
  ELSE IF t[r].amount = None THEN NullRank
  ELSE IF list.sort = "salary_high" THEN -t[r].amount ELSE t[r].amount

DateRank(t, r) == IF list.sort = "oldest" THEN t[r].date ELSE -t[r].date

Before(t, a, b) ==
  \/ FeaturedRank(t, a) < FeaturedRank(t, b)
  \/ /\ FeaturedRank(t, a) = FeaturedRank(t, b)
     /\ \/ AmountRank(t, a) < AmountRank(t, b)
        \/ AmountRank(t, a) = AmountRank(t, b) /\ DateRank(t, a) < DateRank(t, b)

Shown(t) == {r \in Rows : t[r].shown}

Position(t, r) == Cardinality({s \in Shown(t) : Before(t, s, r)})

\* Mutant: one row too many.
SliceOneMore(t, offset) ==
  {r \in Shown(t) : offset <= Position(t, r) /\ Position(t, r) <= offset + list.limit}

Slice(t, offset) ==
  {r \in Shown(t) : offset <= Position(t, r) /\ Position(t, r) < offset + list.limit}

-----------------------------------------------------------------------------
\* Columns the order does not look at are left blank.
Init ==
  /\ \E sort \in Sorts, database \in Databases, asked \in Asked :
       list = [sort |-> sort, database |-> database, limit |-> PerPage(asked)]
  /\ row \in {t \in Tables : \A r \in Rows :
                /\ list.sort = "created" => ~t[r].featured
                /\ ~BySalary => t[r].amount = None}
  /\ page = 0 /\ stage = "idle" /\ total = 0
  /\ seen = {} /\ stayed = Shown(row)
  /\ repeats = 0 /\ losses = 0 /\ doubles = 0 /\ changes = 0

\* The first statement, with the filters of the second.
Count(asked) ==
  /\ stage = "idle"
  /\ page' = PageNumber(asked)
  /\ total' = Cardinality(Shown(row))
  /\ stage' = "counted"
  /\ UNCHANGED <<row, list, seen, repeats, losses, doubles, changes>>

FirstPage == page = 0 /\ Count(None) /\ UNCHANGED stayed

\* The pager offers the next page while there is one by the last count.
NextPage == page > 0 /\ page * list.limit < total /\ Count(page + 1) /\ UNCHANGED stayed

\* The pages in between are given up.
TypedPage == \E p \in Far : p > page /\ Count(p) /\ stayed' = {}

\* The second statement.  SQLite takes a negative offset for 0; Postgres
\* refuses it, and the answer is an error.
ShowPage ==
  /\ stage = "counted"
  /\ LET items == IF Offset >= 0 THEN Slice(row, Offset)
                  ELSE IF list.database = "sqlite" THEN Slice(row, 0)
                  ELSE {}
     IN  /\ seen' = seen \cup items
         /\ repeats' = repeats + Cardinality(items \cap seen)
  /\ stage' = "idle"
  /\ UNCHANGED <<row, list, page, total, stayed, losses, doubles, changes>>

-----------------------------------------------------------------------------
\* The rows on the pages up to the last one shown.
Passed(t, r) ==
  /\ t[r].shown
  /\ Position(t, r) < list.limit * (IF stage = "idle" THEN page ELSE page - 1)

One(condition) == IF condition THEN 1 ELSE 0

\* A change of one row by some other request, by the sweep or by the clock.
Change(r, new, losing, doubling) ==
  /\ page > 0 /\ changes < MaxChanges
  /\ changes' = changes + 1
  /\ row' = [row EXCEPT ![r] = new]
  /\ stayed' = IF new.shown THEN stayed ELSE stayed \ {r}
  /\ losses' = losses + One(losing)
  /\ doubles' = doubles + One(doubling)
  /\ UNCHANGED walk

Latest == CHOOSE d \in {row[r].date : r \in Rows} : \A r \in Rows : row[r].date <= d

\* A row that comes back, published again or matching again, keeps its date.
\* One that comes between the two statements makes the count too small; one
\* that was shown before it left may be shown again.
Enter(r) ==
  LET new == [row[r] EXCEPT !.shown = TRUE, !.date = IF @ = 0 THEN Latest + 1 ELSE @]
  IN  /\ ~row[r].shown
      /\ Change(r, new, stage = "counted", r \in seen \/ Passed([row EXCEPT ![r] = new], r))

Leave(r) ==
  /\ row[r].shown
  /\ Change(r, [row[r] EXCEPT !.shown = FALSE], Passed(row, r), FALSE)

\* The row may move across the pages that were shown.
Move(r, new) ==
  LET across == Passed(row, r) # Passed([row EXCEPT ![r] = new], r)
  IN  new # row[r] /\ Change(r, new, across, across)

\* A promotion begins or ends.
Feature(r) ==
  list.sort # "created" /\ Move(r, [row[r] EXCEPT !.featured = ~@])

\* The owner states another salary; it only matters to two of the orders.
Reprice(r) ==
  /\ BySalary
  /\ \E amount \in Amounts \cup {None} : Move(r, [row[r] EXCEPT !.amount = amount])

Next ==
  \/ FirstPage \/ NextPage \/ TypedPage \/ ShowPage
  \/ \E r \in Rows : Enter(r) \/ Leave(r) \/ Feature(r) \/ Reprice(r)

Spec == Init /\ [][Next]_vars

-----------------------------------------------------------------------------
AtTheEnd == stage = "idle" /\ page > 0 /\ page * list.limit >= total

\* A visitor who walks to the last page has seen every row that was on the list
\* all the time, but for one at most for each row that left the pages already
\* shown or moved across them, or that entered between the two statements of a
\* request (dto/common.rs:21, the two statements of list_public).
WalkComplete == AtTheEnd => Cardinality(stayed \ seen) <= losses

\* No row is shown on two pages, typed page numbers included, but for one for
\* each row that entered, or moved across, the pages already shown, or came back
\* after it was shown; unless the offset overflows (dto/common.rs:28), which
\* wraps in a release build.
NoRepeat == ~Overflows => repeats <= doubles
=============================================================================
