---------------------------- MODULE SearchProofs ----------------------------
(***************************************************************************)
(* A walk through the pages misses no row and shows none twice, but for    *)
(* the changes it counts: for any table, page size and integer width.      *)
(***************************************************************************)
EXTENDS Search, FiniteSetTheorems, TLAPS

List == [sort : Sorts, database : Databases, limit : 1..MaxPerPage]

-----------------------------------------------------------------------------
\* The order of the lists.
LEMMA RankTypes ==
  ASSUME list \in List, NEW t \in [Rows -> Row], NEW r \in Rows
  PROVE  FeaturedRank(t, r) \in Int /\ AmountRank(t, r) \in Int /\ DateRank(t, r) \in Int
<1>1. /\ t[r].date \in Nat
      /\ t[r].amount \in Nat \/ t[r].amount = None
  BY SearchAssumption DEF Row
<1>2. NullRank \in Int
  BY SearchAssumption DEF NullRank
<1> QED BY <1>1, <1>2 DEF FeaturedRank, AmountRank, DateRank

\* Rows on the list are in one order, by their dates in the end.
LEMMA Ordered ==
  ASSUME list \in List, NEW t \in [Rows -> Row], Dated(t)
  PROVE  /\ \A a \in Rows : ~Before(t, a, a)
         /\ \A a, b, c \in Rows : Before(t, a, b) /\ Before(t, b, c) => Before(t, a, c)
         /\ \A a, b \in Shown(t) : a = b \/ Before(t, a, b) \/ Before(t, b, a)
<1>1. \A r \in Rows : FeaturedRank(t, r) \in Int /\ AmountRank(t, r) \in Int /\ DateRank(t, r) \in Int
  BY RankTypes
<1>2. \A a \in Rows : ~Before(t, a, a)
  BY <1>1 DEF Before
<1>3. \A a, b, c \in Rows : Before(t, a, b) /\ Before(t, b, c) => Before(t, a, c)
  BY <1>1 DEF Before
<1>4. ASSUME NEW a \in Shown(t), NEW b \in Shown(t), a # b
      PROVE  Before(t, a, b) \/ Before(t, b, a)
  <2>1. a \in Rows /\ b \in Rows /\ t[a].date \in Nat /\ t[b].date \in Nat
    BY DEF Shown, Row
  <2>2. t[a].date # t[b].date
    BY <1>4, <2>1 DEF Dated, Shown
  <2>3. DateRank(t, a) # DateRank(t, b)
    BY <2>1, <2>2 DEF DateRank
  <2> QED BY <1>1, <2>1, <2>3 DEF Before
<1> QED BY <1>2, <1>3, <1>4

LEMMA ShownFinite ==
  ASSUME NEW t
  PROVE  IsFiniteSet(Shown(t)) /\ Cardinality(Shown(t)) \in 0..Cardinality(Rows)
<1>1. Shown(t) \in SUBSET Rows
  BY DEF Shown
<1>2. IsFiniteSet(Rows) /\ Cardinality(Rows) \in Nat
  BY SearchAssumption, FS_CardinalityType
<1>3. IsFiniteSet(Shown(t)) /\ Cardinality(Shown(t)) <= Cardinality(Rows)
  BY <1>1, <1>2, FS_Subset
<1> QED BY <1>2, <1>3, FS_CardinalityType

\* Positions follow the order, and no two rows on the list have the same.
LEMMA Positions ==
  ASSUME list \in List, NEW t \in [Rows -> Row], Dated(t)
  PROVE  /\ \A r \in Rows : Position(t, r) \in Nat
         /\ \A r, s \in Shown(t) : Before(t, s, r) => Position(t, s) < Position(t, r)
         /\ \A r \in Shown(t) : Position(t, r) < Cardinality(Shown(t))
         /\ \A r, s \in Shown(t) : Position(t, r) = Position(t, s) => r = s
<1> DEFINE Ahead(r) == {s \in Shown(t) : Before(t, s, r)}
<1>1. \A r : Ahead(r) \in SUBSET Shown(t) /\ Position(t, r) = Cardinality(Ahead(r))
  BY DEF Position
<1>2. \A r : IsFiniteSet(Ahead(r)) /\ Position(t, r) \in Nat
  BY <1>1, ShownFinite, FS_Subset, FS_CardinalityType
<1>3. ASSUME NEW r \in Shown(t), NEW s \in Shown(t), Before(t, s, r)
      PROVE  Position(t, s) < Position(t, r)
  <2>1. r \in Rows /\ s \in Rows
    BY DEF Shown
  <2>2. Ahead(s) \in SUBSET Ahead(r)
    BY <1>3, <2>1, Ordered DEF Shown
  <2>3. s \in Ahead(r) /\ s \notin Ahead(s)
    BY <1>3, <2>1, Ordered
  <2> HIDE DEF Ahead
  <2>4. Cardinality(Ahead(s)) <= Cardinality(Ahead(r)) /\ Cardinality(Ahead(s)) # Cardinality(Ahead(r))
    BY <1>2, <2>2, <2>3, FS_Subset
  <2> QED BY <1>1, <1>2, <2>4
<1>4. ASSUME NEW r \in Shown(t) PROVE Position(t, r) < Cardinality(Shown(t))
  <2>1. r \notin Ahead(r)
    BY Ordered DEF Shown
  <2> HIDE DEF Ahead
  <2>2. Cardinality(Ahead(r)) <= Cardinality(Shown(t)) /\ Cardinality(Ahead(r)) # Cardinality(Shown(t))
    BY <1>1, <2>1, ShownFinite, FS_Subset
  <2> QED BY <1>1, <1>2, <2>2, ShownFinite
<1>5. \A r, s \in Shown(t) : Position(t, r) = Position(t, s) => r = s
  <2> SUFFICES ASSUME NEW r \in Shown(t), NEW s \in Shown(t), Position(t, r) = Position(t, s)
               PROVE  r = s
    OBVIOUS
  <2>1. r = s \/ Before(t, r, s) \/ Before(t, s, r)
    BY Ordered
  <2>2. Position(t, r) \in Nat /\ Position(t, s) \in Nat
    BY <1>2
  <2> QED BY <1>3, <2>1, <2>2
<1> QED BY <1>2, <1>3, <1>4, <1>5

\* No more rows than places.
LEMMA Window ==
  ASSUME list \in List, NEW t \in [Rows -> Row], Dated(t),
         NEW low \in Int, NEW high \in Int, low <= high, NEW S \in SUBSET Shown(t),
         \A r \in S : low <= Position(t, r) /\ Position(t, r) < high
  PROVE  IsFiniteSet(S) /\ Cardinality(S) \in Nat /\ Cardinality(S) <= high - low
<1> DEFINE place == [r \in S |-> Position(t, r)]
<1>1. place \in [S -> low..(high - 1)]
  BY Positions DEF Shown
<1>2. \A r, s \in S : place[r] = place[s] => r = s
  BY Positions
<1>3. place \in Injection(S, low..(high - 1))
  BY <1>1, <1>2 DEF Injection, IsInjective
<1>4. IsFiniteSet(low..(high - 1)) /\ Cardinality(low..(high - 1)) = high - low
  BY FS_Interval
<1> HIDE DEF place
<1>5. IsFiniteSet(S) /\ Cardinality(S) <= Cardinality(low..(high - 1))
  BY <1>3, <1>4, FS_Injection
<1> QED BY <1>4, <1>5, FS_CardinalityType

-----------------------------------------------------------------------------
\* What a change of the row r does to the places of the others.
Elsewhere(t, u, r) == \A s \in Rows : s # r => t[s] = u[s]

LEMMA SameOrder ==
  ASSUME NEW t, NEW u, NEW r, Elsewhere(t, u, r)
  PROVE  \A a, b \in Rows \ {r} : Before(t, a, b) <=> Before(u, a, b)
BY DEF Elsewhere, Before, FeaturedRank, AmountRank, DateRank

LEMMA Shift ==
  ASSUME list \in List, NEW t \in [Rows -> Row], NEW u \in [Rows -> Row],
         NEW r \in Rows, Elsewhere(t, u, r), NEW s \in Shown(t), s # r
  PROVE  \E n \in Nat :
           /\ Position(t, s) = n + One(t[r].shown /\ Before(t, r, s))
           /\ Position(u, s) = n + One(u[r].shown /\ Before(u, r, s))
<1> DEFINE Ahead(v) == {x \in Shown(v) : Before(v, x, s)}
           Others == Ahead(t) \ {r}
<1>1. \A v : IsFiniteSet(Ahead(v)) /\ Position(v, s) = Cardinality(Ahead(v))
  <2> TAKE v
  <2>1. Ahead(v) \in SUBSET Shown(v)
    OBVIOUS
  <2> QED BY <2>1, ShownFinite, FS_Subset DEF Position
<1>2. Ahead(t) = IF t[r].shown /\ Before(t, r, s) THEN Others \cup {r} ELSE Others
  BY DEF Shown
<1>3. Ahead(u) = IF u[r].shown /\ Before(u, r, s) THEN Others \cup {r} ELSE Others
  BY SameOrder DEF Shown, Elsewhere
<1>4. r \notin Others
  OBVIOUS
<1>5. IsFiniteSet(Others) /\ Cardinality(Others) \in Nat
  <2> HIDE DEF Ahead
  <2> QED BY <1>1, FS_RemoveElement, FS_CardinalityType
<1> HIDE DEF Ahead, Others
<1>6. Cardinality(Others \cup {r}) = Cardinality(Others) + 1
  BY <1>4, <1>5, FS_AddElement
<1>7. Position(t, s) = Cardinality(Others) + One(t[r].shown /\ Before(t, r, s))
  <2>1. Position(t, s) = Cardinality(Ahead(t))
    BY <1>1
  <2>2. CASE t[r].shown /\ Before(t, r, s)
    BY <1>2, <1>6, <2>1, <2>2 DEF One
  <2>3. CASE ~(t[r].shown /\ Before(t, r, s))
    BY <1>2, <1>5, <2>1, <2>3 DEF One
  <2> QED BY <2>2, <2>3
<1>8. Position(u, s) = Cardinality(Others) + One(u[r].shown /\ Before(u, r, s))
  <2>1. Position(u, s) = Cardinality(Ahead(u))
    BY <1>1
  <2>2. CASE u[r].shown /\ Before(u, r, s)
    BY <1>3, <1>6, <2>1, <2>2 DEF One
  <2>3. CASE ~(u[r].shown /\ Before(u, r, s))
    BY <1>3, <1>5, <2>1, <2>3 DEF One
  <2> QED BY <2>2, <2>3
<1> QED BY <1>5, <1>7, <1>8

\* A row that falls back over the edge of what was shown is the last one before
\* it, and makes room for the row that changed.
LEMMA Crossing ==
  ASSUME list \in List, NEW t \in [Rows -> Row], NEW u \in [Rows -> Row],
         Dated(t), Dated(u),
         NEW r \in Rows, Elsewhere(t, u, r), NEW s \in Shown(t), s # r,
         NEW edge \in Int, Position(t, s) < edge, edge <= Position(u, s)
  PROVE  /\ Position(t, s) = edge - 1
         /\ u[r].shown /\ Position(u, r) < edge
         /\ ~(t[r].shown /\ Position(t, r) < edge)
<1>1. PICK n \in Nat :
           /\ Position(t, s) = n + One(t[r].shown /\ Before(t, r, s))
           /\ Position(u, s) = n + One(u[r].shown /\ Before(u, r, s))
  BY Shift
<1>2. /\ Position(t, s) = n /\ n = edge - 1 /\ Position(u, s) = n + 1
      /\ u[r].shown /\ Before(u, r, s)
      /\ ~(t[r].shown /\ Before(t, r, s))
  BY <1>1 DEF One
<1>3. s \in Shown(u)
  BY DEF Shown, Elsewhere
<1>4. Position(u, r) \in Nat /\ Position(u, r) < Position(u, s)
  BY <1>2, <1>3, Positions DEF Shown
<1>5. t[r].shown => Position(t, r) \in Nat /\ Position(t, s) < Position(t, r)
  BY <1>2, Ordered, Positions DEF Shown
<1> QED BY <1>2, <1>4, <1>5

-----------------------------------------------------------------------------
\* Among finitely many dates there is a latest one.
LEMMA LatestDate ==
  ASSUME row \in [Rows -> Row], Rows # {}
  PROVE  Latest \in Nat /\ \A r \in Rows : row[r].date <= Latest
<1> DEFINE Later(r) == {s \in Rows : row[s].date > row[r].date}
           Sets == {Later(r) : r \in Rows}
<1>1. \A r \in Rows : row[r].date \in Nat
  BY DEF Row
<1>2. IsWellFoundedOn(StrictSubsetOrdering(Rows), SUBSET Rows)
  BY SearchAssumption, FS_StrictSubsetOrderingWellFounded, FS_FiniteSubsetsOfFinite
<1>3. Sets \subseteq SUBSET Rows /\ Sets # {}
  <2>1. \A r \in Rows : Later(r) \in SUBSET Rows
    OBVIOUS
  <2> HIDE DEF Later
  <2>2. Sets # {}
    <3>1. PICK r \in Rows : TRUE
      OBVIOUS
    <3>2. Later(r) \in Sets
      OBVIOUS
    <3> QED BY <3>2
  <2> QED BY <2>1, <2>2
<1>4. PICK S \in Sets : \A T \in Sets : ~(<<T, S>> \in StrictSubsetOrdering(Rows))
  <2> HIDE DEF Sets
  <2> QED BY <1>2, <1>3, WFMin
<1>5. PICK r \in Rows : S = Later(r)
  OBVIOUS
<1>6. ASSUME NEW s \in Rows PROVE row[s].date <= row[r].date
  <2> SUFFICES ASSUME row[s].date > row[r].date PROVE FALSE
    BY <1>1
  <2>1. Later(s) \subseteq Later(r) /\ s \in Later(r) /\ s \notin Later(s)
    BY <1>1
  <2>2. <<Later(s), Later(r)>> \in StrictSubsetOrdering(Rows)
    BY <2>1 DEF StrictSubsetOrdering
  <2> QED BY <1>4, <1>5, <2>2
<1>7. \E d \in {row[s].date : s \in Rows} : \A s \in Rows : row[s].date <= d
  BY <1>6
<1>8. Latest \in {row[s].date : s \in Rows} /\ \A s \in Rows : row[s].date <= Latest
  <2> DEFINE Dates == {row[s].date : s \in Rows}
             Last(d) == \A s \in Rows : row[s].date <= d
  <2>1. \E d \in Dates : Last(d)
    BY <1>7
  <2>2. Latest = CHOOSE d \in Dates : Last(d)
    BY DEF Latest
  <2> HIDE DEF Dates, Last
  <2>3. Latest \in Dates /\ Last(Latest)
    BY <2>1, <2>2
  <2> QED BY <2>3 DEF Dates, Last
<1> QED BY <1>1, <1>8

-----------------------------------------------------------------------------
\* What a change of the row r does: the table keeps its order, the request in
\* flight is left alone, and a change that may cost or repeat a row is counted.
Counted(r) ==
  /\ ~Passed(row, r) /\ Passed(row', r) => doubles' = doubles + 1
  /\ row[r].shown /\ row'[r].shown /\ Passed(row, r) # Passed(row', r)
       => losses' = losses + 1 /\ doubles' = doubles + 1
  /\ Passed(row, r) /\ ~row'[r].shown => losses' = losses + 1
  /\ ~row[r].shown /\ row'[r].shown =>
       /\ stage = "counted" => losses' = losses + 1
       /\ r \in seen => doubles' = doubles + 1

Changed(r) ==
  /\ row' \in [Rows -> Row] /\ Dated(row') /\ Elsewhere(row, row', r)
  /\ stayed' = IF row'[r].shown THEN stayed ELSE stayed \ {r}
  /\ page > 0 /\ changes < MaxChanges /\ changes' = changes + 1
  /\ losses' \in {losses, losses + 1} /\ doubles' \in {doubles, doubles + 1}
  /\ list' = list /\ page' = page /\ stage' = stage /\ total' = total
  /\ seen' = seen /\ repeats' = repeats
  /\ Counted(r)

\* A row of the table is replaced by one with a date of its own.
LEMMA Replaced ==
  ASSUME TypeOK, Dated(row), NEW r \in Rows, NEW new \in Row,
         new.shown => new.date # 0,
         \A s \in Rows : s # r /\ row[s].date = new.date => new.date = 0,
         NEW losing \in BOOLEAN, NEW doubling \in BOOLEAN,
         Change(r, new, losing, doubling),
         Counted(r)
  PROVE  Changed(r)
<1>1. row' = [row EXCEPT ![r] = new] /\ row \in [Rows -> Row]
  BY DEF Change, TypeOK
<1>2. row' \in [Rows -> Row] /\ row'[r] = new /\ \A s \in Rows : s # r => row'[s] = row[s]
  BY <1>1
<1>3. Dated(row')
  BY <1>2 DEF Dated
<1>4. /\ stayed' = IF row'[r].shown THEN stayed ELSE stayed \ {r}
      /\ page > 0 /\ changes < MaxChanges /\ changes' = changes + 1
      /\ list' = list /\ page' = page /\ stage' = stage /\ total' = total
      /\ seen' = seen /\ repeats' = repeats
  BY <1>2 DEF Change, walk
<1>5. losses' \in {losses, losses + 1} /\ doubles' \in {doubles, doubles + 1}
  BY DEF Change, One, TypeOK
<1> QED BY <1>2, <1>3, <1>4, <1>5 DEF Changed, Elsewhere

LEMMA EnterChanges ==
  ASSUME TypeOK, Dated(row), NEW r \in Rows, Enter(r)
  PROVE  Changed(r)
<1> DEFINE entered == [row[r] EXCEPT !.shown = TRUE,
                                     !.date = IF @ = 0 THEN Latest + 1 ELSE @]
<1>1. row \in [Rows -> Row] /\ row[r] \in Row
  BY DEF TypeOK
<1>2. Latest \in Nat /\ \A s \in Rows : row[s].date <= Latest
  BY <1>1, LatestDate
<1>3. /\ entered \in Row /\ entered.shown
      /\ entered.date = IF row[r].date = 0 THEN Latest + 1 ELSE row[r].date
  <2>1. PICK d \in Nat : d = IF row[r].date = 0 THEN Latest + 1 ELSE row[r].date
    BY <1>1, <1>2 DEF Row
  <2>2. entered = [row[r] EXCEPT !.shown = TRUE, !.date = d]
    BY <1>1, <2>1 DEF Row
  <2> HIDE DEF entered
  <2>3. entered \in Row /\ entered.shown /\ entered.date = d
    BY <1>1, <2>2 DEF Row
  <2> QED BY <2>1, <2>3
<1>4. /\ ~row[r].shown
      /\ Change(r, entered, stage = "counted",
                r \in seen \/ Passed([row EXCEPT ![r] = entered], r))
  BY DEF Enter
<1>5. PICK new : new = entered
  OBVIOUS
<1> HIDE DEF entered
<1>6. /\ new \in Row /\ new.shown /\ new.date # 0
      /\ \A s \in Rows : s # r /\ row[s].date = new.date => new.date = 0
  <2>1. \A s \in Rows : row[s].date \in Nat
    BY <1>1 DEF Row
  <2> QED BY <1>2, <1>3, <1>5, <2>1 DEF Dated
<1>7. /\ row' = [row EXCEPT ![r] = new] /\ row'[r] = new
      /\ Change(r, new, stage = "counted", r \in seen \/ Passed(row', r))
  BY <1>1, <1>4, <1>5 DEF Change
<1>8. /\ stage = "counted" => losses' = losses + 1
      /\ r \in seen \/ Passed(row', r) => doubles' = doubles + 1
  BY <1>7 DEF Change, One
<1>9. Counted(r)
  BY <1>4, <1>6, <1>7, <1>8 DEF Counted, Passed
<1>10. PICK doubling \in BOOLEAN : doubling = (r \in seen \/ Passed(row', r))
  OBVIOUS
<1>11. PICK losing \in BOOLEAN : losing = (stage = "counted")
  OBVIOUS
<1> QED BY <1>6, <1>7, <1>9, <1>10, <1>11, Replaced

LEMMA LeaveChanges ==
  ASSUME TypeOK, Dated(row), NEW r \in Rows, Leave(r)
  PROVE  Changed(r)
<1> DEFINE left == [row[r] EXCEPT !.shown = FALSE]
<1>1. row \in [Rows -> Row] /\ row[r] \in Row
  BY DEF TypeOK
<1>2. left \in Row /\ ~left.shown /\ left.date = row[r].date
  BY <1>1 DEF Row
<1>3. row[r].shown /\ Change(r, left, Passed(row, r), FALSE)
  BY DEF Leave
<1>4. PICK new : new = left
  OBVIOUS
<1> HIDE DEF left
<1>5. PICK losing \in BOOLEAN : losing = Passed(row, r)
  BY DEF Passed
<1>6. new \in Row /\ ~new.shown /\ Change(r, new, losing, FALSE)
  BY <1>2, <1>3, <1>4, <1>5
<1>7. \A s \in Rows : s # r /\ row[s].date = new.date => new.date = 0
  BY <1>1, <1>2, <1>4 DEF Dated
<1>8. row'[r] = new /\ (losing => losses' = losses + 1)
  BY <1>1, <1>6 DEF Change, One
<1>9. Counted(r)
  BY <1>3, <1>5, <1>6, <1>8 DEF Counted, Passed
<1> QED BY <1>6, <1>7, <1>9, Replaced

\* A move leaves the row on the list, or off it, with its date.
LEMMA MoveChanges ==
  ASSUME TypeOK, Dated(row), NEW r \in Rows, NEW new \in Row, Move(r, new),
         new.shown = row[r].shown, new.date = row[r].date
  PROVE  Changed(r)
<1>1. row \in [Rows -> Row] /\ row[r] \in Row
  BY DEF TypeOK
<1>2. PICK across \in BOOLEAN : across = (Passed(row, r) # Passed([row EXCEPT ![r] = new], r))
  OBVIOUS
<1>3. Change(r, new, across, across)
  BY <1>2 DEF Move
<1>4. row' = [row EXCEPT ![r] = new] /\ row'[r] = new
  BY <1>1, <1>3 DEF Change
<1>5. across => losses' = losses + 1 /\ doubles' = doubles + 1
  BY <1>3 DEF Change, One
<1>6. across = (Passed(row, r) # Passed(row', r))
  BY <1>2, <1>4
<1>7. Counted(r)
  BY <1>1, <1>4, <1>5, <1>6 DEF Counted, Passed, Row
<1>8. /\ new.shown => new.date # 0
      /\ \A s \in Rows : s # r /\ row[s].date = new.date => new.date = 0
  BY <1>1 DEF Dated
<1> QED BY <1>3, <1>7, <1>8, Replaced

LEMMA ChangesCounted ==
  ASSUME TypeOK, Dated(row), NEW r \in Rows,
         Enter(r) \/ Leave(r) \/ Feature(r) \/ Reprice(r)
  PROVE  Changed(r)
<1>1. row \in [Rows -> Row] /\ row[r] \in Row
  BY DEF TypeOK
<1>2. CASE Feature(r)
  <2> DEFINE new == [row[r] EXCEPT !.featured = ~@]
  <2>1. new \in Row /\ new.shown = row[r].shown /\ new.date = row[r].date
    BY <1>1 DEF Row
  <2>2. Move(r, new)
    BY <1>2 DEF Feature
  <2> HIDE DEF new
  <2> QED BY <2>1, <2>2, MoveChanges
<1>3. CASE Reprice(r)
  <2>1. PICK amount \in Amounts \cup {None} : Move(r, [row[r] EXCEPT !.amount = amount])
    BY <1>3 DEF Reprice
  <2> DEFINE new == [row[r] EXCEPT !.amount = amount]
  <2>2. new \in Row /\ new.shown = row[r].shown /\ new.date = row[r].date
    BY <1>1 DEF Row
  <2>3. Move(r, new)
    BY <2>1
  <2> HIDE DEF new
  <2> QED BY <2>2, <2>3, MoveChanges
<1> QED BY <1>2, <1>3, EnterChanges, LeaveChanges

-----------------------------------------------------------------------------
Edge == list.limit * (IF stage = "idle" THEN page ELSE page - 1)

\* Rows that were there all the time and will not be met any more, and rows
\* that were shown and will be met again.
Missed == {r \in stayed \ seen : Passed(row, r)}
Again == {r \in seen : row[r].shown /\ ~Passed(row, r)}

InFlight == stage = "counted" => page > 0

Stays == stayed \subseteq Shown(row)

\* Who follows the pager is within the table.
Near == stayed # {} /\ page > 0 => (page - 1) * list.limit <= Cardinality(Rows)

RepeatsCounted == ~Overflows => repeats + Cardinality(Again) <= doubles

\* Between the two statements the walk must make up for the rows that entered
\* after the count, too.
MissesCounted ==
  /\ Cardinality(Missed) <= losses
  /\ stage = "counted" => Cardinality(Missed) + Cardinality(Shown(row)) - total <= losses

IInv ==
  /\ TypeOK /\ Dated(row) /\ InFlight /\ Stays /\ Near
  /\ RepeatsCounted /\ MissesCounted /\ WalkComplete

\* Arithmetic that the steps below need in one piece.
LEMMA Products ==
  ASSUME NEW m \in Nat, NEW n \in Nat, NEW k \in Nat \ {0}, m <= n
  PROVE  /\ m * k \in Nat /\ k * m = m * k
         /\ m * k <= n * k /\ m <= m * k
         /\ (m - 1) * k = m * k - k
OBVIOUS

LEMMA LaterEdge ==
  ASSUME NEW m \in Nat, NEW n \in Nat, NEW k \in Nat \ {0}, m < n
  PROVE  /\ k * m = m * k /\ k * (n - 1) = (n - 1) * k /\ m * k <= (n - 1) * k
         /\ m * k \in Nat /\ (n - 1) * k \in Nat
OBVIOUS

LEMMA EdgeType == TypeOK => Edge \in Int /\ list \in List /\ row \in [Rows -> Row]
BY SearchAssumption DEF TypeOK, Edge, List

LEMMA PassedIs ==
  ASSUME NEW t, NEW r
  PROVE  Passed(t, r) <=> t[r].shown /\ Position(t, r) < Edge
BY DEF Passed, Edge

LEMMA Finite ==
  ASSUME TypeOK
  PROVE  /\ \A S \in SUBSET Rows : IsFiniteSet(S) /\ Cardinality(S) \in Nat
         /\ Missed \in SUBSET Rows /\ Again \in SUBSET Rows
<1>1. \A S \in SUBSET Rows : IsFiniteSet(S) /\ Cardinality(S) \in Nat
  BY SearchAssumption, FS_Subset, FS_CardinalityType
<1> QED BY <1>1 DEF TypeOK, Missed, Again

LEMMA Fewer ==
  ASSUME NEW S \in SUBSET Rows, NEW T \in SUBSET S
  PROVE  Cardinality(T) <= Cardinality(S)
BY SearchAssumption, FS_Subset

LEMMA OneMore ==
  ASSUME NEW S \in SUBSET Rows, NEW x, NEW T \in SUBSET (S \cup {x})
  PROVE  Cardinality(T) <= Cardinality(S) + 1
<1>1. IsFiniteSet(S) /\ Cardinality(S) \in Nat
  BY SearchAssumption, FS_Subset, FS_CardinalityType
<1>2. IsFiniteSet(S \cup {x}) /\ Cardinality(S \cup {x}) <= Cardinality(S) + 1
  BY <1>1, FS_AddElement
<1>3. Cardinality(T) <= Cardinality(S \cup {x})
  BY <1>2, FS_Subset
<1>4. Cardinality(T) \in Nat /\ Cardinality(S \cup {x}) \in Nat
  BY <1>2, FS_Subset, FS_CardinalityType
<1> QED BY <1>1, <1>2, <1>3, <1>4

-----------------------------------------------------------------------------
\* A change of the row r moves another over the edge only if r crosses it the
\* other way.
LEMMA Crossers ==
  ASSUME TypeOK, Dated(row), NEW r \in Rows, Changed(r),
         NEW s \in Rows, s # r, row[s].shown
  PROVE  /\ row'[s].shown
         /\ Passed(row, s) /\ ~Passed(row', s) =>
              Position(row, s) = Edge - 1 /\ Passed(row', r) /\ ~Passed(row, r)
         /\ ~Passed(row, s) /\ Passed(row', s) =>
              Position(row', s) = Edge - 1 /\ Passed(row, r) /\ ~Passed(row', r)
<1>1. /\ list \in List /\ Edge \in Int /\ row \in [Rows -> Row] /\ row' \in [Rows -> Row]
      /\ Dated(row') /\ Elsewhere(row, row', r) /\ Elsewhere(row', row, r)
  BY EdgeType DEF Changed, Elsewhere
<1>2. PICK t, u : t = row /\ u = row'
  OBVIOUS
<1>3. /\ t \in [Rows -> Row] /\ u \in [Rows -> Row] /\ Dated(t) /\ Dated(u)
      /\ Elsewhere(t, u, r) /\ Elsewhere(u, t, r)
  BY <1>1, <1>2
<1>4. s \in Shown(t) /\ s \in Shown(u) /\ u[s].shown
  BY <1>2, <1>3 DEF Shown, Elsewhere
<1>5. Position(t, s) \in Nat /\ Position(u, s) \in Nat
  BY <1>1, <1>3, Positions
<1>6. ASSUME Passed(t, s), ~Passed(u, s)
      PROVE  Position(t, s) = Edge - 1 /\ Passed(u, r) /\ ~Passed(t, r)
  <2>1. Position(t, s) < Edge /\ Edge <= Position(u, s)
    BY <1>1, <1>4, <1>5, <1>6, PassedIs
  <2> QED BY <1>1, <1>3, <1>4, <2>1, Crossing, PassedIs
<1>7. ASSUME ~Passed(t, s), Passed(u, s)
      PROVE  Position(u, s) = Edge - 1 /\ Passed(t, r) /\ ~Passed(u, r)
  <2>1. Position(u, s) < Edge /\ Edge <= Position(t, s)
    BY <1>1, <1>2, <1>5, <1>7, PassedIs
  <2> QED BY <1>1, <1>3, <1>4, <2>1, Crossing, PassedIs
<1> QED BY <1>2, <1>4, <1>6, <1>7

\* Places only depend on the table and the list.
LEMMA PlacesNext ==
  ASSUME list' = list, NEW s
  PROVE  Position(row, s)' = Position(row', s)
BY DEF Position, Shown, Before, FeaturedRank, AmountRank, DateRank, NullRank, BySalary

LEMMA PassedNext ==
  ASSUME list' = list, stage' = stage, page' = page, NEW s
  PROVE  Edge' = Edge /\ (Passed(row, s)' <=> Passed(row', s))
BY PlacesNext DEF Edge, Passed

\* A change that brings a row that was shown in front of the visitor again is
\* counted, and brings no second one.
LEMMA ChangeRepeats ==
  ASSUME IInv, NEW r \in Rows, Changed(r)
  PROVE  RepeatsCounted'
<1>1. /\ TypeOK /\ Dated(row) /\ row' \in [Rows -> Row]
      /\ list' = list /\ page' = page /\ stage' = stage /\ seen' = seen /\ repeats' = repeats
      /\ doubles' \in {doubles, doubles + 1} /\ doubles \in Nat /\ repeats \in Nat
      /\ seen \subseteq Rows
  BY DEF IInv, Changed, TypeOK
<1>2. Overflows' <=> Overflows
  BY <1>1 DEF Overflows
<1>3. Again' = {s \in seen : row'[s].shown /\ ~Passed(row', s)}
  BY <1>1, PassedNext DEF Again
<1>4. \A s \in Again' : s # r => row[s].shown
  BY <1>1, <1>3 DEF Changed, Elsewhere
<1>5. Again \in SUBSET Rows /\ Cardinality(Again) \in Nat /\ Again' \in SUBSET Rows
      /\ Cardinality(Again') \in Nat
  BY <1>1, <1>3, Finite
<1>6. CASE Passed(row', r) /\ ~Passed(row, r)
  <2>1. r \notin Again' /\ doubles' = doubles + 1
    BY <1>3, <1>6 DEF Changed, Counted
  <2>2. \A s \in Again' \ Again : s \in Shown(row) /\ Position(row, s) = Edge - 1
    BY <1>1, <1>3, <1>4, <2>1, Crossers DEF Again, Shown
  <2>3. \A s, x \in Again' \ Again : s = x
    BY <1>1, <2>2, EdgeType, Positions
  <2>4. PICK x : Again' \subseteq Again \cup {x}
    BY <2>3
  <2>5. Cardinality(Again') <= Cardinality(Again) + 1
    BY <1>5, <2>4, OneMore
  <2> QED BY <1>1, <1>2, <1>5, <2>1, <2>5 DEF IInv, RepeatsCounted
<1>7. CASE ~(Passed(row', r) /\ ~Passed(row, r))
  <2>1. Again' \subseteq Again \cup {r}
    BY <1>1, <1>3, <1>4, <1>7, Crossers DEF Again
  <2>2. CASE r \in Again' /\ r \notin Again
    <3>1. doubles' = doubles + 1
      BY <1>3, <2>2, PassedIs DEF Again, Changed, Counted
    <3>2. Cardinality(Again') <= Cardinality(Again) + 1
      BY <1>5, <2>1, OneMore
    <3> QED BY <1>1, <1>2, <1>5, <3>1, <3>2 DEF IInv, RepeatsCounted
  <2>3. CASE ~(r \in Again' /\ r \notin Again)
    <3>1. Cardinality(Again') <= Cardinality(Again)
      BY <1>5, <2>1, <2>3, Fewer
    <3> QED BY <1>1, <1>2, <1>5, <3>1 DEF IInv, RepeatsCounted
  <2> QED BY <2>2, <2>3
<1> QED BY <1>6, <1>7

\* A change that takes a row past the visitor is counted, and takes no second
\* one.
LEMMA ChangeMisses ==
  ASSUME IInv, NEW r \in Rows, Changed(r)
  PROVE  Stays' /\ MissesCounted'
<1>1. /\ TypeOK /\ Dated(row) /\ row' \in [Rows -> Row] /\ row \in [Rows -> Row]
      /\ list' = list /\ page' = page /\ stage' = stage /\ seen' = seen /\ total' = total
      /\ losses' \in {losses, losses + 1} /\ losses \in Nat /\ total \in Nat
      /\ stayed' = IF row'[r].shown THEN stayed ELSE stayed \ {r}
      /\ stayed \subseteq Shown(row)
  BY DEF IInv, Changed, TypeOK, Stays
<1>2. \A s \in Rows : s # r => row'[s] = row[s]
  BY DEF Changed, Elsewhere
<1>3. Stays'
  BY <1>1, <1>2 DEF Stays, Shown
<1>4. Missed' = {s \in stayed' \ seen : Passed(row', s)}
  BY <1>1, PassedNext DEF Missed
<1>5. Missed' \in SUBSET Rows /\ Missed \in SUBSET Rows
      /\ Cardinality(Missed) \in Nat /\ Cardinality(Missed') \in Nat
  <2>1. Missed \in SUBSET Rows /\ Missed' \in SUBSET Rows
    BY <1>1, <1>4 DEF Missed, Shown
  <2> QED BY <1>1, <2>1, Finite
<1>6. \A s \in Missed' : s \in stayed /\ s \in Rows /\ row[s].shown /\ s \notin seen
  BY <1>1, <1>4 DEF Shown
<1>7. /\ Cardinality(Shown(row)) \in Nat /\ Cardinality(Shown(row')) \in Nat
      /\ Shown(row) \in SUBSET Rows
  BY ShownFinite DEF Shown
<1>8. /\ Cardinality(Shown(row')) <= Cardinality(Shown(row)) + One(~row[r].shown /\ row'[r].shown)
      /\ row[r].shown /\ ~row'[r].shown =>
           Cardinality(Shown(row')) = Cardinality(Shown(row)) - 1
  <2>1. CASE row[r].shown <=> row'[r].shown
    <3>1. Shown(row') = Shown(row)
      BY <1>2, <2>1 DEF Shown
    <3> QED BY <1>7, <2>1, <3>1 DEF One
  <2>2. CASE ~row[r].shown /\ row'[r].shown
    <3>1. Shown(row') \in SUBSET (Shown(row) \cup {r})
      BY <1>2, <2>2 DEF Shown
    <3>2. Cardinality(Shown(row')) <= Cardinality(Shown(row)) + 1
      BY <1>7, <3>1, OneMore
    <3> QED BY <2>2, <3>2 DEF One
  <2>3. CASE row[r].shown /\ ~row'[r].shown
    <3>1. Shown(row') = Shown(row) \ {r} /\ r \in Shown(row)
      BY <1>2, <2>3 DEF Shown
    <3>2. Cardinality(Shown(row')) = Cardinality(Shown(row)) - 1
      BY <3>1, ShownFinite, FS_RemoveElement
    <3> QED BY <1>7, <2>3, <3>2 DEF One
  <2> QED BY <2>1, <2>2, <2>3
<1>9. CASE Passed(row, r) /\ ~Passed(row', r)
  <2>1. r \notin Missed' /\ losses' = losses + 1 /\ row[r].shown
    BY <1>4, <1>9, PassedIs DEF Changed, Counted
  <2>2. \A s \in Missed' \ Missed : s \in Shown(row') /\ Position(row', s) = Edge - 1
    BY <1>1, <1>4, <1>6, <2>1, Crossers DEF Missed, Shown
  <2>3. Dated(row') /\ list \in List
    BY <1>1, EdgeType DEF Changed
  <2>4. \A s, x \in Missed' \ Missed : s = x
    BY <1>1, <2>2, <2>3, EdgeType, Positions
  <2>5. PICK x : Missed' \subseteq Missed \cup {x}
    BY <2>4
  <2>6. Cardinality(Missed') <= Cardinality(Missed) + 1
    BY <1>5, <2>5, OneMore
  <2>7. Cardinality(Shown(row')) <= Cardinality(Shown(row))
    BY <1>7, <1>8, <2>1 DEF One
  <2> QED BY <1>1, <1>3, <1>5, <1>7, <2>1, <2>6, <2>7 DEF IInv, MissesCounted
<1>10. CASE ~(Passed(row, r) /\ ~Passed(row', r))
  <2>1. Missed' \subseteq Missed \cup {r}
    BY <1>1, <1>4, <1>6, <1>10, Crossers DEF Missed
  <2>2. CASE r \in Missed' /\ r \notin Missed
    <3>1. losses' = losses + 1 /\ row[r].shown
      BY <1>4, <1>6, <2>2, PassedIs DEF Missed, Changed, Counted
    <3>2. Cardinality(Missed') <= Cardinality(Missed) + 1
      BY <1>5, <2>1, OneMore
    <3>3. Cardinality(Shown(row')) <= Cardinality(Shown(row))
      BY <1>7, <1>8, <3>1 DEF One
    <3> QED BY <1>1, <1>3, <1>5, <1>7, <3>1, <3>2, <3>3 DEF IInv, MissesCounted
  <2>3. CASE ~(r \in Missed' /\ r \notin Missed)
    <3>1. Cardinality(Missed') <= Cardinality(Missed)
      BY <1>5, <2>1, <2>3, Fewer
    <3>2. stage = "counted" /\ ~row[r].shown /\ row'[r].shown => losses' = losses + 1
      BY DEF Changed, Counted
    <3>3. stage = "counted" =>
            Cardinality(Shown(row')) - losses' <= Cardinality(Shown(row)) - losses
      BY <1>1, <1>7, <1>8, <3>2 DEF One
    <3> QED BY <1>1, <1>3, <1>5, <1>7, <3>1, <3>3 DEF IInv, MissesCounted
  <2> QED BY <2>2, <2>3
<1> QED BY <1>9, <1>10

LEMMA ChangeKeeps ==
  ASSUME IInv, NEW r \in Rows, Changed(r)
  PROVE  IInv'
<1>1. TypeOK'
  <2>1. /\ row' \in [Rows -> Row] /\ stayed' \subseteq stayed
        /\ losses' \in {losses, losses + 1} /\ doubles' \in {doubles, doubles + 1}
        /\ changes' = changes + 1 /\ changes < MaxChanges
    BY DEF Changed
  <2>2. /\ losses \in 0..changes /\ doubles \in 0..changes /\ changes \in 0..MaxChanges
        /\ stayed \in SUBSET Rows /\ MaxChanges \in Nat
    BY SearchAssumption DEF IInv, TypeOK
  <2>3. losses' \in 0..changes' /\ doubles' \in 0..changes' /\ changes' \in 0..MaxChanges
    BY <2>1, <2>2
  <2> QED BY <2>1, <2>2, <2>3 DEF IInv, TypeOK, Changed
<1>2. Dated(row)'
  BY DEF Changed, Dated
<1>3. InFlight'
  BY DEF IInv, InFlight, Changed
<1>4. Near'
  BY DEF IInv, Near, Changed
<1>5. WalkComplete'
  <2>1. stayed' \ seen' \subseteq stayed \ seen /\ stayed \ seen \in SUBSET Rows
    BY DEF Changed, IInv, TypeOK
  <2>2. /\ Cardinality(stayed' \ seen') <= Cardinality(stayed \ seen)
        /\ Cardinality(stayed' \ seen') \in Nat /\ Cardinality(stayed \ seen) \in Nat
    BY <2>1, Fewer, Finite DEF IInv
  <2>3. (AtTheEnd' <=> AtTheEnd) /\ losses \in Nat /\ losses' \in {losses, losses + 1}
    BY DEF AtTheEnd, Changed, IInv, TypeOK
  <2> QED BY <2>2, <2>3 DEF WalkComplete, IInv
<1>6. RepeatsCounted' /\ Stays' /\ MissesCounted'
  BY ChangeRepeats, ChangeMisses
<1> QED BY <1>1, <1>2, <1>3, <1>4, <1>5, <1>6 DEF IInv

-----------------------------------------------------------------------------
\* The first statement of a request for a later page.
LEMMA CountKeeps ==
  ASSUME IInv, NEW asked, Count(asked), PageNumber(asked) > page,
         PageNumber(asked) \in 1..(Width \div 2 - 1),
         \/ /\ stayed' = stayed /\ PageNumber(asked) = page + 1
            /\ page > 0 => page * list.limit < total
         \/ stayed' = {}
  PROVE  IInv'
<1>1. /\ page' \in 1..(Width \div 2 - 1) /\ page' > page /\ page \in Nat /\ page' \in Nat
      /\ stage' = "counted" /\ stage = "idle" /\ total' = Cardinality(Shown(row))
      /\ row' = row /\ list' = list /\ seen' = seen /\ repeats' = repeats
      /\ losses' = losses /\ doubles' = doubles /\ changes' = changes
      /\ stayed' \subseteq stayed
      /\ stayed' # {} => /\ stayed' = stayed /\ page' = page + 1
                         /\ page > 0 => page * list.limit < total
  BY DEF Count, IInv, TypeOK
<1>2. TypeOK /\ list.limit \in Nat \ {0} /\ total \in 0..Cardinality(Rows)
      /\ seen \in SUBSET Rows /\ stayed \in SUBSET Rows
      /\ losses \in Nat /\ doubles \in Nat /\ repeats \in Nat
  BY SearchAssumption DEF IInv, TypeOK
<1>3. TypeOK'
  BY <1>1, <1>2, ShownFinite DEF TypeOK
<1>4. Dated(row)' /\ InFlight' /\ Stays' /\ WalkComplete'
  BY <1>1 DEF IInv, Dated, InFlight, Stays, WalkComplete, AtTheEnd, Shown
<1>5. Edge = page * list.limit /\ Edge' = (page' - 1) * list.limit /\ Edge <= Edge'
      /\ Edge \in Nat /\ Edge' \in Nat
  <2>1. Edge = list.limit * page /\ Edge' = list.limit * (page' - 1)
    BY <1>1 DEF Edge
  <2> QED BY <1>1, <1>2, <2>1, LaterEdge
<1>6. Near'
  <2>1. CASE stayed' = {}
    BY <2>1 DEF Near
  <2>2. CASE stayed' # {}
    <3>1. page' - 1 = page /\ (page > 0 => page * list.limit < total)
      <4>1. page \in Nat /\ page' = page + 1 /\ (page > 0 => page * list.limit < total)
        BY <1>1, <2>2
      <4> QED BY <4>1
    <3>2. page = 0 => page * list.limit = 0
      BY <1>2
    <3>3. page * list.limit <= Cardinality(Rows) /\ Cardinality(Rows) \in Nat
      BY <1>1, <1>2, <3>1, <3>2, FS_CardinalityType, SearchAssumption
    <3> QED BY <1>1, <3>1, <3>3 DEF Near
  <2> QED BY <2>1, <2>2
<1>7. \A s \in Rows : Position(row, s)' = Position(row, s) /\ Position(row, s) \in Nat
  BY <1>1, PlacesNext, EdgeType, Positions DEF IInv
<1>8. \A s \in Rows :
        /\ Passed(row, s) <=> row[s].shown /\ Position(row, s) < Edge
        /\ Passed(row, s)' <=> row[s].shown /\ Position(row, s) < Edge'
  BY <1>1, <1>7, PassedIs DEF Passed, Edge
<1>9. RepeatsCounted'
  <2>1. Again' \subseteq Again /\ Again \in SUBSET Rows
    BY <1>1, <1>2, <1>5, <1>7, <1>8 DEF Again
  <2>2. /\ Cardinality(Again') <= Cardinality(Again)
        /\ Cardinality(Again') \in Nat /\ Cardinality(Again) \in Nat
    BY <1>2, <2>1, Fewer, Finite
  <2>3. Overflows => Overflows'
    <3>1. (page - 1) * list.limit <= (page' - 1) * list.limit
          /\ (page - 1) * list.limit \in Int
      BY <1>1, <1>2, <1>5, Products
    <3>2. (page' - 1) * list.limit \in Nat /\ Width \div 2 \in Nat
      BY <1>5, SearchAssumption
    <3> QED BY <1>1, <3>1, <3>2 DEF Overflows
  <2> QED BY <1>1, <1>2, <2>2, <2>3 DEF RepeatsCounted, IInv
<1>10. MissesCounted'
  <2>1. Missed' \subseteq Missed /\ Missed \in SUBSET Rows
    <3>1. CASE stayed' = {}
      BY <1>2, <3>1 DEF Missed
    <3>2. CASE stayed' # {}
      <4>1. Edge' = Edge
        BY <1>1, <1>5, <3>2
      <4> QED BY <1>1, <1>2, <1>8, <3>2, <4>1 DEF Missed
    <3> QED BY <3>1, <3>2
  <2>2. /\ Cardinality(Missed') <= Cardinality(Missed)
        /\ Cardinality(Missed') \in Nat /\ Cardinality(Missed) \in Nat
    BY <1>2, <2>1, Fewer, Finite
  <2>3. Cardinality(Shown(row')) = total' /\ total' \in Nat
    <3>1. total' = Cardinality(Shown(row)) /\ Shown(row') = Shown(row)
      BY <1>1
    <3>2. Cardinality(Shown(row)) \in 0..Cardinality(Rows)
      BY ShownFinite
    <3>3. Cardinality(Shown(row)) \in Nat
      BY <3>2
    <3> QED BY <3>1, <3>3
  <2> QED BY <1>1, <1>2, <2>2, <2>3 DEF MissesCounted, IInv
<1> QED BY <1>3, <1>4, <1>6, <1>9, <1>10 DEF IInv

LEMMA RequestsKeep ==
  ASSUME IInv, FirstPage \/ NextPage \/ TypedPage
  PROVE  IInv'
<1>1. page \in Nat /\ None \notin Int /\ Width \div 2 \in Nat /\ Width \div 2 > 1
      /\ list.limit \in Nat \ {0} /\ total \in Nat /\ total < Width \div 2
  BY SearchAssumption, FS_CardinalityType DEF IInv, TypeOK
<1>2. \A n \in Nat \ {0} : PageNumber(n) = n
  BY <1>1 DEF PageNumber, Given
<1>3. CASE FirstPage
  <2>1. PageNumber(None) = 1
    BY DEF PageNumber, Given
  <2> QED BY <1>1, <1>3, <2>1, CountKeeps DEF FirstPage
<1>4. CASE NextPage
  <2>1. PageNumber(page + 1) = page + 1
    BY <1>1, <1>2
  <2>2. page <= page * list.limit /\ page * list.limit \in Nat /\ page * list.limit < total
    BY <1>1, <1>4, Products DEF NextPage
  <2> QED BY <1>1, <1>4, <2>1, <2>2, CountKeeps DEF NextPage
<1>5. CASE TypedPage
  <2>1. PICK p \in Far : p > page /\ Count(p) /\ stayed' = {}
    BY <1>5 DEF TypedPage
  <2>2. p \in 1..(Width \div 2 - 1) /\ PageNumber(p) = p
    BY <1>1, <1>2, SearchAssumption
  <2> QED BY <2>1, <2>2, CountKeeps
<1> QED BY <1>3, <1>4, <1>5

-----------------------------------------------------------------------------
LEMMA WrappedSmall ==
  ASSUME NEW n \in Nat, n < Width \div 2
  PROVE  Wrapped(n) = n
<1>1. PICK h \in Nat : h = Width \div 2 /\ 2 * h <= Width
  BY SearchAssumption
<1>2. (n + h) % Width = n + h
  BY <1>1, SearchAssumption
<1> QED BY <1>1, <1>2 DEF Wrapped

\* The rows ShowPage shows.
Items ==
  IF Offset >= 0 THEN Slice(row, Offset)
  ELSE IF list.database = "sqlite" THEN Slice(row, 0)
  ELSE {}

\* The second statement, when the offset is in range, shows the rows from the
\* edge on, and moves the edge behind them.
LEMMA PageShown ==
  ASSUME IInv, ShowPage, ~Overflows
  PROVE  /\ Edge \in Nat /\ Edge' = Edge + list.limit /\ Edge' = page * list.limit
         /\ \A s \in Rows : Position(row, s) \in Nat /\ Position(row, s)' = Position(row, s)
         /\ Items = {s \in Shown(row) : Edge <= Position(row, s) /\ Position(row, s) < Edge'}
<1>1. /\ stage = "counted" /\ stage' = "idle" /\ page' = page /\ list' = list /\ row' = row
      /\ page \in Nat \ {0} /\ TypeOK /\ Dated(row)
  BY DEF ShowPage, IInv, InFlight, TypeOK
<1>2. list.limit \in Nat \ {0}
  BY <1>1, SearchAssumption DEF TypeOK
<1>3. Edge = list.limit * (page - 1) /\ Edge' = list.limit * page
  BY <1>1 DEF Edge
<1>4. Edge \in Nat /\ Edge = (page - 1) * list.limit
      /\ Edge' = page * list.limit /\ Edge' = Edge + list.limit
  BY <1>1, <1>2, <1>3, Products
<1>5. Edge < Width \div 2
  BY <1>4, SearchAssumption DEF Overflows
<1>6. Offset = Edge
  BY <1>4, <1>5, WrappedSmall DEF Offset
<1>7. Items = Slice(row, Edge)
  BY <1>4, <1>6 DEF Items
<1>8. \A s \in Rows : Position(row, s) \in Nat /\ Position(row, s)' = Position(row, s)
  BY <1>1, PlacesNext, EdgeType, Positions
<1> QED BY <1>4, <1>7, <1>8 DEF Slice

LEMMA ShowRepeats ==
  ASSUME IInv, ShowPage
  PROVE  RepeatsCounted'
<1>1. /\ list' = list /\ page' = page /\ row' = row /\ doubles' = doubles
      /\ seen' = seen \cup Items /\ repeats' = repeats + Cardinality(Items \cap seen)
      /\ repeats \in Nat /\ doubles \in Nat /\ TypeOK /\ seen \in SUBSET Rows
  BY DEF ShowPage, Items, IInv, TypeOK
<1> SUFFICES ASSUME ~Overflows PROVE repeats' + Cardinality(Again') <= doubles'
  BY <1>1 DEF RepeatsCounted, Overflows
<1>2. /\ Edge \in Nat /\ Edge' \in Nat /\ Edge < Edge'
      /\ \A s \in Rows : Position(row, s) \in Nat /\ Position(row, s)' = Position(row, s)
      /\ Items = {s \in Shown(row) : Edge <= Position(row, s) /\ Position(row, s) < Edge'}
  <2>1. list.limit \in Nat \ {0}
    BY SearchAssumption DEF IInv, TypeOK
  <2> QED BY <2>1, PageShown
<1>3. \A s \in Rows :
        /\ Passed(row, s) <=> row[s].shown /\ Position(row, s) < Edge
        /\ Passed(row, s)' <=> row[s].shown /\ Position(row, s) < Edge'
  BY <1>1, <1>2, PassedIs DEF Passed, Edge
<1>4. Items \cap seen \subseteq Again
  BY <1>1, <1>2, <1>3 DEF Again, Shown
<1>5. Again' \subseteq Again \ (Items \cap seen)
  BY <1>1, <1>2, <1>3 DEF Again, Shown
<1>6. Again \in SUBSET Rows /\ IsFiniteSet(Again)
      /\ Cardinality(Again) \in Nat /\ Cardinality(Items \cap seen) \in Nat
      /\ Cardinality(Again') \in Nat
  <2>1. Again \in SUBSET Rows /\ Again' \in SUBSET Rows /\ Items \cap seen \in SUBSET Rows
    BY <1>1, <1>5, Finite
  <2> QED BY <1>1, <2>1, Finite
<1>7. Cardinality(Again \ (Items \cap seen)) = Cardinality(Again) - Cardinality(Items \cap seen)
  <2>1. Again \cap (Items \cap seen) = Items \cap seen
    BY <1>4
  <2>2. PICK shared : shared = Items \cap seen
    OBVIOUS
  <2>3. Cardinality(Again \ shared) = Cardinality(Again) - Cardinality(Again \cap shared)
    BY <1>6, FS_Difference
  <2> QED BY <2>1, <2>2, <2>3
<1>8. Cardinality(Again') <= Cardinality(Again \ (Items \cap seen))
  BY <1>5, <1>6, Fewer
<1>9. repeats + Cardinality(Again) <= doubles
  BY DEF IInv, RepeatsCounted
<1> QED BY <1>1, <1>6, <1>7, <1>8, <1>9

LEMMA ShowMisses ==
  ASSUME IInv, ShowPage
  PROVE  MissesCounted' /\ WalkComplete'
<1>1. /\ list' = list /\ page' = page /\ row' = row /\ losses' = losses /\ stage' = "idle"
      /\ seen' = seen \cup Items /\ stayed' = stayed /\ total' = total /\ stage = "counted"
      /\ losses \in Nat /\ total \in Nat /\ TypeOK /\ stayed \in SUBSET Rows
      /\ stayed \subseteq Shown(row) /\ page > 0 /\ page \in Nat
  BY DEF ShowPage, Items, IInv, TypeOK, Stays, InFlight
<1>2. CASE stayed = {}
  <2>1. Missed' = {} /\ stayed' \ seen' = {}
    BY <1>1, <1>2 DEF Missed
  <2>2. Cardinality({}) = 0
    BY FS_EmptySet
  <2>3. Cardinality(Missed') <= losses' /\ Cardinality(stayed' \ seen') <= losses'
    BY <1>1, <2>1, <2>2
  <2> QED BY <1>1, <2>3 DEF MissesCounted, WalkComplete
<1>3. CASE stayed # {}
  <2>1. ~Overflows
    <3>1. (page - 1) * list.limit <= Cardinality(Rows)
      BY <1>1, <1>3 DEF IInv, Near
    <3>2. list.limit \in Nat /\ Cardinality(Rows) \in Nat
      BY <1>1, SearchAssumption, FS_CardinalityType DEF TypeOK
    <3>3. Cardinality(Rows) < Width \div 2 /\ Width \div 2 \in Nat
      BY SearchAssumption
    <3>4. PICK n \in Int : n = (page - 1) * list.limit
      BY <1>1, <3>2
    <3> QED BY <3>1, <3>2, <3>3, <3>4 DEF Overflows
  <2>2. /\ Edge \in Nat /\ Edge' \in Nat /\ Edge < Edge' /\ Edge' = page * list.limit
        /\ \A s \in Rows : Position(row, s) \in Nat /\ Position(row, s)' = Position(row, s)
        /\ Items = {s \in Shown(row) : Edge <= Position(row, s) /\ Position(row, s) < Edge'}
    <3>1. list.limit \in Nat \ {0}
      BY SearchAssumption DEF IInv, TypeOK
    <3> QED BY <2>1, <3>1, PageShown
  <2>3. \A s \in Rows :
          /\ Passed(row, s) <=> row[s].shown /\ Position(row, s) < Edge
          /\ Passed(row, s)' <=> row[s].shown /\ Position(row, s) < Edge'
    BY <1>1, <2>2, PassedIs DEF Passed, Edge
  <2>4. Missed' \subseteq Missed
    BY <1>1, <2>2, <2>3 DEF Missed, Shown
  <2>5. Missed \in SUBSET Rows /\ Cardinality(Missed) \in Nat /\ Cardinality(Missed') \in Nat
        /\ Cardinality(Missed') <= Cardinality(Missed)
    BY <1>1, <2>4, Finite, Fewer
  <2>6. /\ Cardinality(Missed) <= losses
        /\ Cardinality(Missed) + Cardinality(Shown(row)) - total <= losses
    BY <1>1 DEF IInv, MissesCounted
  <2>7. MissesCounted'
    BY <1>1, <2>5, <2>6 DEF MissesCounted
  <2> DEFINE beyond == {s \in Shown(row) : Edge' <= Position(row, s)}
             n == Cardinality(Shown(row))
  <2>8. n \in Nat
    BY ShownFinite
  <2>9. stayed' \ seen' \subseteq Missed \cup beyond
    BY <1>1, <2>2, <2>3 DEF Missed, Shown
  <2>10. \A s \in beyond : Position(row, s) < n
    BY <1>1, EdgeType, Positions DEF IInv
  <2>11. /\ IsFiniteSet(beyond) /\ Cardinality(beyond) \in Nat
         /\ IF Edge' <= n THEN Cardinality(beyond) <= n - Edge' ELSE Cardinality(beyond) = 0
    <3>1. CASE Edge' <= n
      <4>1. list \in List /\ row \in [Rows -> Row] /\ Dated(row)
        BY <1>1, EdgeType DEF IInv
      <4>2. PICK e \in Int : e = Edge'
        BY <2>2
      <4>3. beyond \in SUBSET Shown(row) /\ \A s \in beyond : e <= Position(row, s)
        BY <4>2
      <4> HIDE DEF beyond, n
      <4>4. IsFiniteSet(beyond) /\ Cardinality(beyond) \in Nat /\ Cardinality(beyond) <= n - e
        BY <2>8, <2>10, <3>1, <4>1, <4>2, <4>3, Window
      <4> QED BY <3>1, <4>2, <4>4
    <3>2. CASE ~(Edge' <= n)
      <4>1. beyond = {}
        BY <1>1, <2>2, <2>8, <2>10, <3>2 DEF Shown
      <4> QED BY <3>2, <4>1, FS_EmptySet
    <3> QED BY <3>1, <3>2
  <2> HIDE DEF beyond
  <2>12. Cardinality(stayed' \ seen') <= Cardinality(Missed) + Cardinality(beyond)
    <3>1. /\ IsFiniteSet(Missed \cup beyond)
          /\ Cardinality(Missed \cup beyond)
               = Cardinality(Missed) + Cardinality(beyond) - Cardinality(Missed \cap beyond)
      BY <1>1, <2>5, <2>11, Finite, FS_Union
    <3>2. Cardinality(Missed \cap beyond) \in Nat
      BY <2>11, FS_Intersection, FS_CardinalityType
    <3>3. /\ Cardinality(stayed' \ seen') <= Cardinality(Missed \cup beyond)
          /\ Cardinality(stayed' \ seen') \in Nat
      BY <2>9, <3>1, FS_Subset, FS_CardinalityType
    <3> QED BY <2>5, <2>11, <3>1, <3>2, <3>3
  <2>13. ASSUME AtTheEnd' PROVE Cardinality(stayed' \ seen') <= losses'
    <3>1. Edge' >= total
      BY <1>1, <2>2, <2>13 DEF AtTheEnd
    <3>2. Cardinality(stayed' \ seen') \in Nat
      BY <1>1, Finite
    <3> QED BY <1>1, <2>2, <2>5, <2>6, <2>8, <2>11, <2>12, <3>1, <3>2
  <2> QED BY <2>7, <2>13 DEF WalkComplete
<1> QED BY <1>2, <1>3

LEMMA ShowKeeps ==
  ASSUME IInv, ShowPage
  PROVE  IInv'
<1>1. TypeOK'
  <2>1. Items \cap seen \in SUBSET Rows /\ Items \in SUBSET Rows
    BY DEF Items, Slice, Shown
  <2>2. Cardinality(Items \cap seen) \in Nat
    BY <2>1, Finite DEF IInv
  <2> QED BY <2>1, <2>2 DEF ShowPage, Items, IInv, TypeOK
<1>2. Dated(row)' /\ InFlight' /\ Stays' /\ Near'
  BY DEF ShowPage, IInv, Dated, InFlight, Stays, Near, Shown
<1> QED BY <1>1, <1>2, ShowRepeats, ShowMisses DEF IInv

-----------------------------------------------------------------------------
LEMMA InitKeeps == Init => IInv
<1> SUFFICES ASSUME Init PROVE IInv
  OBVIOUS
<1>1. PICK sort \in Sorts, database \in Databases, asked \in Asked :
        list = [sort |-> sort, database |-> database, limit |-> PerPage(asked)]
  BY DEF Init
<1>2. PerPage(asked) \in 1..MaxPerPage
  BY SearchAssumption DEF PerPage, Given
<1>3. row \in Tables /\ row \in [Rows -> Row] /\ Dated(row)
  BY SearchAssumption, TablesAssumption DEF Init
<1>4. /\ page = 0 /\ stage = "idle" /\ total = 0 /\ seen = {} /\ stayed = Shown(row)
      /\ repeats = 0 /\ losses = 0 /\ doubles = 0 /\ changes = 0
  BY DEF Init
<1>5. Shown(row) \in SUBSET Rows /\ Cardinality(Rows) \in Nat
  BY SearchAssumption, FS_CardinalityType DEF Shown
<1>6. TypeOK
  BY <1>1, <1>2, <1>3, <1>4, <1>5, SearchAssumption DEF TypeOK
<1>7. InFlight /\ Stays /\ Near /\ WalkComplete
  BY <1>4 DEF InFlight, Stays, Near, WalkComplete, AtTheEnd
<1>8. Edge = 0
  BY <1>1, <1>2, <1>4, SearchAssumption DEF Edge
<1>9. Missed = {} /\ Again = {}
  <2>1. \A s \in Rows : Position(row, s) \in Nat
    BY <1>3, <1>6, EdgeType, Positions
  <2> QED BY <1>4, <1>5, <1>8, <2>1, PassedIs DEF Missed, Again
<1>10. RepeatsCounted /\ MissesCounted
  BY <1>4, <1>9, FS_EmptySet DEF RepeatsCounted, MissesCounted
<1> QED BY <1>3, <1>6, <1>7, <1>10 DEF IInv

LEMMA NextKeeps == IInv /\ [Next]_vars => IInv'
<1> SUFFICES ASSUME IInv, [Next]_vars PROVE IInv'
  OBVIOUS
<1>1. CASE FirstPage \/ NextPage \/ TypedPage
  BY <1>1, RequestsKeep
<1>2. CASE ShowPage
  BY <1>2, ShowKeeps
<1>3. ASSUME NEW r \in Rows, Enter(r) \/ Leave(r) \/ Feature(r) \/ Reprice(r) PROVE IInv'
  <2>1. Changed(r)
    BY <1>3, ChangesCounted DEF IInv
  <2> QED BY <2>1, ChangeKeeps
<1>4. CASE UNCHANGED vars
  <2> USE <1>4 DEF vars
  <2>1. TypeOK' /\ Dated(row)' /\ InFlight' /\ Stays' /\ Near' /\ WalkComplete'
    BY DEF IInv, TypeOK, Dated, InFlight, Stays, Near, WalkComplete, AtTheEnd, Shown
  <2>2. \A s : Passed(row, s)' <=> Passed(row, s)
    BY PassedNext
  <2>3. Missed' = Missed /\ Again' = Again
    BY <2>2 DEF Missed, Again
  <2> QED BY <2>1, <2>3 DEF IInv, RepeatsCounted, MissesCounted, Overflows, Shown
<1> QED BY <1>1, <1>2, <1>3, <1>4 DEF Next

THEOREM Walks == Spec => []IInv
BY InitKeeps, NextKeeps, PTL DEF Spec

\* Page numbers, totals and counters stay in range, however far the visitor
\* goes and whatever changes.
THEOREM TypeCorrect == Spec => []TypeOK
<1>1. IInv => TypeOK
  BY DEF IInv
<1> QED BY <1>1, Walks, PTL

\* A walk to the last page misses no row but for the changes counted as losses.
THEOREM Complete == Spec => []WalkComplete
<1>1. IInv => WalkComplete
  BY DEF IInv
<1> QED BY <1>1, Walks, PTL

\* No row is shown twice but for the changes counted as doubles.
THEOREM Repeats == Spec => []NoRepeat
<1>1. IInv => NoRepeat
  <2> SUFFICES ASSUME IInv, ~Overflows PROVE repeats <= doubles
    BY DEF NoRepeat
  <2>1. repeats \in Nat /\ doubles \in Nat /\ Cardinality(Again) \in Nat
    BY Finite DEF IInv, TypeOK
  <2> QED BY <2>1 DEF IInv, RepeatsCounted
<1> QED BY <1>1, Walks, PTL

-----------------------------------------------------------------------------
LEMMA Division ==
  ASSUME NEW n \in Nat, NEW k \in Nat \ {0}
  PROVE  /\ n \div k \in Nat
         /\ (n \div k) * k <= n /\ n < (n \div k) * k + k
OBVIOUS

LEMMA Apart ==
  ASSUME NEW m \in Nat, NEW n \in Nat, NEW k \in Nat \ {0}, m < n
  PROVE  m * k \in Nat /\ n * k \in Nat /\ m * k + k <= n * k
OBVIOUS

\* While the table stands still, the pages are a partition of the list: every
\* row on it is on one page and no other, and no page is longer than its size
\* (the offset of dto/common.rs:28, in range, with the LIMIT of the list).
THEOREM Partition ==
  ASSUME list \in List, NEW t \in [Rows -> Row], Dated(t)
  PROVE  /\ \A r \in Shown(t) : \E n \in Nat : r \in Slice(t, n * list.limit)
         /\ \A m, n \in Nat : m # n =>
              Slice(t, m * list.limit) \cap Slice(t, n * list.limit) = {}
         /\ \A n \in Nat : Cardinality(Slice(t, n * list.limit)) <= list.limit
<1>1. PICK k \in Nat \ {0} : k = list.limit
  BY SearchAssumption DEF List
<1>2. \A r \in Rows : Position(t, r) \in Nat
  BY Positions
<1>3. ASSUME NEW r \in Shown(t) PROVE \E n \in Nat : r \in Slice(t, n * k)
  <2>1. PICK p \in Nat : p = Position(t, r)
    BY <1>2 DEF Shown
  <2>2. p \div k \in Nat /\ (p \div k) * k <= p /\ p < (p \div k) * k + k
    BY Division
  <2>3. r \in Slice(t, (p \div k) * k)
    BY <1>1, <2>1, <2>2 DEF Slice
  <2> QED BY <2>2, <2>3
<1>4. ASSUME NEW m \in Nat, NEW n \in Nat, m < n
      PROVE  Slice(t, m * k) \cap Slice(t, n * k) = {}
  <2>1. m * k \in Nat /\ n * k \in Nat /\ m * k + k <= n * k
    BY <1>4, Apart
  <2> QED BY <1>1, <1>2, <2>1 DEF Slice, Shown
<1>5. ASSUME NEW n \in Nat PROVE Cardinality(Slice(t, n * k)) <= k
  <2>1. PICK low \in Int : low = n * k
    OBVIOUS
  <2>2. /\ Slice(t, low) \in SUBSET Shown(t)
        /\ \A r \in Slice(t, low) : low <= Position(t, r) /\ Position(t, r) < low + k
    BY <1>1 DEF Slice
  <2>3. Cardinality(Slice(t, low)) <= (low + k) - low
    BY <2>2, Window
  <2> QED BY <2>1, <2>3
<1>6. \A m, n \in Nat : m # n => Slice(t, m * k) \cap Slice(t, n * k) = {}
  <2> SUFFICES ASSUME NEW m \in Nat, NEW n \in Nat, m # n
               PROVE  Slice(t, m * k) \cap Slice(t, n * k) = {}
    OBVIOUS
  <2>1. m < n \/ n < m
    OBVIOUS
  <2>2. CASE m < n
    BY <1>4, <2>2
  <2>3. CASE n < m
    <3>1. Slice(t, n * k) \cap Slice(t, m * k) = {}
      BY <1>4, <2>3
    <3> QED BY <3>1
  <2> QED BY <2>1, <2>2, <2>3
<1> QED BY <1>1, <1>3, <1>5, <1>6
=============================================================================
