------------------------------ MODULE MCSearch ------------------------------
\* Small instances of Search.
EXTENDS Search

\* Row r, if it has a date, was dated r; one row at most is not on the list, one
\* at most is featured, never row 2, and row 1 has a salary: two of the others, or
\* one of them and row 1, can tie.
SmallTables ==
  {t \in [Rows -> [shown : BOOLEAN, date : 0..Cardinality(Rows), featured : BOOLEAN,
                   amount : Amounts \cup {None}]] :
     /\ \A r \in Rows : t[r].date \in {0, r} /\ (t[r].date = 0 => ~t[r].shown)
     /\ Cardinality({r \in Rows : ~t[r].shown}) <= 1
     /\ Cardinality({r \in Rows : t[r].featured}) <= 1
     /\ ~t[2].featured /\ t[1].amount # None}
=============================================================================
