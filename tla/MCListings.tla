----------------------------- MODULE MCListings -----------------------------
\* Small instances of Listings: one business, one job.
EXTENDS Listings
CONSTANTS alice, b1, j1, r1, r2

OwnedByAlice == [b \in Bids |-> alice]

Plain == [salary_min |-> None, salary_max |-> None, salary_period |-> FALSE,
          expires_at |-> None]

\* No salary; with and without a date.
DatedForms == {Plain, [Plain EXCEPT !.expires_at = 1]}

\* Bodies with part of the salary fields, one of them with a date: two of them,
\* each valid, can make an invalid row together.
MixedForms ==
  {[Plain EXCEPT !.expires_at = 1, !.salary_min = 2, !.salary_period = TRUE],
   [Plain EXCEPT !.salary_max = 1, !.salary_period = TRUE]}
=============================================================================
