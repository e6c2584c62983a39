--------------------------- MODULE MCApplications ---------------------------
\* Small instances of Applications: one job of alice's, one listing request,
\* two calls.
EXTENDS Applications, TLC
CONSTANTS alice, bob, b1, j1, r1, a1, a2, c1, c2

OwnedByAlice == [b \in Bids |-> alice]

Plain == [salary_min |-> None, salary_max |-> None, salary_period |-> FALSE,
          expires_at |-> None]
Bodies == {Plain}

Symmetric == Permutations({c1, c2}) \cup Permutations({a1, a2})
=============================================================================
