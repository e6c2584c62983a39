----------------------------- MODULE MCPlatform -----------------------------
\* A small instance of Platform: one job, one request, one mail.
EXTENDS Platform
CONSTANTS alice, b1, j1, r1, m1, w1

OwnedByAlice == [b \in Bids |-> alice]

Plain == [salary_min |-> None, salary_max |-> None, salary_period |-> FALSE,
          expires_at |-> None]
PlainForms == {Plain}
=============================================================================
