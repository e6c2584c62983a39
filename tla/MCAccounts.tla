----------------------------- MODULE MCAccounts -----------------------------
\* Small instances of Accounts; each has the symmetry of the constants it uses.
EXTENDS Accounts, TLC
CONSTANTS u1, u2, s1, s2, s3, t1, t2, r1, r2, old, new

AccountsSymmetric ==
  {u @@ t @@ r : u \in Permutations({u1, u2}), t \in Permutations({t1, t2}),
                 r \in Permutations({r1, r2})}

SessionsSymmetric ==
  {s @@ r @@ p : s \in Permutations({s1, s2, s3}), r \in Permutations({r1, r2}),
                 p \in Permutations({old, new})}
=============================================================================
