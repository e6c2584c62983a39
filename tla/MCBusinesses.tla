---------------------------- MODULE MCBusinesses ----------------------------
\* Small instances of Businesses: one owner, one administrator.
EXTENDS Businesses, TLC
CONSTANTS alice, root, b1, b2, n1, n2, r1, r2

\* Ids, NIPTs and request slots are interchangeable.
Twins == {f @@ g @@ h : f \in Permutations({r1, r2}), g \in Permutations({b1, b2}),
                        h \in Permutations({n1, n2})}
=============================================================================
