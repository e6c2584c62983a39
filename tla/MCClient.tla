------------------------------ MODULE MCClient ------------------------------
(* Two tabs for TLC.  Tabs, requests, logins and pairs are interchangeable.  *)
EXTENDS Client, TLC

Symmetry == Permutations(Tabs) \cup Permutations(Slots) \cup Permutations(Families)
              \cup Permutations(Rids)
=============================================================================
