---------------------------- MODULE MCEmailQueue ----------------------------
\* Small instances of EmailQueue: two workers and a few mails.
EXTENDS EmailQueue, TLC
CONSTANTS m1, m2, m3, w1, w2
Twins == {f @@ g : f \in Permutations(Mails), g \in Permutations(Workers)}
=============================================================================
