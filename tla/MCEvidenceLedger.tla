--------------------------- MODULE MCEvidenceLedger ---------------------------
(* Two writers, two chains in which three identities compete for three ids. *)
EXTENDS EvidenceLedger, TLC

CONSTANTS w1, w2, e1, e2, e3, acc, k1, k2, k3, d1, d2, c1, c2

MCSymmetry == Permutations(Writers) \cup Permutations(EventIds) \cup Permutations(Keys)
                 \cup Permutations(Dates) \cup Permutations(Contents)
=============================================================================
