----------------------------- MODULE MCTradeJournal -----------------------------
(* Two request threads on one trade, or one thread on two trades. *)
EXTENDS TradeJournal, TLC

CONSTANTS th1, th2, t1, t2, s1, s2

MCSymmetry == Permutations(Threads) \cup Permutations(Sizes)
=============================================================================
