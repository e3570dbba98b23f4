--------------------------- MODULE MCLocalTracking ---------------------------
(* LocalTracking on small instances. *)
EXTENDS LocalTracking, TLC

CONSTANTS t1, t2, c1, c2

OneTrade  == <<t1>>
TwoTrades == <<t1, t2>>

Target(price, percent) == [price |-> price, percent |-> percent]
Plan(targets, stop)    == [targets |-> targets, stop |-> stop, enabled |-> TRUE]

Halves  == Plan(<<Target(1, 50), Target(2, 50)>>, -1)
OnePlan == {Halves}

\* The stop, the first target and the second.
ThreePrices == {-1, 1, 2}

\* A run is taken twice: with few events of clients but all their requests and
\* prices, and with one event more, after which a plan may be stuck, but without
\* closes by hand, units withdrawn and quotes that reach the second target.
VARIABLE long

MCVars == <<vars, long>>

\* The journal has one edit left for the first trade, none for the second: the first
\* may become stuck, the second then waits behind it.
MCInit ==
    /\ Init /\ long \in BOOLEAN
    /\ \A i \in DOMAIN Trades : trade[Trades[i]].rev = (IF i = 1 THEN 1 ELSE MaxRevision)
    /\ long => \A t \in TradeSet : trade[t].qty = 4

MayAsk(r)   == IF long THEN r.kind # "manual" ELSE Len(history[r.trade]) < MaxEvents - 1
SameUnits   == \A t \in TradeSet : trade'[t].unit = trade[t].unit
MayQuote(q) == long /\ q # NoQuote => q.price # 2

MCNext ==
    /\ Next /\ UNCHANGED long
    /\ MayQuote(quote') /\ (long => SameUnits)
    /\ \A c \in Clients : client'[c] # client[c] /\ client'[c] # Idle => MayAsk(client'[c])

MCSpec == MCInit /\ [][MCNext]_MCVars /\ WF_vars(Poll)

\* Without fairness and with every edit left.
StuckSpec == Init /\ long = TRUE /\ [][Next /\ UNCHANGED long]_MCVars
=============================================================================
