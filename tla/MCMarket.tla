---------- MODULE MCMarket ----------
(* The market: candles, depth and its evidence, segment sets, orders and results.
   They share no state here: a behaviour is one of the component that focus
   names, and the others stay in one initial state. *)
EXTENDS CandleCache, DepthIngestor, MarketSegments, DepthEvidence, OrderBook, Portfolio, TLC

CONSTANTS MaxId, o1, o2, o3

MCQueries == {[from |-> None, to |-> None, limit |-> 2], [from |-> 0, to |-> 3, limit |-> 3],
              [from |-> 1, to |-> None, limit |-> 2], [from |-> None, to |-> 1, limit |-> 2]}

\* Every event of one or two updates among the first MaxId, with or without the
\* id of a previous event.
MCEvents ==
    {e \in [first : 1 .. MaxId, final : 1 .. MaxId, previous : {NoId} \cup 0 .. MaxId] :
        /\ e.final \in {e.first, e.first + 1}
        /\ e.previous # NoId => e.previous \in {e.first - 1, e.first - 2}}
MCSnapshotIds == {2}

\* Sizes that leave a remainder and identifiers that are used twice.  An order
\* that never rests has the identifier o3, and a market order any one price:
\* neither makes a difference.
MCOrderIds == {o1, o2, o3}
MCTicks == {1, 2, 3}
Call(id, side, price, size, type) ==
    [id |-> id, side |-> side, price |-> price, size |-> size, type |-> type]
MCCalls ==
    {Call(id, side, price, size, type) :
        id \in {o1, o2}, side \in Sides, price \in MCTicks, size \in {1, 2}, type \in {"LIMIT", "POST_ONLY"}}
    \cup {Call(o3, side, price, size, type) :
        side \in Sides, price \in {1, 2}, size \in {1, 2, 3}, type \in {"IOC", "FOK"}}
    \cup {Call(o3, side, 1, size, "MARKET") : side \in Sides, size \in {1, 3}}

\* A declared value in dollars, a base quantity, a simulation and deals whose
\* unit only a provider's listing verifies.
MCSymbols == {"s1", "s2"}
MCListed  == {"s2"}
Draft(id, symbol, side, unit, mode) ==
    [id |-> id, symbol |-> symbol, side |-> side, unit |-> unit, mode |-> mode]
MCDrafts == {Draft(1, "s1", "BUY", "USD", "REAL"), Draft(2, "s2", "SELL", "UNKNOWN", "REAL"),
             Draft(2, "s1", "BUY", "BASE", "SIMULATION"), Draft(3, "s2", "BUY", "UNKNOWN", "REAL")}

MCSymmetry == Permutations(Commands)

VARIABLE focus   \* the component that moves

MCVars == <<focus, candleVars, vars, segmentVars, rootVars, bookVars, portfolioVars>>

MCInit ==
    /\ focus \in {"candles", "ingestor", "segments", "depth", "book", "portfolio"}
    /\ CandleInit /\ Init /\ SegmentsInit /\ EvidenceInit /\ BookInit /\ PortfolioInit
    /\ focus # "candles" => crypto

MCNext ==
    /\ UNCHANGED focus
    /\ \/ focus = "candles" /\ CandleNext /\ UNCHANGED <<vars, segmentVars, rootVars, bookVars, portfolioVars>>
       \/ focus = "ingestor" /\ Next /\ UNCHANGED <<candleVars, segmentVars, rootVars, bookVars, portfolioVars>>
       \/ focus = "segments" /\ SegmentsNext /\ UNCHANGED <<candleVars, vars, rootVars, bookVars, portfolioVars>>
       \/ focus = "depth" /\ EvidenceNext /\ UNCHANGED <<candleVars, vars, segmentVars, bookVars, portfolioVars>>
       \/ focus = "book" /\ BookNext /\ UNCHANGED <<candleVars, vars, segmentVars, rootVars, portfolioVars>>
       \/ focus = "portfolio" /\ PortfolioNext /\ UNCHANGED <<candleVars, vars, segmentVars, rootVars, bookVars>>

MCSpec == MCInit /\ [][MCNext]_MCVars
============================================================
