------------------------------- MODULE Portfolio -------------------------------
(***************************************************************************)
(* What the portfolio pages show of the journal (portfolio_service.py), the *)
(* two other places that add the same results up (duckdb_driver.py and      *)
(* quant_engine.py), and the unit basis that decides whether a deal has a   *)
(* result in money at all (position_math.py, instrument_catalog.py).  Every *)
(* page lists the journal and folds over it on its own.                     *)
(***************************************************************************)
EXTENDS Integers, Sequences, FiniteSets, SequencesExt, FiniteSetsExt, Functions, TLC

CONSTANTS
    Symbols,    \* symbols of the journal
    Listed,     \* symbols a provider lists as a spot instrument
    Drafts,     \* deals that may be recorded: [id, symbol, side, unit, mode]
    Entry,      \* entry price of every deal
    Qty,        \* quantity of every deal
    ExitPrices,     \* prices of exits and quotes
    Days,       \* days on which deals are closed
    Balances,   \* starting capitals
    Unknown     \* a result in money that is not known

DealIds == {d.id : d \in Drafts}

ASSUME PortfolioAssumption ==
    /\ Entry \in Nat \ {0} /\ Qty \in Nat \ {0} /\ ExitPrices \subseteq Nat /\ Days \subseteq Nat
    /\ Unknown \notin Int /\ Balances \subseteq Nat /\ 0 \in Balances /\ DealIds \subseteq Nat
    /\ \A d \in Drafts : d.symbol \in Symbols
    /\ \A p \in ExitPrices : ((p - Entry) * Qty) % Entry = 0

VARIABLES
    deals,      \* the journal: numbered in the order of their entry times
    quotes,     \* the quotes this process has obtained
    catalog,    \* verified_instruments: the age of what a provider confirmed
    capital     \* user_initial_balance

portfolioVars == <<deals, quotes, catalog, capital>>

NoDeal   == [status |-> "NONE"]
NoQuoted == -1

-----------------------------------------------------------------------------
(* The unit basis and the result of a deal *)

\* is_verified: a row counts for seven days.
IsVerified(symbol) == catalog[symbol] \in {"fresh", "due"}

\* instrument_unit_basis
UnitBasis(d) ==
    CASE d.unit = "USD" -> "USD_NOTIONAL"
      [] d.unit = "BASE" -> "BASE_UNIT"
      [] OTHER -> IF IsVerified(d.symbol) THEN "BASE_UNIT" ELSE "UNVERIFIED"

MoneyReady(d) == UnitBasis(d) \in {"BASE_UNIT", "USD_NOTIONAL"}

Direction(d) == IF d.side \in {"BUY", "LONG"} THEN 1 ELSE -1

Moved(d, price, notional) ==
    Direction(d) * (price - Entry) * (IF notional THEN Qty \div Entry ELSE Qty)

\* close_trade: the result that is stored with the close.
ClosedResult(d, price) ==
    IF ~ MoneyReady(d) THEN Unknown ELSE Moved(d, price, UnitBasis(d) = "USD_NOTIONAL")

\* create_trade: the result of a deal that is recorded with its exit.
RecordedResult(d, price) ==
    IF ~ MoneyReady(d) THEN Unknown
    ELSE IF UnitBasis(d) = "USD_NOTIONAL" THEN Moved(d, price, TRUE) ELSE Moved(d, price, FALSE)

\* position_summary: the gross result that is computed whenever a deal is shown.
ShownResult(d) ==
    IF ~ MoneyReady(d) \/ d.price = NoQuoted THEN Unknown
    ELSE Moved(d, d.price, UnitBasis(d) = "USD_NOTIONAL")

-----------------------------------------------------------------------------
(* The lists the pages fold over *)

\* Faulty variant: the simulation filter is forgotten where it is shared.
FaultyRealTrades(ids) == ids

\* real_trades_only
RealTrades(ids) == {i \in ids : deals[i].mode # "SIMULATION"}

Shelved == {i \in DealIds : deals[i] # NoDeal}
WithStatus(ids, status) == {i \in ids : deals[i].status = status}
Measured(ids) == {i \in ids : deals[i].pnl # Unknown}
SumOfResults(ids) == MapThenSumSet(LAMBDA i : deals[i].pnl, Measured(ids))

\* Faulty variant: the deals are taken as the journal lists them.
FaultyByExit(ids) == SetToSortSeq(ids, LAMBDA i, j : i > j)

\* The listing is by entry time, the latest first, and the sort by exit is stable.
ByExit(ids) ==
    SetToSortSeq(ids, LAMBDA i, j :
        deals[i].exit < deals[j].exit \/ (deals[i].exit = deals[j].exit /\ i > j))

\* _calculate_max_drawdown: one pass that keeps the highest equity so far.
Worst(equity, ids) ==
    FoldLeft(LAMBDA acc, i :
                 LET running == acc.running + deals[i].pnl
                 IN  IF running > acc.peak
                     THEN [acc EXCEPT !.running = running, !.peak = running]
                     ELSE [acc EXCEPT !.running = running,
                               !.worst = IF acc.peak - running > @ THEN acc.peak - running ELSE @],
             [running |-> equity, peak |-> equity, worst |-> 0],
             ByExit(Measured(ids))).worst

-----------------------------------------------------------------------------
(* The pages *)

\* get_portfolio_summary has a simulation filter of its own.
SummaryDeals == {i \in Shelved : deals[i].mode # "SIMULATION"}
SummaryClosed == WithStatus(SummaryDeals, "CLOSED")
SummaryOpen   == WithStatus(SummaryDeals, "OPEN")

\* Faulty variant: an open deal without a quote is valued at its entry price.
FaultyPriced(i) == MoneyReady(deals[i])

\* An open deal is marked when its unit is verified and its quote was fetched.
Priced(i) == MoneyReady(deals[i]) /\ quotes[deals[i].symbol] # NoQuoted

Mark(i) == Moved(deals[i], IF quotes[deals[i].symbol] = NoQuoted THEN Entry ELSE quotes[deals[i].symbol],
                 UnitBasis(deals[i]) = "USD_NOTIONAL")

LiveBasis ==
    LET covered == {i \in SummaryOpen : Priced(i)}
    IN  CASE covered = SummaryOpen -> "COMPLETE"
          [] covered = {} /\ SummaryOpen # {} -> "NOT_AVAILABLE"
          [] OTHER -> "PARTIAL"

LiveEquity ==
    IF LiveBasis = "NOT_AVAILABLE" THEN Unknown
    ELSE capital + SumOfResults(SummaryClosed)
         + MapThenSumSet(Mark, {i \in SummaryOpen : Priced(i)})

\* An open deal whose unit is not verified has no risk and no exposure in money.
AtRisk == {i \in SummaryOpen : MoneyReady(deals[i])}

ExposureBasis ==
    CASE AtRisk = SummaryOpen -> "COMPLETE"
      [] AtRisk = {} /\ SummaryOpen # {} -> "NOT_AVAILABLE"
      [] OTHER -> "PARTIAL"

Notional == MapThenSumSet(LAMBDA i : IF UnitBasis(deals[i]) = "USD_NOTIONAL" THEN Qty ELSE Entry * Qty, AtRisk)

\* What was won and what was lost, of the results that are known.
Gross(won) ==
    MapThenSumSet(LAMBDA i : deals[i].pnl,
                  {i \in Measured(SummaryClosed) : IF won THEN deals[i].pnl > 0 ELSE deals[i].pnl < 0})

RealizedBasis ==
    CASE SummaryClosed = {} -> "NO_DATA"
      [] Measured(SummaryClosed) = {} -> "NOT_AVAILABLE"
      [] Measured(SummaryClosed) # SummaryClosed -> "PARTIAL"
      [] OTHER -> "COMPLETE"

\* Simulated results are counted apart.
SimulatedPnl == SumOfResults(WithStatus(Shelved \ SummaryDeals, "CLOSED"))

Summary ==
    [net      |-> SumOfResults(SummaryClosed),
     equity   |-> capital + SumOfResults(SummaryClosed),
     live     |-> LiveEquity,
     basis    |-> LiveBasis,
     realized |-> RealizedBasis,
     exposure |-> [basis |-> ExposureBasis, notional |-> Notional],
     gross    |-> Gross(TRUE) + Gross(FALSE),
     practice |-> SimulatedPnl,
     open     |-> Cardinality(SummaryOpen),
     closed   |-> Cardinality(SummaryClosed),
     unknown  |-> Cardinality(SummaryClosed \ Measured(SummaryClosed)),
     drawdown |-> Worst(capital, SummaryClosed)]

\* get_multi_asset_breakdown: a group for every symbol with an open or closed deal.
Breakdown ==
    LET kept   == WithStatus(RealTrades(Shelved), "OPEN") \cup WithStatus(RealTrades(Shelved), "CLOSED")
        Of(s)  == {i \in kept : deals[i].symbol = s}
        Done(s) == WithStatus(Of(s), "CLOSED")
    IN  [s \in {deals[i].symbol : i \in kept} |->
            [net |-> SumOfResults(Done(s)), closed |-> Cardinality(Done(s)),
             unknown |-> Cardinality(Done(s) \ Measured(Done(s))),
             open |-> Cardinality(WithStatus(Of(s), "OPEN"))]]

\* get_equity_curve_series: the starting capital and a point for every known result.
EquityCurve ==
    LET order == ByExit(Measured(WithStatus(RealTrades(Shelved), "CLOSED")))
        gained == FoldLeft(LAMBDA sums, i : Append(sums, Last(sums) + deals[i].pnl), <<0>>, order)
    IN  [n \in DOMAIN gained |-> capital + gained[n]]

\* get_daily_pnl_heatmap
Heatmap ==
    LET known == Measured(WithStatus(RealTrades(Shelved), "CLOSED"))
    IN  [day \in {deals[i].exit : i \in known} |-> SumOfResults({i \in known : deals[i].exit = day})]

\* get_performance_summary and get_symbol_breakdown of the analytics replica.
OlapClosed == {i \in WithStatus(Shelved, "CLOSED") : deals[i].mode # "SIMULATION"}
OlapBySymbol ==
    [s \in {deals[i].symbol : i \in OlapClosed} |->
        SumOfResults({i \in OlapClosed : deals[i].symbol = s})]

\* /analytics/quant: the same results as they are listed, from the capital on.
ScorecardDrawdown ==
    LET order  == SetToSortSeq(Measured(OlapClosed), LAMBDA i, j : i > j)
        equity == FoldLeft(LAMBDA sums, i :
                              Append(sums, (IF sums = <<>> THEN capital ELSE Last(sums)) + deals[i].pnl),
                           <<>>, order)
    IN  Max({0} \cup UNION {{equity[m] - equity[n] : n \in m..Len(equity)} : m \in DOMAIN equity})

-----------------------------------------------------------------------------
(* What changes the journal, the quotes, the catalog and the capital *)

RecordOpen(d) ==
    /\ deals[d.id] = NoDeal
    /\ deals' = [deals EXCEPT ![d.id] =
                    d @@ [status |-> "OPEN", exit |-> 0, price |-> NoQuoted, pnl |-> 0]]
    /\ UNCHANGED <<quotes, catalog, capital>>

\* create_trade with a status of CLOSED.
RecordClosed(d, day, price) ==
    /\ deals[d.id] = NoDeal /\ day >= d.id
    /\ deals' = [deals EXCEPT ![d.id] =
                    d @@ [status |-> "CLOSED", exit |-> day, price |-> price,
                          pnl |-> RecordedResult(d, price)]]
    /\ UNCHANGED <<quotes, catalog, capital>>

CloseDeal(i, day, price) ==
    /\ deals[i].status = "OPEN" /\ day >= i
    /\ deals' = [deals EXCEPT ![i].status = "CLOSED", ![i].exit = day, ![i].price = price,
                              ![i].pnl = ClosedResult(deals[i], price)]
    /\ UNCHANGED <<quotes, catalog, capital>>

\* A cancelled deal stays in the journal as a tombstone.
CancelDeal(i) ==
    /\ deals[i].status = "OPEN"
    /\ deals' = [deals EXCEPT ![i].status = "CANCELED"]
    /\ UNCHANGED <<quotes, catalog, capital>>

FetchQuote(s, price) ==
    /\ quotes' = [quotes EXCEPT ![s] = price]
    /\ UNCHANGED <<deals, catalog, capital>>

\* ensure_verified: a row of the last day is taken, otherwise a provider is asked.
Describe(s) ==
    /\ catalog[s] # "fresh" /\ s \in Listed
    /\ catalog' = [catalog EXCEPT ![s] = "fresh"]
    /\ UNCHANGED <<deals, quotes, capital>>

\* A day, and then a week, has passed since the row was written.
AgeRow(s) ==
    /\ catalog[s] \in {"fresh", "due"}
    /\ catalog' = [catalog EXCEPT ![s] = IF @ = "fresh" THEN "due" ELSE "expired"]
    /\ UNCHANGED <<deals, quotes, capital>>

SetInitialBalance(value) ==
    /\ capital' = value
    /\ UNCHANGED <<deals, quotes, catalog>>

\* The quotes are in memory only.
ForgetQuotes ==
    /\ quotes' = [s \in Symbols |-> NoQuoted]
    /\ UNCHANGED <<deals, catalog, capital>>

-----------------------------------------------------------------------------
PortfolioInit ==
    /\ deals = [i \in DealIds |-> NoDeal]
    /\ quotes = [s \in Symbols |-> NoQuoted]
    /\ catalog = [s \in Symbols |-> "none"]
    /\ capital = 0

PortfolioNext ==
    \/ \E d \in Drafts : RecordOpen(d)
    \/ \E d \in Drafts, day \in Days, price \in ExitPrices : RecordClosed(d, day, price)
    \/ \E i \in DealIds, day \in Days, price \in ExitPrices : CloseDeal(i, day, price)
    \/ \E i \in DealIds : CancelDeal(i)
    \/ \E s \in Symbols, price \in ExitPrices : FetchQuote(s, price)
    \/ \E s \in Symbols : Describe(s) \/ AgeRow(s)
    \/ \E value \in Balances : SetInitialBalance(value)
    \/ ForgetQuotes

PortfolioSpec == PortfolioInit /\ [][PortfolioNext]_portfolioVars

-----------------------------------------------------------------------------
(* Properties *)

SumOf(f) == SumFunction(f)

\* Every page that adds the journal up adds the same deals up: the net result,
\* its share of each symbol and of each day, the end of the equity curve and
\* the analytics replica agree, and so do the numbers of deals behind them.
ViewsAgree ==
    LET total == Summary
        by    == Breakdown
        olap  == OlapBySymbol
    IN  /\ total.net = SumOf([s \in DOMAIN by |-> by[s].net])
        /\ total.net = SumOf(Heatmap)
        /\ total.equity = Last(EquityCurve)
        /\ total.net = SumOf(olap)
        /\ total.net = total.gross
        /\ total.net + total.practice = SumOfResults(WithStatus(Shelved, "CLOSED"))
        /\ \A s \in DOMAIN olap : by[s].net = olap[s]
        /\ \A state \in {"open", "closed", "unknown"} :
              total[state] = SumOf([s \in DOMAIN by |-> by[s][state]])

\* The drawdown of the summary is the deepest fall of the equity curve from any
\* point of it to a later one, deals closed in whatever order they were opened.
DrawdownIsWorst ==
    LET equities(n) == capital + MapThenSumSet(LAMBDA i : deals[i].pnl, n)
        known == Measured(SummaryClosed)
        UpTo(i) == {j \in known : \/ deals[j].exit < deals[i].exit
                                  \/ deals[j].exit = deals[i].exit /\ j >= i}
        prefixes == {{}} \cup {UpTo(i) : i \in known}
    IN  Summary.drawdown =
            Max(UNION {{equities(n) - equities(m) : m \in {p \in prefixes : n \subseteq p}}
                           : n \in prefixes})

\* One deal has one result: the live equity that is called complete is the
\* equity after every open deal was closed at its quote, and a deal is shown
\* with the result that was stored with it or with none.
OneResult ==
    LET total == Summary IN
    /\ total.basis = "COMPLETE" =>
           /\ total.exposure.basis = "COMPLETE"
           /\ \A i \in SummaryOpen : quotes[deals[i].symbol] # NoQuoted
           /\ total.live = total.equity
                + MapThenSumSet(LAMBDA i : ClosedResult(deals[i], quotes[deals[i].symbol]), SummaryOpen)
    /\ \A i \in Measured(WithStatus(Shelved, "CLOSED")) :
           ShownResult(deals[i]) \in {Unknown, deals[i].pnl}

\* What portfolio_service.py says of its figures and those of the scorecard,
\* that they agree, said of the drawdown.
ScorecardAgrees == capital > 0 => ScorecardDrawdown = Summary.drawdown

\* Every view of the journal tells the same result of the same deals.
PortfolioSound == ViewsAgree /\ DrawdownIsWorst /\ OneResult
=============================================================================
