---------- MODULE MCDesk ----------
(* The desk: files and alerts, broker snapshots, economic evidence, statements,
   policies and playbooks, replays, exports, the upgrade.
   They share no state here: a behaviour is one of the component that focus
   names, and the others stay in one initial state. *)
EXTENDS Imports, Reconciliation, Propagation, AccountEvents, Records, TradeReview, JournalExports, SchemaUpgrade, TLC

\* A generic file of an open and a completed trade, one row of which differs from
\* the first only in size, files of the other formats, and a bad one.
MCRow == [time |-> 1, entry |-> 1, exit |-> 0, qty |-> 1, pnl |-> 0, fee |-> 0,
          ended |-> FALSE, status |-> None, malformed |-> FALSE]
MCDone == [MCRow EXCEPT !.time = 2, !.exit = 1, !.pnl = 1, !.ended = TRUE]
MCFiles ==
    {[format |-> "GENERIC_KUANTRA", rows |-> <<MCRow, [MCRow EXCEPT !.qty = 2], MCDone>>],
     [format |-> "BINANCE", rows |-> <<MCDone, MCRow>>],
     [format |-> "BYBIT", rows |-> <<MCDone, [MCDone EXCEPT !.exit = 0]>>],
     [format |-> "METATRADER", rows |-> <<[MCDone EXCEPT !.time = 3], [MCRow EXCEPT !.pnl = None]>>]}

MCBounds == {<<1, 2>>}

\* An order of two fills from the API, one fill again from a CSV file with an
\* earlier row of the order that names no quantity, two
\* corrections of the price of the first, one of its quantity with the row of
\* the order that goes with it, a fill of an order nobody has seen, and rows that
\* dispute a price, repeat a place, correct nothing or are
\* rejected for want of a price.
Obs(id, kind, key, order, qty, price, at, effective, status) ==
    [id |-> id, place |-> id, kind |-> kind, key |-> key, order |-> order, qty |-> qty,
     price |-> price, at |-> at, effective |-> effective, status |-> status]
Order(id, qty, at)            == Obs(id, "ORDER", 0, "o1", qty, 0, at, 0, "FILLED")
Fill(id, key, price)          == Obs(id, "FILL", key, "o1", 1, price, 1, 0, "FILLED")
Fix(id, key, qty, price, eff) == Obs(id, "CORRECTION", key, "-", qty, price, 1, eff, "CORRECTION")
MCDocuments ==
    { {Order(1, 1, 1), Fill(2, 1, 1)},
      {Fill(3, 1, 1), Order(13, Unstated, 0)},
      {Fix(4, 1, 0, 3, 3)},
      {Fix(5, 1, 0, 2, 2)},
      {Fix(6, 1, 2, 0, 2), Order(7, 2, 2)},
      {[Fill(8, 2, 1) EXCEPT !.order = "o2"], Fill(12, 1, 0)},
      {Fill(9, 1, 2), Fix(10, 1, 0, 0, 2), [Fill(11, 1, 1) EXCEPT !.place = 2]} }
MCStatements == {[opening |-> "all",  claimed |-> TRUE,  kinds |-> {"TRADE_FEE"}],
                 [opening |-> "all",  claimed |-> TRUE,  kinds |-> {"TRANSFER"}],
                 [opening |-> "some", claimed |-> TRUE,  kinds |-> {"REBATE"}]}

\* Statements that repeat a fee, correct an event of another one, correct twice,
\* and hold a row whose currency is unknown.
StatementRow(kind, id) == [kind |-> kind, id |-> id, currency |-> id # "r", corrects |-> 0, effective |-> FALSE]
Correction(n)   == [StatementRow("MANUAL_CORRECTION", "c") EXCEPT !.corrects = n, !.effective = n # 3]
MCLines == [d1 |-> <<StatementRow("TRADE_FEE", "f"), StatementRow("TRADE_FEE", "f")>>,
            d2 |-> <<Correction(1), StatementRow("FUNDING", "g")>>,
            d3 |-> <<Correction(1), Correction(2)>>,
            d4 |-> <<StatementRow("LIQUIDATION", "l"), StatementRow("REBATE", "r"), Correction(3)>>,
            d5 |-> <<Correction(1)>>]
MCClaims == {[opening |-> TRUE, covered |-> TRUE], [opening |-> TRUE, covered |-> FALSE],
             [opening |-> FALSE, covered |-> TRUE]}

\* The callers of every component are the same two: one symmetry serves all.
MCSymmetry == Permutations(Confirmers \cup Clerks \cup Users)

VARIABLE focus   \* the component that moves

MCVars == <<focus, importsVars, reconciliationVars, propagationVars, accountVars, recordVars, reviewVars, exportVars, upgradeVars>>

MCInit ==
    /\ focus \in {"imports", "reconciliation", "propagation", "accounts", "orders", "records", "review", "exports", "upgrade"}
    /\ ImportsInit /\ ReconciliationInit /\ PropagationInit /\ AccountInit /\ RecordsInit /\ ReviewInit /\ ExportInit /\ UpgradeInit
    /\ focus # "orders" => setting = Missing
    /\ focus # "records" => \A p \in Playbooks : books[p] = Missing
    /\ focus # "exports" => \A t \in OldTrades : tradeRows[t].entry = 1
    /\ focus # "upgrade" => target.version = 0 /\ RowsIn(target) = {} /\ target.evidenced = {}

\* The records are taken twice, with orders and with playbooks; both have reviews.
Calling(ops) == \A c \in Users : call'[c].op \in {"none"} \cup ops

MCNext ==
    /\ UNCHANGED focus
    /\ \/ focus = "imports" /\ ImportsNext /\ UNCHANGED <<reconciliationVars, propagationVars, accountVars, recordVars, reviewVars, exportVars, upgradeVars>>
       \/ focus = "reconciliation" /\ ReconciliationNext /\ UNCHANGED <<importsVars, propagationVars, accountVars, recordVars, reviewVars, exportVars, upgradeVars>>
       \/ focus = "propagation" /\ PropagationNext /\ UNCHANGED <<importsVars, reconciliationVars, accountVars, recordVars, reviewVars, exportVars, upgradeVars>>
       \/ focus = "accounts" /\ AccountNext /\ UNCHANGED <<importsVars, reconciliationVars, propagationVars, recordVars, reviewVars, exportVars, upgradeVars>>
       \/ focus = "orders" /\ RecordsNext /\ Calling({"create", "compare", "decide", "answered", "review"})
          /\ UnchangedPlaybooks /\ UNCHANGED <<importsVars, reconciliationVars, propagationVars, accountVars, reviewVars, exportVars, upgradeVars>>
       \/ focus = "records" /\ RecordsNext /\ Calling({"edit", "audit", "review"})
          /\ UnchangedPolicies /\ UNCHANGED <<importsVars, reconciliationVars, propagationVars, accountVars, reviewVars, exportVars, upgradeVars>>
       \/ focus = "review" /\ ReviewNext /\ UNCHANGED <<importsVars, reconciliationVars, propagationVars, accountVars, recordVars, exportVars, upgradeVars>>
       \/ focus = "exports" /\ ExportNext /\ UNCHANGED <<importsVars, reconciliationVars, propagationVars, accountVars, recordVars, reviewVars, upgradeVars>>
       \/ focus = "upgrade" /\ UpgradeNext /\ UNCHANGED <<importsVars, reconciliationVars, propagationVars, accountVars, recordVars, reviewVars, exportVars>>

MCSpec == MCInit /\ [][MCNext]_MCVars
============================================================
