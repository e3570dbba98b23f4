----------------------------- MODULE PaperTrading -----------------------------
(***************************************************************************)
(* Paper orders and the gates in front of them: the execution engine       *)
(* (app/services/execution/ccxt_engine.py), the risk guard                 *)
(* (app/quant/risk_guard.py), the prop-firm shield (app/services           *)
(* /compliance_engine.py), the order router with its interceptor, the      *)
(* copy engine and the multi-account fan-out that go through it            *)
(* (app/services/execution, app/services/p2p), and the kill switch         *)
(* (app/services/biometrics/panic_switch.py).                              *)
(*                                                                         *)
(* Requests run in threads of the pool.  A request is evaluated, its       *)
(* decision is appended to the ledger, and its trade is written later;     *)
(* meanwhile trades close, prices move and days end.  The shield's high    *)
(* watermark, its configuration and the kill switch live in the process.   *)
(* Money is counted in half percents of the account.                       *)
(***************************************************************************)
EXTENDS Integers, FiniteSets, FiniteSetsExt

CONSTANTS
    Desks,           \* threads that handle order requests
    Positions,       \* journal positions priced by the live stream
    Results,         \* results a trade may close with
    Marks,           \* unrealised results the stream may show
    Routes,          \* "order", "copy", "fanout"
    Account, DailyLimit, DrawdownLimit, GuardBand,
    Accounts,        \* bound: active accounts of a fan-out
    MaxOrders,       \* bound: orders
    PaperIds,        \* names of paper trades: venue and millisecond
    MaxDays          \* bound: days

ASSUME PaperAssumption ==
    /\ {Account, DailyLimit, DrawdownLimit, GuardBand, Accounts} \subseteq Nat
    /\ {MaxOrders, MaxDays} \subseteq Nat
    /\ Results \subseteq Int /\ Marks \subseteq Int
    /\ Routes \subseteq {"order", "copy", "fanout"}
    /\ IsFiniteSet(Positions \cup PaperIds)

VARIABLES
    orderRows,        \* the rows of the trades table
    cleared,     \* orders whose approval is in the ledger
    filled,      \* the trades that were written for orders, with how they came
    desk,        \* what each thread is doing
    since,       \* what has been so ever since the order of a thread came in
    mark,        \* the unrealised result of the open positions
    watermark,   \* high_watermark of the shield
    trailing,    \* trailing_drawdown of its configuration
    locked,      \* is_locked_down of the kill switch
    day          \* the date

paperVars == <<orderRows, cleared, filled, desk, since, mark, watermark, trailing, locked, day>>

NoRow == [status |-> "none", pnl |-> 0, day |-> 0]
OpenRow == [NoRow EXCEPT !.status = "OPEN"]
FreeDesk == [at |-> "free", route |-> "none", order |-> 0, left |-> 0]

-----------------------------------------------------------------------------
(* The shield *)

ClosedRows == {i \in DOMAIN orderRows : orderRows[i].status = "CLOSED"}
PnlOf(ids) == MapThenSumSet(LAMBDA i : orderRows[i].pnl, ids)

TodaysPnl == PnlOf({i \in ClosedRows : orderRows[i].day = day})

Unrealised == IF \E p \in Positions : orderRows[p].status = "OPEN" THEN mark ELSE 0

Equity(open) == Account + PnlOf(ClosedRows) + open
Raised(open) == Max({watermark, Equity(open)})
DailyLoss(open) == Max({0, -(TodaysPnl + open)})
Drawdown(open) == Max({0, (IF trailing THEN Raised(open) ELSE Account) - Equity(open)})

\* overall_status is BREACHED
Breached(open) == DailyLoss(open) >= DailyLimit \/ Drawdown(open) >= DrawdownLimit

\* evaluate_compliance raises the watermark; the gates give it no positions.
Evaluate(open) == watermark' = Raised(open)

\* Faulty variant: the guard band widens the limit.
FaultyNearLimit == DailyLoss(0) >= DailyLimit + GuardBand

NearLimit == DailyLoss(0) >= DailyLimit - GuardBand

-----------------------------------------------------------------------------
(* Orders *)

\* Where the request of a desk stands: create_order goes from the price check to
\* the guard, and only from an approval to the paper fill.
At(t, where) == desk[t].at = where
Go(t, where) == desk' = [desk EXCEPT ![t].at = where]
Refuse(t) == desk' = [desk EXCEPT ![t] = FreeDesk]
NextOrder == Max({0} \cup {f.order : f \in filled} \cup {desk[t].order : t \in Desks}) + 1

\* The realised result of the day, from the trades as they are in the journal.
SumOfDay == MapThenSumSet(LAMBDA i : IF orderRows[i].status = "CLOSED" /\ orderRows[i].day = day THEN orderRows[i].pnl ELSE 0,
                          DOMAIN orderRows)
DayLost == - SumOfDay >= DailyLimit - GuardBand

\* Kept for the property only: whether the day has been lost, and the terminal
\* locked, all the time since an order came in.
Remember ==
    since' = [t \in Desks |->
                IF desk'[t].at = "free" THEN [lossy |-> FALSE, locked |-> FALSE]
                ELSE IF desk'[t].order # desk[t].order THEN [lossy |-> DayLost', locked |-> locked']
                ELSE [lossy |-> since[t].lossy /\ DayLost', locked |-> since[t].locked /\ locked']]

\* The endpoints let only PAPER orders through; create_order refuses one
\* without a price.  The copy engine has verified the signature of its signal.
Submit(t) ==
    /\ At(t, "free") /\ NextOrder <= MaxOrders
    /\ \E route \in Routes :
          desk' = [desk EXCEPT ![t] =
                     [at |-> IF route = "order" THEN "guard" ELSE "intercept",
                      route |-> route, order |-> NextOrder,
                      left |-> IF route = "fanout" THEN Accounts ELSE 1]]
    /\ UNCHANGED <<orderRows, cleared, filled, mark, watermark, trailing, locked, day>> /\ Remember

\* Of a fan-out the next account is tried, whatever became of this one.
AfterOrder(t) ==
    IF desk[t].left > 1 /\ NextOrder <= MaxOrders
    THEN desk' = [desk EXCEPT ![t] = [@ EXCEPT !.at = "intercept", !.order = NextOrder, !.left = @ - 1]]
    ELSE Refuse(t)

\* An account that is inactive, over its own daily loss or served by the FIX
\* facade, which sends nothing, gets no order.
SkipAccount(t) ==
    /\ At(t, "intercept") /\ desk[t].route = "fanout"
    /\ AfterOrder(t)
    /\ UNCHANGED <<orderRows, cleared, filled, mark, watermark, trailing, locked, day>> /\ Remember

LockedOut == locked

\* evaluate_order: the lockdown, the tilt of the session, the shield.
Intercept(t) ==
    /\ At(t, "intercept")
    /\ \/ LockedOut /\ AfterOrder(t) /\ UNCHANGED watermark
       \/ ~ LockedOut /\ AfterOrder(t) /\ UNCHANGED watermark            \* ORDER_BLOCKED_HIGH_TILT
       \/ ~ LockedOut /\ Breached(0) /\ AfterOrder(t) /\ Evaluate(0)
       \/ /\ ~ LockedOut /\ ~ Breached(0) /\ Evaluate(0)
          /\ Go(t, "guard")
    /\ UNCHANGED <<orderRows, cleared, filled, mark, trailing, locked, day>> /\ Remember

\* Faulty variant: an approval is returned although it could not be recorded.
FaultyClearanceKept(t) == TRUE

\* A decision counts once record_evaluation has appended its event.
ClearanceKept(t) == desk[t].order \in cleared'

\* validate_pre_execution_risk: the risk of the order may refuse it too, and
\* so does a decision whose evidence cannot be recorded.
Guard(t) ==
    /\ At(t, "guard")
    /\ \E sound \in BOOLEAN :
          /\ IF sound THEN Evaluate(0) ELSE UNCHANGED watermark
          /\ LET approved == sound /\ ~ Breached(0) /\ ~ NearLimit
             IN  /\ cleared' \in {cleared, IF approved THEN cleared \cup {desk[t].order} ELSE cleared}
                 /\ IF approved /\ ClearanceKept(t)
                    THEN Go(t, "place")
                    ELSE AfterOrder(t)
    /\ UNCHANGED <<orderRows, filled, mark, trailing, locked, day>> /\ Remember

\* The paper fill: the trade is named after the venue and the millisecond, which
\* another order may have had too; record_and_sync_trade then replaces its trade.
Place(t) ==
    /\ At(t, "place")
    /\ \E i \in PaperIds :
          /\ orderRows' = [orderRows EXCEPT ![i] = OpenRow]
          /\ filled' = filled \cup {[order |-> desk[t].order, id |-> i, route |-> desk[t].route,
                                     since |-> since[t]]}
    /\ AfterOrder(t)
    /\ UNCHANGED <<cleared, mark, watermark, trailing, locked, day>> /\ Remember

\* The write fails: the exception ends the request, a fan-out with its rest.
PlaceFails(t) ==
    /\ At(t, "place")
    /\ Refuse(t)
    /\ UNCHANGED <<orderRows, cleared, filled, mark, watermark, trailing, locked, day>> /\ Remember

\* cancel_order rewrites the row, whatever its status and without an event.
CancelOrder(i) ==
    /\ orderRows[i].status \in {"OPEN", "CLOSED"}
    /\ orderRows' = [orderRows EXCEPT ![i].status = "CANCELED"]
    /\ UNCHANGED <<cleared, filled, desk, mark, watermark, trailing, locked, day>> /\ Remember

-----------------------------------------------------------------------------
(* What goes on around them *)

CloseTrade(i) ==
    /\ orderRows[i].status = "OPEN"
    /\ \E pnl \in Results : orderRows' = [orderRows EXCEPT ![i] = [@ EXCEPT !.status = "CLOSED", !.pnl = pnl, !.day = day]]
    /\ UNCHANGED <<cleared, filled, desk, mark, watermark, trailing, locked, day>> /\ Remember

\* A tick of the stream, or the status endpoint: the shield is evaluated with
\* the open positions.
MarkPositions ==
    /\ \E m \in Marks : mark' = m
    /\ watermark' = Max({watermark, Equity(IF \E p \in Positions : orderRows[p].status = "OPEN" THEN mark' ELSE 0)})
    /\ UNCHANGED <<orderRows, cleared, filled, desk, trailing, locked, day>> /\ Remember

ConfigureShield ==
    /\ trailing' = ~ trailing /\ watermark' = Max({watermark, Account})
    /\ UNCHANGED <<orderRows, cleared, filled, desk, mark, locked, day>> /\ Remember

TriggerKillSwitch ==
    /\ ~ locked /\ locked' = TRUE
    /\ UNCHANGED <<orderRows, cleared, filled, desk, mark, watermark, trailing, day>> /\ Remember

\* disarm_lockdown, with the configured secret
DisarmLockdown ==
    /\ locked /\ locked' = FALSE
    /\ UNCHANGED <<orderRows, cleared, filled, desk, mark, watermark, trailing, day>> /\ Remember

\* The process ends and starts again: shield and kill switch are new.
RestartDesk ==
    /\ desk' = [t \in Desks |-> FreeDesk]
    /\ watermark' = Account /\ trailing' = TRUE /\ locked' = FALSE
    /\ UNCHANGED <<orderRows, cleared, filled, mark, day>> /\ Remember

NextDay ==
    /\ day < MaxDays /\ day' = day + 1
    /\ UNCHANGED <<orderRows, cleared, filled, desk, mark, watermark, trailing, locked>> /\ Remember

-----------------------------------------------------------------------------
PaperInit ==
    /\ orderRows = [i \in Positions \cup PaperIds |-> IF i \in Positions THEN OpenRow ELSE NoRow]
    /\ cleared = {} /\ filled = {}
    /\ desk = [t \in Desks |-> FreeDesk]
    /\ since = [t \in Desks |-> [lossy |-> FALSE, locked |-> FALSE]]
    /\ mark = 0 /\ watermark = Account /\ trailing = TRUE /\ locked = FALSE
    /\ day = 0

PaperNext ==
    \/ \E t \in Desks : Submit(t) \/ SkipAccount(t) \/ Intercept(t) \/ Guard(t) \/ Place(t) \/ PlaceFails(t)
    \/ \E i \in DOMAIN orderRows : CancelOrder(i) \/ CloseTrade(i)
    \/ MarkPositions \/ ConfigureShield \/ TriggerKillSwitch \/ DisarmLockdown \/ RestartDesk
    \/ NextDay

PaperSpec == PaperInit /\ [][PaperNext]_paperVars

-----------------------------------------------------------------------------
(* Properties *)

\* Every order that was filled had its approval in the ledger first; no order
\* is filled that came in on a day already lost, or by way of the router while
\* the terminal was locked, when nothing changed about that until the fill.
FillsWereCleared ==
    \A f \in filled : /\ f.order \in cleared
                      /\ ~ f.since.lossy
                      /\ f.route # "order" => ~ f.since.locked

\* "READ_ONLY_LOCKDOWN" (panic_switch.py): no order of any route is filled
\* that came in under the lockdown.
LockdownHolds == \A f \in filled : ~ f.since.locked

\* "Cancels open order on exchange or marks as canceled in local paper journal"
\* (ccxt_engine.py): a trade that is closed is not cancelled.
CancelsOnlyOpen ==
    [][\A i \in DOMAIN orderRows : orderRows[i].status = "CLOSED" => orderRows'[i].status # "CANCELED"]_paperVars

\* "Prop firm maximum or daily drawdown has been breached" (risk_guard.py): the
\* shield of a guard is not breached while the account, positions included, is
\* as high as it has ever been seen.
BreachIsReal ==
    Breached(0) => Equity(Unrealised) < watermark \/ DailyLoss(Unrealised) > 0

\* Every order that was filled is a trade of the journal.
FillIsKept == \A f, g \in filled : f.id = g.id => f = g
===============================================================================
