---------------------------- MODULE AtomicJournal ----------------------------
(***************************************************************************)
(* What the journal promises a client that names the revision it saw        *)
(* (app/api/endpoints.py, app/services/trade_edit.py): each operation takes *)
(* effect on the row as it is, in one step, or not at all.  There are no    *)
(* requests, no events and no copies here, only the rows.                   *)
(***************************************************************************)
EXTENDS Integers

CONSTANTS
    Trades,         \* trade ids
    Sizes,          \* entry price and quantity
    LegacyTrades,   \* rows that may be older than the evidence ledger
    NoRow,          \* no such trade
    NoResult        \* pnl and r_multiple are NULL

VARIABLE
    rows            \* the trades table

RowStatuses == {"OPEN", "CLOSED", "CANCELED"}

NewRow(size, status) ==
    [size |-> size, status |-> status, basis |-> IF status = "CLOSED" THEN size ELSE NoResult, rev |-> 1]

\* A result is computed from the size the row has, and cleared by a reopening;
\* a cancelled trade keeps the one it has.
ResultAfter(row, status) ==
    CASE status = "CLOSED" -> row.size
      [] status = "OPEN" /\ row.status # "OPEN" -> NoResult
      [] OTHER -> row.basis

Revised(row, status, size) ==
    [size |-> size, status |-> status, basis |-> ResultAfter(row, status), rev |-> row.rev + 1]

RecordTrade(t) ==
    /\ rows[t] = NoRow
    /\ \E size \in Sizes, status \in {"OPEN", "CLOSED"} :
          rows' = [rows EXCEPT ![t] = NewRow(size, status)]

CloseTrade(t) ==
    /\ rows[t] # NoRow /\ rows[t].status = "OPEN"
    /\ rows' = [rows EXCEPT ![t] = Revised(rows[t], "CLOSED", rows[t].size)]

CancelTrade(t) ==
    /\ rows[t] # NoRow /\ rows[t].status # "CANCELED"
    /\ rows' = [rows EXCEPT ![t] = Revised(rows[t], "CANCELED", rows[t].size)]

\* A completed trade keeps its size unless it is reopened, and no edit closes
\* and resizes at once.
EditTrade(t) ==
    /\ rows[t] # NoRow
    /\ \E status \in RowStatuses, size \in Sizes :
          /\ size # rows[t].size => status # "CLOSED" /\ (rows[t].status = "CLOSED" => status = "OPEN")
          /\ rows' = [rows EXCEPT ![t] = Revised(rows[t], status, size)]

AtomicInit ==
    \E old \in SUBSET LegacyTrades, size \in Sizes :
        rows = [t \in Trades |-> IF t \in old THEN NewRow(size, "OPEN") ELSE NoRow]

AtomicNext == \E t \in Trades : RecordTrade(t) \/ CloseTrade(t) \/ CancelTrade(t) \/ EditTrade(t)

AtomicSpec == AtomicInit /\ [][AtomicNext]_rows
=============================================================================
