------------------------------ MODULE TradeJournal ------------------------------
(***************************************************************************)
(* The trade journal of Kuantra: the path of a journal write from the HTTP *)
(* handlers (backend/app/api/endpoints.py, app/services/trade_edit.py,     *)
(* app/services/reconciliation_inbox.py, app/api/webhook_tv.py and         *)
(* app/services/csv_importer.py) through the sync pipeline                 *)
(* (app/db/sync_pipeline.py) into one SQLite transaction that writes the   *)
(* trades row, the evidence event and the typed projection                 *)
(* (app/db/sqlite_driver.py), and from there, outside any transaction, to  *)
(* the DuckDB copy that analytics reads (app/db/duckdb_driver.py).         *)
(*                                                                         *)
(* Handlers run in a thread pool: a request reads the trade, computes its  *)
(* change from what it read, reads again to name the event, and commits    *)
(* later; others commit in between.  An SQLite transaction is one step.    *)
(* The maintenance commands (backfill, projection rebuild) need the lease  *)
(* of the profile, hence a stopped application.                            *)
(*                                                                         *)
(* A trade row is reduced to what can go inconsistent: the size (entry     *)
(* price and quantity), the status, the size the stored result was         *)
(* computed from, and the revision.  The ledger is EvidenceLedger reduced  *)
(* to its committed rows.                                                  *)
(***************************************************************************)
EXTENDS Integers, Sequences, FiniteSets

CONSTANTS
    Threads,        \* workers of the request pool
    Trades,         \* trade ids
    Sizes,          \* entry price and quantity
    Requests,       \* the kinds of request the environment sends
    LegacyTrades,   \* rows that may be older than the evidence ledger
    MaxEvents,      \* bound: events in the ledger
    NoRow,          \* no such trade
    NoResult,       \* pnl and r_multiple are NULL
    AnyRevision     \* expected_revision is None

Venues   == {"journal", "legacy"}
Statuses == {"OPEN", "CLOSED", "CANCELED"}
Rows     == [size: Sizes, status: Statuses, basis: Sizes \cup {NoResult}, rev: Nat]

ASSUME JournalAssumption ==
    /\ LegacyTrades \subseteq Trades
    /\ NoResult \notin Sizes
    /\ NoRow \notin Rows
    /\ AnyRevision \notin Nat
    /\ MaxEvents \in Nat

VARIABLES
    rows,           \* the trades table
    ledger,         \* committed evidence events that carry a trade snapshot
    projection,     \* evidence_trade_projections: the event each row shows
    olap,           \* olap_trades in DuckDB
    req,            \* what each thread is working on
    running         \* the application holds the profile lease

vars == <<rows, ledger, projection, olap, req, running>>

-----------------------------------------------------------------------------
(* Requests *)

Idle == [stage |-> "idle"]

\* A handler that has read its trade and computed its payload.
Received(kind, t, read, payload, expected) ==
    [stage |-> "received", kind |-> kind, trade |-> t, read |-> read,
     payload |-> payload, expected |-> expected, type |-> ""]

Classified(r, type) == [r EXCEPT !.stage = "classified", !.type = type]

\* After the commit only the rows to copy to DuckDB are left.
Syncing(pending) == [stage |-> "syncing", pending |-> pending]
Deleted(r, t)    == [stage |-> "deleted", pending |-> r.pending, trade |-> t]

Accept(th, kind) ==
    /\ running
    /\ kind \in Requests
    /\ req[th] = Idle
    /\ Len(ledger) < MaxEvents

Do(th, r) == req' = [req EXCEPT ![th] = r]

UnchangedStores == UNCHANGED <<rows, ledger, projection, olap, running>>

-----------------------------------------------------------------------------
(* What the handlers send *)

Opened(size, rev) == [size |-> size, status |-> "OPEN", basis |-> NoResult, rev |-> rev]
Ended(size, rev)  == [size |-> size, status |-> "CLOSED", basis |-> size, rev |-> rev]

Without(payload, field) == [f \in DOMAIN payload \ {field} |-> payload[f]]

\* create_trade: the id is the time in milliseconds, here never one in use.
Create(th) ==
    /\ Accept(th, "create")
    /\ \E t \in Trades, size \in Sizes :
          /\ rows[t] = NoRow
          /\ \A other \in Threads : req[other] # Idle /\ "trade" \in DOMAIN req[other]
                                      => req[other].trade # t
          /\ \E payload \in {Opened(size, 1), Ended(size, 1)} :
                Do(th, Classified(Received("create", t, NoRow, payload, AnyRevision),
                                  "IntentRecorded"))
    /\ UnchangedStores

ClosePayload(row) == [status |-> "CLOSED", basis |-> row.size, rev |-> row.rev + 1]

\* close_trade
Close(th) ==
    /\ Accept(th, "close")
    /\ \E t \in Trades :
          /\ rows[t] # NoRow
          /\ rows[t].status = "OPEN"
          /\ Do(th, Received("close", t, rows[t], ClosePayload(rows[t]), rows[t].rev))
    /\ UnchangedStores

\* delete_trade leaves a tombstone.
Cancel(th) ==
    /\ Accept(th, "cancel")
    /\ \E t \in Trades :
          /\ rows[t] # NoRow
          /\ rows[t].status # "CANCELED"
          /\ Do(th, Received("cancel", t, rows[t],
                             [status |-> "CANCELED", rev |-> rows[t].rev + 1], rows[t].rev))
    /\ UnchangedStores

\* Closing from the editor computes the result from the row as it was read,
\* before a new size enters the payload, as does the correction of the exit of
\* a completed trade; reopening clears it.
GivesResult(row, status) == status = "CLOSED" \/ (status = "OPEN" /\ row.status # "OPEN")

EditPayload(row, status, size) ==
    [f \in {"rev"} \cup {g \in {"status"} : status # row.status} \cup {g \in {"size"} : size # row.size}
            \cup {g \in {"basis"} : GivesResult(row, status)} |->
        CASE f = "rev"    -> row.rev + 1
          [] f = "status" -> status
          [] f = "size"   -> size
          [] f = "basis"  -> IF status = "CLOSED" THEN row.size ELSE NoResult]

Editable(row, status, size) ==
    /\ status # row.status \/ size # row.size \/ status = "CLOSED"
    /\ row.status = "CLOSED" /\ status # "OPEN" => size = row.size

\* TradeEditService.edit, for an editor that shows the current revision.  The
\* kind "resize" is an edit that closes the trade and changes its size at once.
Edit(th) ==
    /\ Accept(th, "edit")
    /\ \E t \in Trades, status \in Statuses, size \in Sizes :
          /\ rows[t] # NoRow
          /\ Editable(rows[t], status, size)
          /\ status = "CLOSED" /\ size # rows[t].size /\ rows[t].status # "CLOSED"
                => "resize" \in Requests
          /\ Do(th, Received("edit", t, rows[t], EditPayload(rows[t], status, size),
                             rows[t].rev))
    /\ UnchangedStores

Reviewed(t) == \E i \in DOMAIN ledger : ledger[i].trade = t /\ ledger[i].key[1] = "review"

\* record_decision, decision CORRECT: each trade has one review here.  The two
\* look-ups and the read of the trade precede the transaction.
Correct(th) ==
    /\ Accept(th, "correct")
    /\ \E t \in Trades, size \in Sizes :
          /\ rows[t] # NoRow
          /\ ~ Reviewed(t)
          /\ Do(th, Classified(Received("correct", t, rows[t], [size |-> size], AnyRevision),
                               "TradeCorrected"))
    /\ UnchangedStores

\* confirm_tradingview_observation: the id is that of the alert.
Confirm(th) ==
    /\ Accept(th, "confirm")
    /\ \E t \in Trades, size \in Sizes :
          /\ rows[t] = NoRow
          /\ Do(th, Received("confirm", t, NoRow, Without(Opened(size, 1), "rev"),
                             AnyRevision))
    /\ UnchangedStores

\* parse_and_import_csv, for one row of the file: the id is a fingerprint of the
\* trade as the file has it, and rows with that fingerprint are skipped.
Import(th) ==
    /\ Accept(th, "import")
    /\ \E t \in Trades, size \in Sizes :
          \E payload \in {Opened(size, 1), Ended(size, 1)} :
              /\ rows[t] # NoRow => Without(rows[t], "rev") # Without(payload, "rev")
              /\ Do(th, Received("import", t, rows[t], Without(payload, "rev"), AnyRevision))
    /\ UnchangedStores

-----------------------------------------------------------------------------
(* record_and_sync_trade *)

RequestedStatus(row, r) ==
    IF "status" \in DOMAIN r.payload THEN r.payload.status ELSE row.status

\* Faulty variant: whatever leaves a trade completed is its fill.
FaultyEventType(row, r) ==
    CASE row = NoRow -> IF r.kind = "import" THEN "LegacyTradeImported" ELSE "IntentRecorded"
      [] row # NoRow /\ RequestedStatus(row, r) = "CLOSED" -> "FillRecorded"
      [] OTHER -> "TradeCorrected"

\* The name of the event, from a read of its own.
EventType(row, r) ==
    CASE row = NoRow -> IF r.kind = "import" THEN "LegacyTradeImported" ELSE "IntentRecorded"
      [] row # NoRow /\ row.status # "CLOSED" /\ RequestedStatus(row, r) = "CLOSED"
           -> "FillRecorded"
      [] OTHER -> "TradeCorrected"

Classify(th) ==
    /\ running
    /\ req[th].stage = "received"
    /\ Do(th, Classified(req[th], EventType(rows[req[th].trade], req[th])))
    /\ UnchangedStores

-----------------------------------------------------------------------------
(* record_trade_with_evidence: one transaction *)

\* The idempotency key digests the payload.
KeyOf(r) ==
    <<IF r.kind = "correct" THEN "review" ELSE "journal", r.trade, r.type, r.payload>>

\* A stored row keeps what the payload leaves out; a new one has revision 1.
Merge(row, payload) ==
    LET old == IF row = NoRow THEN [rev |-> 1] ELSE row
    IN  [f \in DOMAIN old \cup DOMAIN payload |->
            IF f \in DOMAIN payload THEN payload[f] ELSE old[f]]

\* Faulty variant: no optimistic check.
FaultyRevisionMatches(r) == TRUE

RevisionMatches(r) ==
    r.expected # AnyRevision /\ rows[r.trade] # NoRow => rows[r.trade].rev = r.expected

WithKey(key) == {i \in DOMAIN ledger : ledger[i].key = key}

\* Faulty variant: the payload of the first event is not compared.
FaultySameEvent(event, r, row) == r.kind \notin {"edit", "correct"}

\* Edits and corrections occur now, other writes at the time they report.
SameEvent(event, r, row) == event.snap = row /\ r.kind \notin {"edit", "correct"}

Ready(th) == running /\ req[th].stage = "classified"

\* Faulty variant: the row the request read is copied on.
FaultyReturn(th, t, row) ==
    Do(th, IF req[th].kind = "correct" \/ req[th].read = NoRow
           THEN Idle ELSE Syncing([x \in {t} |-> req[th].read]))

\* A correction of the inbox goes to the driver directly, past the pipeline.
Return(th, t, row) ==
    Do(th, IF req[th].kind = "correct" THEN Idle ELSE Syncing([x \in {t} |-> row]))

\* Faulty variant: intents are not projectable.
FaultyProject(t, i) ==
    projection' = IF ledger'[i].type = "IntentRecorded" THEN projection
                  ELSE [projection EXCEPT !["journal"][t] = i]

\* upsert_event_in_transaction
Project(t, i) == projection' = [projection EXCEPT !["journal"][t] = i]

Record(th) ==
    /\ Ready(th)
    /\ RevisionMatches(req[th])
    /\ LET r   == req[th]
           t   == r.trade
           row == Merge(rows[t], r.payload)
           event == [venue |-> "journal", trade |-> t, type |-> r.type,
                     key |-> KeyOf(r), snap |-> row]
       IN  /\ \/ /\ WithKey(KeyOf(r)) = {}
                 /\ Len(ledger) < MaxEvents
                 /\ ledger' = Append(ledger, event)
                 /\ Project(t, Len(ledger) + 1)
              \/ \E i \in WithKey(KeyOf(r)) :
                    /\ SameEvent(ledger[i], r, row)
                    /\ UNCHANGED ledger
                    /\ Project(t, i)
           /\ rows' = [rows EXCEPT ![t] = row]
           /\ Return(th, t, row)
    /\ UNCHANGED <<olap, running>>

\* The transaction is rolled back and the request answers with an error: the
\* row has another revision, or the key has another event.
Refuse(th) ==
    /\ Ready(th)
    /\ LET r == req[th] IN
          \/ ~ RevisionMatches(r)
          \/ \E i \in WithKey(KeyOf(r)) :
                ~ SameEvent(ledger[i], r, Merge(rows[r.trade], r.payload))
    /\ Do(th, Idle)
    /\ UnchangedStores

-----------------------------------------------------------------------------
(* DuckDBDriver.sync_trade: two statements, each committed on its own *)

OlapDelete(th) ==
    /\ running
    /\ req[th].stage = "syncing"
    /\ \E t \in DOMAIN req[th].pending :
          /\ olap' = [olap EXCEPT ![t] = NoRow]
          /\ Do(th, Deleted(req[th], t))
    /\ UNCHANGED <<rows, ledger, projection, running>>

Rest(r) == [t \in DOMAIN r.pending \ {r.trade} |-> r.pending[t]]

\* The primary key of olap_trades refuses a row another thread put back first:
\* the exception ends the request, whose SQLite commit stands.
OlapInsert(th) ==
    /\ running
    /\ req[th].stage = "deleted"
    /\ LET r == req[th] IN
          \/ /\ olap[r.trade] = NoRow
             /\ olap' = [olap EXCEPT ![r.trade] = r.pending[r.trade]]
             /\ Do(th, IF DOMAIN Rest(r) = {} THEN Idle ELSE Syncing(Rest(r)))
          \/ /\ olap[r.trade] # NoRow
             /\ Do(th, Idle)
             /\ UNCHANGED olap
    /\ UNCHANGED <<rows, ledger, projection, running>>

ProjectedIn(t) == {v \in Venues : projection[v][t] # 0}

\* EvidenceTradeProjectionRepository.coverage()["ready"]: one projection row
\* for each trade and no other.
CoverageReady ==
    \A t \in Trades : Cardinality(ProjectedIn(t)) = IF rows[t] = NoRow THEN 0 ELSE 1

Listed == {t \in Trades : rows[t] # NoRow}

Snapshot(t) == ledger[projection[CHOOSE v \in ProjectedIn(t) : TRUE][t]].snap

\* full_sync_report: behind the coverage gate, the projection is listed once
\* and copied trade by trade.
FullSync(th) ==
    /\ running
    /\ "sync" \in Requests
    /\ req[th] = Idle
    /\ CoverageReady
    /\ Listed # {}
    /\ Do(th, Syncing([t \in Listed |-> Snapshot(t)]))
    /\ UnchangedStores

-----------------------------------------------------------------------------
(* The process and its maintenance commands *)

\* A quit or a crash: what is committed stays, every request is gone.
Stop ==
    /\ "stop" \in Requests
    /\ running
    /\ running' = FALSE
    /\ req' = [th \in Threads |-> Idle]
    /\ UNCHANGED <<rows, ledger, projection, olap>>

Start ==
    /\ ~ running
    /\ running' = TRUE
    /\ UNCHANGED <<rows, ledger, projection, olap, req>>

\* Events of the trade other than imports: the trade is already evidenced.
Evidenced(t) ==
    \E i \in DOMAIN ledger : ledger[i].trade = t /\ ledger[i].type # "LegacyTradeImported"

\* Faulty variant: a command that is run again imports again.
FaultyLegacyKey(t) == <<"legacy", t, Len(ledger)>>

LegacyKey(t) == <<"legacy", t>>

\* backfill_legacy_trades --apply, for one trade.
Backfill(t) ==
    /\ ~ running
    /\ rows[t] # NoRow
    /\ ~ Evidenced(t)
    /\ WithKey(LegacyKey(t)) = {}
    /\ Len(ledger) < MaxEvents
    /\ ledger' = Append(ledger, [venue |-> "legacy", trade |-> t,
                                 type |-> "LegacyTradeImported",
                                 key |-> LegacyKey(t), snap |-> rows[t]])
    /\ UNCHANGED <<rows, projection, olap, req, running>>

EventsOf(v, t) == {i \in DOMAIN ledger : ledger[i].venue = v /\ ledger[i].trade = t}

\* Faulty variant: the first event wins instead of the last.
FaultyWinner(v, t) ==
    IF EventsOf(v, t) = {} THEN 0 ELSE CHOOSE i \in EventsOf(v, t) : \A j \in EventsOf(v, t) : i <= j

\* The event received last; the clock is taken not to step back.
Winner(v, t) ==
    IF EventsOf(v, t) = {} THEN 0 ELSE CHOOSE i \in EventsOf(v, t) : \A j \in EventsOf(v, t) : j <= i

\* projection-rebuild --apply
Rebuild ==
    /\ ~ running
    /\ projection' = [v \in Venues |-> [t \in Trades |-> Winner(v, t)]]
    /\ UNCHANGED <<rows, ledger, olap, req, running>>

-----------------------------------------------------------------------------
Init ==
    /\ \E old \in SUBSET LegacyTrades, size \in Sizes :
          rows = [t \in Trades |-> IF t \in old THEN Opened(size, 1) ELSE NoRow]
    /\ ledger = <<>>
    /\ projection = [v \in Venues |-> [t \in Trades |-> 0]]
    /\ olap = [t \in Trades |-> NoRow]
    /\ req = [th \in Threads |-> Idle]
    /\ running = TRUE

Next ==
    \/ \E th \in Threads :
          \/ Create(th) \/ Close(th) \/ Cancel(th) \/ Edit(th)
          \/ Correct(th) \/ Confirm(th) \/ Import(th) \/ FullSync(th)
          \/ Classify(th) \/ Record(th) \/ Refuse(th)
          \/ OlapDelete(th) \/ OlapInsert(th)
    \/ Stop
    \/ Start
    \/ \E t \in Trades : Backfill(t)
    \/ Rebuild

Spec == Init /\ [][Next]_vars

-----------------------------------------------------------------------------
(* What the journal promises *)

\* Every stored row, event, projection and copy is one the code can write, and
\* a projection shows an event of its venue and trade.
TypeOK ==
    /\ rows \in [Trades -> Rows \cup {NoRow}]
    /\ olap \in [Trades -> Rows \cup {NoRow}]
    /\ running \in BOOLEAN
    /\ \A th \in Threads :
          req[th].stage \in {"idle", "received", "classified", "syncing", "deleted"}
    /\ \A i \in DOMAIN ledger : ledger[i].snap \in Rows
    /\ \A v \in Venues, t \in Trades :
          projection[v][t] \in EventsOf(v, t) \cup {0}

\* The row of trades, the newest thing the ledger says of the trade and the
\* projection that readers are switched to agree after every commit, refusal,
\* crash and rebuild: they are written in one transaction or not at all.
RowsEvidenced ==
    \A t \in Trades :
        /\ projection["journal"][t] = Winner("journal", t)
        /\ Winner("journal", t) # 0 => ledger[Winner("journal", t)].snap = rows[t]

\* Also where requests overwrite rows they did not read, the projection readers
\* are switched to shows the row of trades, whichever events it was built from.
ShownIsStored ==
    \A t \in Trades :
        projection["journal"][t] # 0 => ledger[projection["journal"][t]].snap = rows[t]

Earlier(i) == {j \in 1 .. (i - 1) : ledger[j].trade = ledger[i].trade}

Previous(i) == ledger[CHOOSE j \in Earlier(i) : \A k \in Earlier(i) : k <= j]

\* An event is named for what it did: the name is chosen from a read outside
\* the transaction, yet an intent opens its trade and a fill completes it, and
\* nothing else does.
EventsNamedRight ==
    \A i \in DOMAIN ledger :
        LET type   == ledger[i].type
            closes == ledger[i].snap.status = "CLOSED"
        IN  /\ type = "IntentRecorded" => Earlier(i) = {}
            /\ Earlier(i) # {} =>
                  (type = "FillRecorded" <=> closes /\ Previous(i).snap.status # "CLOSED")

\* A trade with evidence receives no legacy snapshot, however often a staged
\* upgrade is repeated (the comment in backfill_legacy_trades).
OneLegacySnapshot ==
    \A i \in DOMAIN ledger : ledger[i].venue = "legacy" => Earlier(i) = {}

\* Requests that name the revision they read are atomic: each commit is one step
\* of AtomicJournal on the row as it is then, whatever was read, named and
\* committed in between, and everything else leaves the rows alone.
Atomic == INSTANCE AtomicJournal WITH rows <- rows

ImplementsAtomicJournal == Atomic!AtomicSpec

\* Once the projection covers the journal, no journal write loses the coverage
\* that lists, synchronisation and hydration wait for.
CoverageKept == [][CoverageReady /\ running => CoverageReady']_vars

Quiet == running /\ \A th \in Threads : req[th] = Idle

\* When no request is in flight analytics shows the journal, but for the trades
\* the inbox corrected behind the pipeline's back.
OlapReplica ==
    Quiet => \A t \in Trades : rows[t] # NoRow /\ ~ Reviewed(t) => olap[t] = rows[t]

\* The journal and its evidence agree: rows, ledger and projection are written
\* together, each event is named for what it did, and legacy snapshots come first.
JournalSound == RowsEvidenced /\ EventsNamedRight /\ OneLegacySnapshot

\* What readers are shown of a trade, by the projection and by the analytics
\* replica, is its row.
ShownSound == ShownIsStored /\ OlapReplica
=============================================================================
