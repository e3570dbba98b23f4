-------------------------------- MODULE Imports --------------------------------
(***************************************************************************)
(* How trades that Kuantra did not record itself enter the journal: CSV     *)
(* files of four formats (app/services/csv_importer.py) and TradingView     *)
(* alerts that a user confirms (app/api/webhook_tv.py).                     *)
(*                                                                          *)
(* A CSV import runs on the event loop, one at a time, and writes one       *)
(* transaction for each row; edits and confirmations come from the request  *)
(* pool in between, and the application may die between two rows.  A write  *)
(* of the journal (TradeJournal) is one step here.                          *)
(***************************************************************************)
EXTENDS Integers, Sequences, FiniteSets, SequencesExt

CONSTANTS
    Files,      \* the files a user imports: a format and a sequence of raw rows
    Alerts,     \* alerts that carry their own time
    Unstamped,  \* alerts that do not
    Confirmers, \* threads that confirm
    Prices,     \* entry prices a user confirms
    None,       \* an empty cell, or no trade
    MaxFileImports, \* bound: imports
    MaxEvents   \* bound: events of the journal

ASSUME ImportsAssumption == MaxFileImports \in Nat /\ MaxEvents \in Nat /\ Alerts \cap Unstamped = {}

VARIABLES
    trades,       \* the trades table: a function of the ids in use
    events,       \* the evidence events of trades
    observations, \* the evidence events of alerts
    importing,    \* the import in progress, or its answer
    imports,      \* imports so far
    confirming    \* what each thread confirms

importsVars == <<trades, events, observations, importing, imports, confirming>>

-----------------------------------------------------------------------------
(* Parsing.  A raw row has a time above zero; zero stands for a number that *)
(* is missing or not positive.                                              *)

Amount(cell) == IF cell = None THEN 0 ELSE cell

Parsed(row, exit, status, ended) ==
    [time |-> row.time, entry |-> row.entry, exit |-> exit, qty |-> row.qty,
     pnl |-> Amount(row.pnl), status |-> status, ended |-> ended]

\* A fill with a result is a completed trade, at its own price.
Binance(row) ==
    LET done == Amount(row.pnl) # 0
    IN  Parsed(row, IF done THEN row.entry ELSE 0, IF done THEN "CLOSED" ELSE "OPEN", done)

\* A report of completed trades.
Bybit(row) == Parsed(row, row.exit, "CLOSED", TRUE)

MetaTrader(row) ==
    LET done == row.ended \/ Amount(row.pnl) # 0
    IN  Parsed(row, row.exit, IF done THEN "CLOSED" ELSE "OPEN", done)

\* The status is the file's where it names one.
Generic(row) ==
    LET done == row.ended \/ Amount(row.pnl) # 0
    IN  Parsed(row, row.exit,
               IF row.status # None THEN row.status ELSE IF done THEN "CLOSED" ELSE "OPEN", done)

Parse(format, row) ==
    CASE format = "BINANCE" -> Binance(row) [] format = "BYBIT" -> Bybit(row)
      [] format = "METATRADER" -> MetaTrader(row) [] OTHER -> Generic(row)

\* Faulty variant: an unknown result counts as none.
FaultyRejected(format, row) ==
    LET t == Parse(format, row)
    IN  row.malformed \/ t.entry = 0 \/ t.qty = 0 \/ (t.status = "CLOSED" /\ t.exit = 0)

\* A row that cannot become a trade without inventing something.
Rejected(format, row) ==
    LET t == Parse(format, row)
    IN  \/ row.malformed \/ t.entry = 0 \/ t.qty = 0
        \/ t.status = "CLOSED" /\ t.exit = 0
        \/ row.pnl = None \/ row.fee = None

\* Faulty variant: the good rows of a file are imported.
FaultyReview(file) ==
    IF \A i \in DOMAIN file.rows : Rejected(file.format, file.rows[i]) THEN "REJECTED" ELSE "READY"

\* Only a file all of whose rows are understood is imported.
ReviewOf(file) ==
    LET bad == {i \in DOMAIN file.rows : Rejected(file.format, file.rows[i])}
    IN  IF bad = DOMAIN file.rows THEN "REJECTED" ELSE IF bad # {} THEN "PARTIAL" ELSE "READY"

Accepted(file) == SelectSeq([i \in DOMAIN file.rows |-> Parse(file.format, file.rows[i])],
                            LAMBDA t : \E i \in DOMAIN file.rows :
                                t = Parse(file.format, file.rows[i]) /\ ~ Rejected(file.format, file.rows[i]))

\* Faulty variant: the quantity is not part of it.
FaultyFingerprint(t) == <<t.time, t.entry, t.ended, t.pnl>>

\* What makes two trades the same, and names an imported one: not its exit.
FingerprintOf(t) == <<t.time, t.entry, t.qty, t.ended, t.pnl>>

-----------------------------------------------------------------------------
(* Writes of the journal *)

Stored(id) == id \in DOMAIN trades

\* record_and_sync_trade: a stored trade takes over all the payload has.
EventType(id, payload, source) ==
    IF ~ Stored(id) THEN IF source = "csv" THEN "LegacyTradeImported" ELSE "IntentRecorded"
    ELSE IF trades[id].status # "CLOSED" /\ payload.status = "CLOSED" THEN "FillRecorded"
    ELSE "TradeCorrected"

Written(id, payload) ==
    [f \in DOMAIN payload \cup {"rev"} |->
        IF f \in DOMAIN payload THEN payload[f] ELSE IF Stored(id) THEN trades[id].rev ELSE 1]

Event(id, payload, source, cause) ==
    [trade |-> id, cause |-> cause, key |-> <<id, EventType(id, payload, source), payload>>,
     snap |-> Written(id, payload)]

SameKey(e) == {n \in DOMAIN events : events[n].key = e.key}

\* The key of an event digests the payload, the event has the stored row.
Conflict(e) == \E n \in SameKey(e) : events[n].snap # e.snap

Record(e) ==
    /\ events' = IF SameKey(e) = {} THEN Append(events, e) ELSE events
    /\ trades' = [id \in DOMAIN trades \cup {e.trade} |-> IF id = e.trade THEN e.snap ELSE trades[id]]

Room == Len(events) < MaxEvents

-----------------------------------------------------------------------------
(* CSV imports *)

NoImport == [phase |-> "none"]

Known == {FingerprintOf(trades[id]) : id \in DOMAIN trades}

\* parse_and_import_csv up to its loop.
StartImport(file) ==
    /\ importing = NoImport /\ imports < MaxFileImports /\ imports' = imports + 1
    /\ importing' = IF ReviewOf(file) # "READY" THEN [phase |-> "blocked", file |-> file]
                    ELSE [phase |-> "rows", file |-> file, left |-> Accepted(file), known |-> Known]
    /\ UNCHANGED <<trades, events, observations, confirming>>

\* The next row: skipped, written, or refused, which ends the import.
ImportRow ==
    /\ importing.phase = "rows" /\ importing.left # <<>>
    /\ LET t    == Head(importing.left)
           id   == FingerprintOf(t)
           e    == Event(id, t, "csv", None)
           next == [importing EXCEPT !.left = Tail(@), !.known = @ \cup {id}]
       IN  IF id \in importing.known THEN importing' = next /\ UNCHANGED <<trades, events>>
           ELSE IF Conflict(e) THEN importing' = NoImport /\ UNCHANGED <<trades, events>>
           ELSE Room /\ Record(e) /\ importing' = next
    /\ UNCHANGED <<observations, imports, confirming>>

\* Whatever is left of an import when the application dies is not resumed.
Crash ==
    /\ importing.phase = "rows" /\ importing' = NoImport
    /\ confirming' = [c \in Confirmers |-> None]
    /\ UNCHANGED <<trades, events, observations, imports>>

AnswerImport ==
    /\ importing.phase = "rows" /\ importing.left = <<>>
    /\ importing' = [phase |-> "answered", file |-> importing.file]
    /\ UNCHANGED <<trades, events, observations, imports, confirming>>

CloseAnswer ==
    /\ importing.phase \in {"answered", "blocked"} /\ importing' = NoImport
    /\ UNCHANGED <<trades, events, observations, imports, confirming>>

\* An edit of the journal: another size, or the trade is completed.
UserEdits(id) ==
    /\ Stored(id) /\ Room
    /\ \E row \in {[trades[id] EXCEPT !.qty = @ + 1, !.rev = @ + 1],
                   [trades[id] EXCEPT !.status = "CLOSED", !.exit = 1, !.ended = TRUE, !.pnl = 1, !.rev = @ + 1]} :
          /\ row.qty <= 2
          /\ row.status # trades[id].status \/ row.qty # trades[id].qty
          /\ Record([trade |-> id, cause |-> None, key |-> <<id, "edit", row>>, snap |-> row])
    /\ UNCHANGED <<observations, importing, imports, confirming>>

-----------------------------------------------------------------------------
(* Alerts *)

\* Faulty variant: the time of receipt is part of the observation.
FaultyObservationOf(a) == <<a, Len(observations) + 1>>

\* The observation has the alert's time, or that of its receipt.
ObservationOf(a) == <<a, IF a \in Alerts THEN 0 ELSE Len(observations) + 1>>

\* receive_tradingview_webhook, for an alert that proves its origin; the sender
\* repeats what it has no answer to.
ReceiveAlert(a) ==
    /\ Len(observations) < 2
    /\ observations' = IF ObservationOf(a) \in ToSet(observations) THEN observations
                       ELSE Append(observations, ObservationOf(a))
    /\ UNCHANGED <<trades, events, importing, imports, confirming>>

\* The trade opens at the time the user gives, 0, or at that of the confirmation,
\* which is no other's.
Confirmed(price, time) ==
    [time |-> time, entry |-> price, exit |-> 0, qty |-> 1, pnl |-> 0, status |-> "OPEN", ended |-> FALSE]

\* Faulty variant: the event does not name the alert.
FaultyConfirmation(o, price, time) == Event(o, Confirmed(price, time), "tradingview_confirmed", None)

Confirmation(o, price, time) == Event(o, Confirmed(price, time), "tradingview_confirmed", o)

\* confirm_tradingview_observation: the look-up, then the write.
LookUp(c) ==
    /\ confirming[c] = None
    /\ \E o \in ToSet(observations), price \in Prices, time \in {0, c} :
          ~ Stored(o) /\ confirming' = [confirming EXCEPT ![c] = <<o, price, time>>]
    /\ UNCHANGED <<trades, events, observations, importing, imports>>

Confirm(c) ==
    /\ confirming[c] # None
    /\ LET e == Confirmation(confirming[c][1], confirming[c][2], confirming[c][3])
       IN  IF Conflict(e) THEN UNCHANGED <<trades, events>> ELSE Room /\ Record(e)
    /\ confirming' = [confirming EXCEPT ![c] = None]
    /\ UNCHANGED <<observations, importing, imports>>

\* list_tradingview_observations
ShownConfirmed(o) == \E n \in DOMAIN events : events[n].cause = o

-----------------------------------------------------------------------------
ImportsInit ==
    /\ trades = <<>> /\ events = <<>> /\ observations = <<>>
    /\ importing = NoImport /\ imports = 0
    /\ confirming = [c \in Confirmers |-> None]

ImportsNext ==
    \/ \E file \in Files : StartImport(file)
    \/ ImportRow \/ Crash \/ AnswerImport \/ CloseAnswer
    \/ \E id \in DOMAIN trades : UserEdits(id)
    \/ \E a \in Alerts \cup Unstamped : ReceiveAlert(a)
    \/ \E c \in Confirmers : LookUp(c) \/ Confirm(c)

ImportsSpec == ImportsInit /\ [][ImportsNext]_importsVars

-----------------------------------------------------------------------------
(* Properties *)

\* An import that is answered has left nothing of its file out: whatever was
\* skipped as known, edited meanwhile or written by an earlier import that died,
\* each row is or has been a trade of the journal; and a row that lacks a price,
\* a size or its accounting has made no trade, and none of its file's rows has.
AnswerCovers ==
    /\ importing.phase = "answered" =>
          \A i \in DOMAIN importing.file.rows :
              LET t == Parse(importing.file.format, importing.file.rows[i])
              IN  \E n \in DOMAIN events :
                    \A f \in {"time", "entry", "qty", "ended", "pnl"} : events[n].snap[f] = t[f]
    /\ importing.phase \in {"rows", "answered"} =>
          \A i \in DOMAIN importing.file.rows :
              LET row == importing.file.rows[i]
              IN  ~ row.malformed /\ row.pnl # None /\ row.fee # None /\ row.entry > 0 /\ row.qty > 0

\* An alert is one observation however often it is sent, and is shown as
\* confirmed exactly when its trade is stored, whichever of several
\* confirmations wrote it and whatever dies between them.
AlertsConfirmed ==
    /\ \A m, n \in DOMAIN observations :
          observations[m][1] = observations[n][1] /\ observations[m][1] \in Alerts => m = n
    /\ \A n \in DOMAIN observations : ShownConfirmed(observations[n]) <=> Stored(observations[n])

\* "commits trades in a single SQLite transaction": no file is there in part.
ImportIsWhole ==
    \A file \in Files : ReviewOf(file) = "READY" /\ importing = NoImport =>
        LET there(i) == Stored(FingerprintOf(Parse(file.format, file.rows[i])))
        IN  \A i, j \in DOMAIN file.rows : there(i) <=> there(j)

\* The same trade imported a second time is skipped: it does not undo what the
\* user has made of it since.
DuplicateSkipped ==
    [][importing.phase = "rows" /\ importing'.phase = "rows" =>
          \A id \in DOMAIN trades : trades'[id] = trades[id]
             \/ trades'[id].rev > trades[id].rev \/ id \in ToSet(observations)]_importsVars

\* An import answers for exactly what it wrote, and an alert becomes a trade only
\* when it is confirmed.
ImportsSound == AnswerCovers /\ AlertsConfirmed
=============================================================================
