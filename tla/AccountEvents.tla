---------------------------- MODULE AccountEvents ----------------------------
(***************************************************************************)
(* Account cash events (app/services/account_reconciliation.py): funding,   *)
(* fees, transfers, rebates, liquidations and corrections of an exported    *)
(* statement are normalised, reported with the coverage that is claimed for *)
(* them, and stored as far as the ledger has a type for them.               *)
(*                                                                          *)
(* A document is a sequence of rows; its hash is its name.  An event of the *)
(* ledger is named by its place.                                            *)
(***************************************************************************)
EXTENDS Integers, Sequences, FiniteSets, TLC, SequencesExt

CONSTANTS
    Clerks,             \* callers of the service
    Holders,            \* account ids
    Exchanges,          \* venues
    StatementIds,         \* documents
    Lines,              \* the rows of each document
    Claims,             \* what a caller may claim: opening state and coverage
    MaxEntries          \* bound: events in the ledger

ASSUME AccountAssumption ==
    /\ MaxEntries \in Nat
    /\ \A s \in StatementIds : Lines[s] \in Seq([kind : STRING, id : STRING, currency : BOOLEAN,
                                               corrects : Nat, effective : BOOLEAN])
    /\ Claims \subseteq [opening : BOOLEAN, covered : BOOLEAN]

VARIABLES
    entries,    \* the ledger
    clerk        \* what each clerk is doing

accountVars == <<entries, clerk>>

-----------------------------------------------------------------------------
(* Normalisation *)

\* _UNSUPPORTED_KINDS, _PERSISTABLE_LEDGER_EVENT_TYPES, _CASH_MOVEMENT_KINDS
NoLedgerSupport == {"LIQUIDATION", "ADL"}
LedgerType == [k \in {"TRADE_FEE", "REBATE"} |-> "FeeAdjusted"] @@ [k \in {"MANUAL_CORRECTION"} |-> "TradeCorrected"]
CashKinds == {"FUNDING", "TRADE_FEE", "TRANSFER", "REBATE"}

\* normalize_event: a correction names its target and the time it takes effect.
Acceptable(row) == row.kind = "MANUAL_CORRECTION" => row.corrects # 0 /\ row.effective

StorageOf(kind) == IF kind \in NoLedgerSupport THEN "UNSUPPORTED"
                   ELSE IF kind \in DOMAIN LedgerType THEN "PERSISTABLE" ELSE "SCHEMA_EVENT_TYPE_PENDING"

\* normalize_events: what is refused is left out; a record keeps the number of its row.
HolderEvents(statement) ==
    LET rows == Lines[statement]
        kept == SelectSeq([i \in DOMAIN rows |-> i], LAMBDA i : Acceptable(rows[i]))
    IN  [i \in DOMAIN kept |-> rows[kept[i]] @@ [row |-> kept[i]]]

-----------------------------------------------------------------------------
(* The report *)

\* Faulty variant: only what is not supported at all is held against a report.
FaultyReportReasons(events, claim) ==
    {r \in {"OPENING", "COVERAGE", "UNSUPPORTED", "CURRENCY"} :
        CASE r = "OPENING" -> ~ claim.opening
          [] r = "COVERAGE" -> ~ claim.covered
          [] r = "UNSUPPORTED" -> \E e \in ToSet(events) : StorageOf(e.kind) = "UNSUPPORTED"
          [] r = "CURRENCY" -> \E e \in ToSet(events) : e.kind \in CashKinds /\ ~ e.currency}

ReportReasons(events, claim) ==
    {r \in {"OPENING", "COVERAGE", "UNSUPPORTED", "PENDING", "CURRENCY"} :
        CASE r = "OPENING" -> ~ claim.opening
          [] r = "COVERAGE" -> ~ claim.covered
          [] r = "UNSUPPORTED" -> \E e \in ToSet(events) : StorageOf(e.kind) = "UNSUPPORTED"
          [] r = "PENDING" -> \E e \in ToSet(events) : StorageOf(e.kind) = "SCHEMA_EVENT_TYPE_PENDING"
          [] r = "CURRENCY" -> \E e \in ToSet(events) : e.kind \in CashKinds /\ ~ e.currency}

StatusOf(events, claim) ==
    CASE ~ claim.opening -> "NOT_AVAILABLE"
      [] ReportReasons(events, claim) # {} -> "PARTIAL"
      [] OTHER -> "COMPLETE"

\* Events that share their identity are listed as discrepancies; they still count.
LineDisputes(events) ==
    {i \in DOMAIN events : \E j \in DOMAIN events : i # j /\ events[i].id = events[j].id}

NoTask == [at |-> "none"]
Put(c, t) == clerk' = [clerk EXCEPT ![c] = t]

\* normalize_events and reconcile, of one statement.
BeginReport(c) ==
    /\ clerk[c] = NoTask
    /\ \E s \in StatementIds, h \in Holders, x \in Exchanges, claim \in Claims :
        Put(c, [at |-> "reported", statement |-> s, holder |-> h, exchange |-> x, events |-> HolderEvents(s),
                status |-> StatusOf(HolderEvents(s), claim), target |-> 1])
    /\ UNCHANGED entries

-----------------------------------------------------------------------------
(* Storage *)

\* persist_records: the target of a correction is in the ledger, of the same
\* account and venue.
TargetStands(t, e) ==
    /\ e.corrects \in DOMAIN entries
    /\ entries[e.corrects].holder = t.holder /\ entries[e.corrects].exchange = t.exchange

Persistable(t) == SelectSeq(t.events, LAMBDA e : StorageOf(e.kind) = "PERSISTABLE")

\* One record after the other is looked at, each target in a read of its own;
\* the first that fails ends the call.
CheckTarget(c) ==
    LET t == clerk[c]
    IN  /\ t.at = "reported" /\ t.target <= Len(Persistable(t))
        /\ LET e == Persistable(t)[t.target]
           IN  Put(c, IF e.kind = "MANUAL_CORRECTION" /\ ~ TargetStands(t, e) THEN NoTask
                      ELSE [t EXCEPT !.target = @ + 1])
        /\ UNCHANGED entries

\* The idempotency key: source, account, document, kind, external id and payload.
EntryOf(t, e) == [holder |-> t.holder, exchange |-> t.exchange, statement |-> t.statement,
                  kind |-> e.kind, id |-> e.id, row |-> e.row, corrects |-> e.corrects]

\* append_events: one transaction; what is there under its key is not added again.
AppendEvents(c) ==
    LET t == clerk[c]
        new == SelectSeq([i \in DOMAIN Persistable(t) |-> EntryOf(t, Persistable(t)[i])],
                         LAMBDA n : n \notin ToSet(entries))
    IN  /\ t.at = "reported" /\ t.target > Len(Persistable(t))
        /\ Len(entries) + Len(new) <= MaxEntries
        /\ entries' = entries \o new
        /\ Put(c, [t EXCEPT !.at = "stored"])

Close(c) == clerk[c].at = "stored" /\ Put(c, NoTask) /\ UNCHANGED entries

AccountInit == entries = <<>> /\ clerk = [c \in Clerks |-> NoTask]

AccountNext == \E c \in Clerks : BeginReport(c) \/ CheckTarget(c) \/ AppendEvents(c) \/ Close(c)

AccountSpec == AccountInit /\ [][AccountNext]_accountVars

-----------------------------------------------------------------------------
(* Properties *)

\* A report is COMPLETE only when everything it counted can be stored: once its
\* statement is stored, each of its events is in the ledger.
CompleteIsStored ==
    \A c \in Clerks : clerk[c].at = "stored" /\ clerk[c].status = "COMPLETE" =>
        \A e \in ToSet(clerk[c].events) : EntryOf(clerk[c], e) \in ToSet(entries)

\* A correction leads, through earlier events of its own account and venue only,
\* back to an event that corrects nothing.
CorrectionsLead ==
    \A n \in DOMAIN entries : entries[n].corrects # 0 =>
        /\ entries[n].corrects < n
        /\ entries[entries[n].corrects].holder = entries[n].holder
        /\ entries[entries[n].corrects].exchange = entries[n].exchange

AccountEvidenceSound == CompleteIsStored /\ CorrectionsLead

\* "late correction yeniden importta idempotent kalır": a late correction that is
\* imported again is not stored again.
CorrectionOnce ==
    \A m, n \in DOMAIN entries :
        entries[m].kind = "MANUAL_CORRECTION" /\ [entries[m] EXCEPT !.statement = entries[n].statement] = entries[n] => m = n
=============================================================================
