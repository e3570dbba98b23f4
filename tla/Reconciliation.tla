----------------------------- MODULE Reconciliation -----------------------------
(***************************************************************************)
(* What Kuantra learns from a broker and what it makes of it: the paginated *)
(* read-only sync (app/services/exchange/read_only_broker_sync.py), the     *)
(* import of its rows or of an export file into the evidence ledger with a  *)
(* reconciliation (broker_import_service.py), the projection of the ledger  *)
(* to observations with its coverage (broker_observation_repo.py,           *)
(* broker_observations.py), and the inbox in which a user decides what the  *)
(* reconciliation could not (reconciliation_inbox.py).                      *)
(*                                                                          *)
(* The broker is outside: its account changes while pages are asked for.    *)
(* It answers in order of time from an inclusive cursor, ties in any order. *)
(* A row is an order or a fill of quantity 1, prices and fees are left out. *)
(* An import is one transaction and one entry of the ledger; a document is  *)
(* the set of its rows.                                                     *)
(***************************************************************************)
EXTENDS Integers, Sequences, FiniteSets, SequencesExt, FiniteSetsExt

CONSTANTS
    BrokerOrders,   \* order ids
    Deciders,       \* threads that decide, and threads that rebuild
    Decisions,      \* ACKNOWLEDGED, REJECTED
    PageLimit,      \* page_limit
    MaxPages,       \* max_pages
    MaxAttempts,    \* max_attempts of a request
    Bounds,         \* the bounds of time a sync is asked for
    MaxBrokerTime,  \* bound: the broker's clock
    MaxFills,       \* bound: fills at the broker
    MaxImports,     \* bound: imports in the ledger
    MaxLedger      \* bound: imports and decisions in the ledger

ASSUME ReconciliationAssumption ==
    /\ PageLimit \in Nat \ {0} /\ MaxPages \in Nat \ {0} /\ MaxAttempts \in Nat \ {0}
    /\ Bounds \subseteq Nat \X Nat

VARIABLES
    placed,     \* when each order was placed at the broker; 0 when it was not
    filled,     \* the fills at the broker, oldest first
    brokerTime, \* its clock
    sync,       \* the sync in progress
    brokerLedger,     \* imports and decisions
    projection, \* broker_observation_log and broker_projection_state
    deciding        \* what each thread has read and not yet written

brokerVars == <<placed, filled, brokerTime>>
reconciliationVars == <<placed, filled, brokerTime, sync, brokerLedger, projection, deciding>>

-----------------------------------------------------------------------------
(* The broker *)

FillsOf(o) == {n \in DOMAIN filled : filled[n].order = o}

OrderRow(o) == [kind |-> "order", id |-> o, order |-> o, at |-> placed[o],
                qty |-> Cardinality(FillsOf(o))]
FillRow(n)  == [kind |-> "fill", id |-> n, order |-> filled[n].order, at |-> filled[n].at, qty |-> 1]

RowsOf(kind) == IF kind = "order" THEN {OrderRow(o) : o \in {x \in BrokerOrders : placed[x] > 0}}
                                  ELSE {FillRow(n) : n \in DOMAIN filled}

\* The threads work beside the broker and the sync.  Their steps commute with
\* those of the broker and of paging, which touch neither the ledger nor the
\* projection, and are put before or after them.
Quiet == \A d \in Deciders : deciding[d].op = "none"

\* The account is of no further interest after the last import.
Watched == Quiet /\ Cardinality({n \in DOMAIN brokerLedger : brokerLedger[n].kind = "import"}) < MaxImports

BrokerTrades ==
    /\ Watched
    /\ \/ \E o \in BrokerOrders :
             placed[o] = 0 /\ placed' = [placed EXCEPT ![o] = brokerTime] /\ UNCHANGED filled
       \/ \E o \in BrokerOrders :
             /\ placed[o] > 0 /\ Len(filled) < MaxFills
             /\ filled' = Append(filled, [order |-> o, at |-> brokerTime]) /\ UNCHANGED placed
    /\ UNCHANGED <<brokerTime, sync, brokerLedger, projection, deciding>>

BrokerClock ==
    /\ Watched /\ brokerTime < MaxBrokerTime /\ brokerTime' = brokerTime + 1
    /\ UNCHANGED <<placed, filled, sync, brokerLedger, projection, deciding>>

\* The pages a broker that honours the cursor may answer with.
PagesFrom(kind, cursor) ==
    LET eligible == {r \in RowsOf(kind) : r.at >= cursor}
        size     == IF Cardinality(eligible) < PageLimit THEN Cardinality(eligible) ELSE PageLimit
    IN  {p \in kSubset(size, eligible) : \A r \in p, s \in eligible \ p : r.at <= s.at}

-----------------------------------------------------------------------------
(* The sync *)

Imports == {n \in DOMAIN brokerLedger : brokerLedger[n].kind = "import"}

NoSync == [phase |-> "idle"]

Collected(kind, s) ==
    [s EXCEPT !.phase = kind, !.cursor = s.since, !.attempt = 1, !.seen = {}, !.count = 0,
              !.known[kind] = {r.id : r \in {x \in RowsOf(kind) : x.at \in s.since .. s.until}}]

\* sync: the request is bounded; orders are collected before fills.
StartSync ==
    /\ sync = NoSync /\ Quiet /\ Cardinality(Imports) < MaxImports
    /\ \E b \in Bounds : b[1] <= b[2] /\
          sync' = Collected("order", [phase |-> "order", since |-> b[1], until |-> b[2], cursor |-> 0,
                                      attempt |-> 1, seen |-> {}, count |-> 0, rows |-> {}, odd |-> FALSE,
                                      known |-> [order |-> {}, fill |-> {}], requests |-> 0, complete |-> TRUE])
    /\ UNCHANGED <<brokerVars, brokerLedger, projection, deciding>>

Collecting == sync.phase \in {"order", "fill"}

\* _call_with_retry: a failed request is repeated, the last failure ends the sync.
RequestFails ==
    /\ Collecting
    /\ sync' = IF sync.attempt < MaxAttempts
               THEN [sync EXCEPT !.attempt = @ + 1, !.requests = @ + 1] ELSE NoSync
    /\ UNCHANGED <<brokerVars, brokerLedger, projection, deciding>>

\* The last row of an identity stands.
Merged(rows, page) == {r \in rows : ~ \E q \in page : q.kind = r.kind /\ q.id = r.id} \cup page

Latest(page) == Max({r.at : r \in page})

\* Faulty variant: a cursor beyond the last page does not repeat its last rows.
FaultyNewCursor(page) == Latest(page) + 1

\* The cursor is inclusive: rows of one time may straddle two pages.
NewCursor(page) == Latest(page)

\* Faulty variant: a full page at the requested boundary ends the history.
FaultyOutcome(page, mapped, odd) ==
    IF odd \/ mapped \in sync.seen THEN "partial"
    ELSE IF Cardinality(page) < PageLimit \/ Latest(page) >= sync.until THEN "complete"
    ELSE IF sync.count + 1 = MaxPages THEN "partial"
    ELSE "more"

\* A collection is complete when a page that can be trusted is short.
Outcome(page, mapped, odd) ==
    IF odd \/ mapped \in sync.seen THEN "partial"
    ELSE IF Cardinality(page) < PageLimit THEN "complete"
    ELSE IF Latest(page) >= sync.until \/ sync.count + 1 = MaxPages THEN "partial"
    ELSE "more"

\* _paginate: one page.  An odd page misses a timestamp or is out of order.
ReceivePage ==
    /\ Collecting
    /\ \E page \in PagesFrom(sync.phase, sync.cursor), odd \in BOOLEAN :
          LET mapped  == {r \in page : r.at <= sync.until}
              outcome == Outcome(page, mapped, odd)
              got     == [sync EXCEPT !.rows = Merged(@, mapped), !.count = @ + 1,
                                      !.requests = @ + 1,
                                      !.odd = @ \/ odd,
                                      !.complete = @ /\ outcome # "partial"]
          IN  /\ odd => page # {}
              /\ sync' = IF outcome = "more"
                         THEN [got EXCEPT !.cursor = NewCursor(page), !.attempt = 1,
                                          !.seen = @ \cup {mapped}]
                         ELSE IF sync.phase = "order" THEN Collected("fill", got)
                         ELSE [got EXCEPT !.phase = "import"]
    /\ UNCHANGED <<brokerVars, brokerLedger, projection, deciding>>

-----------------------------------------------------------------------------
(* The import *)

DocFills(doc, o) == {r \in doc : r.kind = "fill" /\ r.order = o}
DocOrders(doc)   == {r \in doc : r.kind = "order"}

\* reconcile, and what import_records adds to it.
Disputes(doc, complete) ==
    {<<"QUANTITY_MISMATCH", r.id>> :
        r \in {x \in DocOrders(doc) : Cardinality(DocFills(doc, x.id)) # x.qty}}
    \cup {<<"MISSING_FILL_ROWS", r.id>> :
        r \in {x \in DocOrders(doc) : x.qty > 0 /\ DocFills(doc, x.id) = {}}}
    \cup {<<"ORPHAN_FILL", o>> :
        o \in {r.order : r \in {x \in doc : x.kind = "fill"}} \ {r.id : r \in DocOrders(doc)}}
    \cup (IF complete THEN {} ELSE {<<"SNAPSHOT_INCOMPLETE", "all">>})

\* What a user is asked: every discrepancy, or whether the import is to be used.
Review(entry) ==
    IF Disputes(entry.doc, entry.complete) # {} THEN Disputes(entry.doc, entry.complete)
    ELSE {<<"USER_DECISION_REQUIRED", "all">>}

\* The document, with the order and the gaps of its rows, is part of the
\* identity of an observation, its provenance is not.
SameIdentity(e, f) == e.source = f.source /\ e.doc = f.doc /\ e.odd = f.odd

\* append_events, all or nothing: a known event is not appended again, one that
\* differs from the known one in its provenance is refused.
Import(entry) ==
    brokerLedger' = IF entry.doc = {} \/ \E n \in Imports : SameIdentity(brokerLedger[n], entry)
              THEN brokerLedger ELSE Append(brokerLedger, entry)

Conflicts(entry) == \E n \in Imports : SameIdentity(brokerLedger[n], entry) /\ brokerLedger[n] # entry

\* What identifies a manifest: its bounds; its pages are left out.
StablePayload == <<sync.since, sync.until, sync.complete>>

\* The provenance also has the number of requests, failed ones included.
Provenance == <<StablePayload, sync.requests>>

SyncEntry == [kind |-> "import", source |-> "api", doc |-> sync.rows, odd |-> sync.odd,
              complete |-> sync.complete, provenance |-> Provenance]

ImportSnapshot ==
    /\ sync.phase = "import" /\ Import(SyncEntry) /\ sync' = NoSync
    /\ UNCHANGED <<brokerVars, projection, deciding>>

\* import_json_document: the broker's own export, with its orders or without.
ImportFile ==
    /\ Cardinality(Imports) < MaxImports
    /\ \E doc \in {RowsOf("fill"), RowsOf("order") \cup RowsOf("fill")} :
          Import([kind |-> "import", source |-> "file", doc |-> doc, odd |-> FALSE, complete |-> TRUE, provenance |-> <<>>])
    /\ brokerLedger' # brokerLedger
    /\ UNCHANGED <<brokerVars, sync, projection, deciding>>

-----------------------------------------------------------------------------
(* Observations and their coverage *)

\* build_broker_observation_snapshot: each observation by itself; rows of a
\* file do not name their exchange and stay unresolved.
Observations(n) ==
    UNION {{<<k, r>> : r \in brokerLedger[k].doc} : k \in {j \in Imports : j <= n /\ brokerLedger[j].source = "api"}}

Free(d) == deciding[d].op = "none" /\ sync.phase \notin {"order", "fill"}
Holds(d, t) == deciding' = [deciding EXCEPT ![d] = t]
Done(d) == Holds(d, [op |-> "none"])

\* rebuild: the events are read, verified and projected before the transaction.
ScanLedger(d) ==
    /\ Free(d) /\ Holds(d, [op |-> "rebuild", through |-> Len(brokerLedger)])
    /\ UNCHANGED <<brokerVars, sync, brokerLedger, projection>>

\* Faulty variant: the state row describes the ledger as it is when it is written.
FaultyProjected(n) == [records |-> Observations(n), through |-> Len(brokerLedger), status |-> "SUCCESS"]

Projected(n) == [records |-> Observations(n), through |-> n, status |-> "SUCCESS"]

\* _write_snapshot: rows and state in one transaction; or _record_failure.
WriteSnapshot(d) ==
    /\ deciding[d].op = "rebuild" /\ Done(d)
    /\ projection' \in {Projected(deciding[d].through), [projection EXCEPT !.status = "FAILED"]}
    /\ UNCHANGED <<brokerVars, sync, brokerLedger>>

\* coverage: the ledger is read first, then the state row.
ScanForCoverage(d) ==
    /\ Free(d) /\ Holds(d, [op |-> "coverage", through |-> Len(brokerLedger)])
    /\ UNCHANGED <<brokerVars, sync, brokerLedger, projection>>

CoverageOf(n) == IF projection.through = 0 - 1 THEN "NEVER_BUILT"
                 ELSE IF projection.through = n THEN "CURRENT" ELSE "STALE"

AnswerCoverage(d) ==
    /\ deciding[d].op = "coverage" /\ Done(d)
    /\ UNCHANGED <<brokerVars, sync, brokerLedger, projection>>

-----------------------------------------------------------------------------
(* The inbox *)

Items == UNION {{<<brokerLedger[n].source, brokerLedger[n].doc, x>> : x \in Review(brokerLedger[n])} : n \in Imports}

DecisionsOn(item) == {n \in DOMAIN brokerLedger : brokerLedger[n].kind = "decision" /\ brokerLedger[n].item = item}

Status(item) == IF DecisionsOn(item) = {} THEN "UNRESOLVED" ELSE brokerLedger[Max(DecisionsOn(item))].decision

\* record_decision up to the append: a known decision is answered, another one
\* of a decided review is refused.
ReadItem(d) ==
    /\ Free(d) /\ Len(brokerLedger) < MaxLedger
    /\ \E item \in Items, decision \in Decisions :
          /\ Status(item) = "UNRESOLVED"
          /\ Holds(d, [op |-> "decide", item |-> item, decision |-> decision])
    /\ UNCHANGED <<brokerVars, sync, brokerLedger, projection>>

\* The append refuses a decision that was recorded meanwhile.
CommitDecision(d) ==
    /\ deciding[d].op = "decide" /\ Done(d)
    /\ brokerLedger' = IF \E n \in DecisionsOn(deciding[d].item) : brokerLedger[n].decision = deciding[d].decision
                 THEN brokerLedger
                 ELSE Append(brokerLedger, [kind |-> "decision", item |-> deciding[d].item,
                                      decision |-> deciding[d].decision])
    /\ UNCHANGED <<brokerVars, sync, projection>>

-----------------------------------------------------------------------------
ReconciliationInit ==
    /\ placed = [o \in BrokerOrders |-> 0] /\ filled = <<>> /\ brokerTime = 1
    /\ sync = NoSync /\ brokerLedger = <<>>
    /\ projection = [records |-> {}, through |-> 0 - 1, status |-> "NONE"]
    /\ deciding = [d \in Deciders |-> [op |-> "none"]]

ReconciliationNext ==
    \/ BrokerTrades \/ BrokerClock
    \/ StartSync \/ RequestFails \/ ReceivePage \/ ImportSnapshot \/ ImportFile
    \/ \E d \in Deciders : \/ ScanLedger(d) \/ WriteSnapshot(d)
                           \/ ScanForCoverage(d) \/ AnswerCoverage(d)
                           \/ ReadItem(d) \/ CommitDecision(d)

ReconciliationSpec == ReconciliationInit /\ [][ReconciliationNext]_reconciliationVars

-----------------------------------------------------------------------------
(* Properties *)

\* However the account changes while it is paged through, a snapshot that is
\* called complete has every order and every fill within the bounds that the
\* broker had when their collection began; and a reconciled one has its orders
\* as they were when the collection of the fills began.
SnapshotComplete ==
    sync.phase = "import" /\ sync.complete =>
        LET collected(kind) == {r.id : r \in {x \in sync.rows : x.kind = kind}}
        IN  /\ \A kind \in {"order", "fill"} : sync.known[kind] \subseteq collected(kind)
            /\ sync.since <= 1 /\ sync.until >= brokerTime /\ Disputes(sync.rows, TRUE) = {} =>
                  \A r \in DocOrders(sync.rows) : r.qty = Cardinality(sync.known.fill \cap FillsOf(r.id))

\* A projection that coverage calls current has exactly the observations of the
\* ledger that coverage has read, whatever is imported, rebuilt or fails between
\* its two reads.
CoverageHonest ==
    \A d \in Deciders : deciding[d].op = "coverage" /\ CoverageOf(deciding[d].through) = "CURRENT" =>
        projection.records = Observations(deciding[d].through)

\* "Re-importing the same bytes remains idempotent."
ResyncAccepted == sync.phase = "import" => ~ Conflicts(SyncEntry)

\* "Raised when a terminal review is given a different decision."
DecidedOnce == \A item \in Items : Cardinality(DecisionsOn(item)) <= 1

\* A snapshot called complete holds every fill of its window, and coverage is
\* claimed only for what was reconciled.
BrokerEvidenceSound == SnapshotComplete /\ CoverageHonest
=============================================================================
