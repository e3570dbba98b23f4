----------------------------- MODULE JournalExports -----------------------------
(***************************************************************************)
(* What leaves the journal: the bulk export and its preview                *)
(* (app/services/journal_export.py) and the evidence pack of one trade     *)
(* (app/services/evidence_pack_export.py), both through the coverage gated *)
(* reader (app/services/trade_read_adapter.py) over the table              *)
(* (app/db/sqlite_driver.py) and the typed projection                      *)
(* (app/db/repositories/evidence_projection_repo.py).                      *)
(*                                                                         *)
(* An export reads the journal page by page, a pack reads it store by      *)
(* store, each read on a connection of its own: others write in between.   *)
(* A write of the journal is one step, as TradeJournal shows, and so are   *)
(* the table and the projection of it.                                     *)
(***************************************************************************)
EXTENDS Naturals, Sequences, FiniteSets, SequencesExt

CONSTANTS
    Ids,         \* trade ids, ordered as their text is
    EntryTimes,
    OldTrades,   \* trades of the table that have no evidence yet
    PageSize,
    MaxListed,   \* MAX_EXPORT_TRADES
    MaxWrites,   \* bound: writes of the journal
    NoTrade

ASSUME ExportAssumption == Ids \subseteq Nat /\ EntryTimes \subseteq Nat /\ OldTrades \subseteq Ids /\ PageSize \in Nat \ {0}

VARIABLES
    tradeRows,  \* the trades table
    covered,    \* trades that the typed projection has
    history,    \* trade snapshots in the ledger
    writes,     \* writes so far
    export,     \* the export in progress
    artifact,   \* the export that was answered last, until the next reader
    packing,    \* the evidence pack in progress
    pack        \* the evidence pack that was answered last, until the next reader

exportVars == <<tradeRows, covered, history, writes, export, artifact, packing, pack>>

Outcomes == {"OPEN", "CLOSED", "CANCELED"}
RecordedTrades == {t \in Ids : tradeRows[t] # NoTrade}
NoExport == [stage |-> "none", began |-> <<>>, filter |-> {}, read |-> <<>>, offset |-> 0,
             source |-> "none", steady |-> TRUE]
NoPack == [todo |-> <<>>, trade |-> 0, row |-> NoTrade, covered |-> FALSE, events |-> {}, checked |-> {}]

-----------------------------------------------------------------------------
(* The journal *)

TradeWritten(t, row) ==
    /\ tradeRows' = [tradeRows EXCEPT ![t] = row]
    /\ covered' = covered \cup {t}
    /\ history' = history \cup {[trade |-> t, row |-> row]}
    /\ writes' = writes + 1

\* An export during which a trade moved among the others is not steady.
Moved == export' = [export EXCEPT !.steady = export.stage = "none"]

RecordTrade(t) ==
    /\ writes < MaxWrites /\ tradeRows[t] = NoTrade
    /\ \E time \in EntryTimes, status \in {"OPEN", "CLOSED"} :
          TradeWritten(t, [entry |-> time, status |-> status])
    /\ UNCHANGED <<export, artifact, packing, pack>>

\* Faulty variant: a canceled trade leaves the table.
FaultyCanceled(row) == NoTrade

\* delete_trade of the API keeps the row as a tombstone.
Canceled(row) == [row EXCEPT !.status = "CANCELED"]

EndTrade(t) ==
    /\ writes < MaxWrites /\ t \in RecordedTrades /\ tradeRows[t].status = "OPEN"
    /\ \/ TradeWritten(t, [tradeRows[t] EXCEPT !.status = "CLOSED"])
       \/ TradeWritten(t, Canceled(tradeRows[t]))
    /\ UNCHANGED <<export, artifact, packing, pack>>

EditEntryTime(t) ==
    /\ writes < MaxWrites /\ t \in RecordedTrades
    /\ \E time \in EntryTimes \ {tradeRows[t].entry} :
           TradeWritten(t, [tradeRows[t] EXCEPT !.entry = time])
    /\ Moved
    /\ UNCHANGED <<artifact, packing, pack>>

-----------------------------------------------------------------------------
(* Reading *)

\* coverage: the projection has exactly the trades of the table.
Source == IF covered = RecordedTrades THEN "projection" ELSE "table"

\* By entry time, newest first.  Trades of one entry time come in the order of
\* the index on the table (of their row ids, here the reverse of the ids'), and
\* in that of their ids from the projection.
Precedes(source, t, u) ==
    \/ tradeRows[t].entry > tradeRows[u].entry
    \/ tradeRows[t].entry = tradeRows[u].entry /\ (IF source = "projection" THEN t > u ELSE t < u)

Listing(source) == SetToSortSeq(RecordedTrades, LAMBDA t, u : Precedes(source, t, u))

PageFrom(source, offset) ==
    LET all == Listing(source) IN
    [n \in 1..(IF Len(all) - offset < PageSize THEN (IF Len(all) < offset THEN 0 ELSE Len(all) - offset)
                                               ELSE PageSize) |->
        [trade |-> all[offset + n], row |-> tradeRows[all[offset + n]]]]

-----------------------------------------------------------------------------
(* The bulk export *)

\* The records of the snapshot.
Selected(e) == SelectSeq(e.read, LAMBDA item : item.row.status \in e.filter)

\* _summarize counts records.
Count(records, status) == Cardinality({n \in DOMAIN records : records[n].row.status = status})

ArtifactOf(e) ==
    [records |-> Selected(e), began |-> e.began, filter |-> e.filter, steady |-> e.steady,
     counts |-> [status \in Outcomes |-> Count(Selected(e), status)]]

NoAnswer == [records |-> <<>>, began |-> <<>>, filter |-> {}, steady |-> TRUE, counts |-> [status \in Outcomes |-> 0]]

\* One reader at a time: readers do not affect each other, nor the writers.
NobodyReads == export.stage = "none" /\ packing.todo = <<>>

\* export and preview, once the request is valid.
BeginExport ==
    /\ NobodyReads
    /\ \E filter \in {Outcomes, {"CLOSED"}} :
          export' = [NoExport EXCEPT !.stage = "reading", !.began = tradeRows, !.filter = filter]
    /\ pack' = NoPack /\ artifact' = NoAnswer
    /\ UNCHANGED <<tradeRows, covered, history, writes, packing>>

\* A page that is short is the last; too many records are refused.
ReadPage ==
    /\ export.stage = "reading"
    /\ LET page == PageFrom(Source, export.offset)
           next == [export EXCEPT !.read = @ \o page, !.offset = @ + Len(page), !.source = Source,
                                  !.steady = @ /\ export.source \in {"none", Source}]
       IN CASE Len(next.read) > MaxListed -> export' = NoExport /\ UNCHANGED artifact
            [] Len(next.read) <= MaxListed /\ Len(page) < PageSize ->
                   export' = NoExport /\ artifact' = ArtifactOf(next)
            [] Len(next.read) <= MaxListed /\ Len(page) = PageSize ->
                   export' = next /\ UNCHANGED artifact
    /\ UNCHANGED <<tradeRows, covered, history, writes, packing, pack>>

-----------------------------------------------------------------------------
(* The evidence pack *)

\* Faulty variant: the events are read before the trade.
FaultyPackReads == <<"coverage", "events", "trade", "integrity">>

\* get_evidence_pack
PackReads == <<"coverage", "trade", "events", "integrity">>

BeginPack(t) ==
    /\ NobodyReads
    /\ packing' = [NoPack EXCEPT !.todo = PackReads, !.trade = t]
    /\ pack' = NoPack /\ artifact' = NoAnswer
    /\ UNCHANGED <<tradeRows, covered, history, writes, export>>

Reads(what) == packing.todo # <<>> /\ Head(packing.todo) = what
Rest == [packing EXCEPT !.todo = Tail(@)]

\* The table and the projection hold the same row of a trade that both have.
PackTrade ==
    /\ \/ Reads("coverage") /\ packing' = Rest
       \/ Reads("trade") /\ packing' = [Rest EXCEPT !.row = tradeRows[packing.trade],
                                                                !.covered = packing.trade \in covered]
    /\ UNCHANGED <<tradeRows, covered, history, writes, export, artifact, pack>>

PackEvents ==
    /\ Reads("events")
    /\ packing' = [Rest EXCEPT !.events = {e \in history : e.trade = packing.trade}]
    /\ UNCHANGED <<tradeRows, covered, history, writes, export, artifact, pack>>

\* The artifact of a pack, of whatever format; without a trade and without an
\* event there is none.
PackArtifact(p) == IF p.row = NoTrade /\ p.events = {} THEN NoPack ELSE p

\* verify_chain, then the pack is complete.
PackVerified ==
    /\ Reads("integrity")
    /\ packing' = NoPack
    /\ pack' = PackArtifact([Rest EXCEPT !.checked = history])
    /\ UNCHANGED <<tradeRows, covered, history, writes, export, artifact>>

-----------------------------------------------------------------------------
ExportInit ==
    /\ \E time \in [OldTrades -> EntryTimes] :
          tradeRows = [t \in Ids |-> IF t \in OldTrades THEN [entry |-> time[t], status |-> "OPEN"] ELSE NoTrade]
    /\ covered = {} /\ history = {} /\ writes = 0
    /\ export = NoExport /\ packing = NoPack
    /\ artifact = NoAnswer /\ pack = NoPack

ExportNext ==
    \/ \E t \in Ids : RecordTrade(t) \/ EndTrade(t) \/ EditEntryTime(t) \/ BeginPack(t)
    \/ BeginExport \/ ReadPage
    \/ PackTrade \/ PackEvents \/ PackVerified

ExportSpec == ExportInit /\ [][ExportNext]_exportVars

-----------------------------------------------------------------------------
(* Properties *)

\* Trades of its beginning that match and have not changed.
Unchanged(a) == {t \in DOMAIN a.began : /\ a.began[t] # NoTrade /\ a.began[t].status \in a.filter
                                         /\ tradeRows[t] = a.began[t]}

Listed(a) == {a.records[n].trade : n \in DOMAIN a.records}
RowOf(a, t) == {a.records[n].row : n \in {m \in DOMAIN a.records : a.records[m].trade = t}}

\* While no entry time is edited and the source stays the same, trades may be
\* opened, closed and canceled between two pages and still none is left out:
\* one that the export saw at its beginning and that has not changed is in it,
\* if it matches, and every record is a state that the trade has really had.
NothingLeftOut ==
    /\ artifact.steady => Unchanged(artifact) \subseteq Listed(artifact)
    /\ \A t \in Listed(artifact) : \A row \in RowOf(artifact, t) :
          row = artifact.began[t] \/ [trade |-> t, row |-> row] \in history

\* Whatever is written while a pack is put together: the state it shows of a
\* trade is one its events prove, if it had evidence, and the chain that it
\* calls valid has every event it lists.
PackIsProven ==
    /\ pack.covered => [trade |-> pack.trade, row |-> pack.row] \in pack.events
    /\ pack.events \subseteq pack.checked

\* "one filtered snapshot" (journal_export.py): a trade is counted once.
CountedOnce == \A m, n \in DOMAIN artifact.records : artifact.records[m].trade = artifact.records[n].trade => m = n

\* "never mixes a partial projection with legacy rows, which would make the
\* journal silently incomplete" (trade_read_adapter.py): no trade is missing.
ExportIsComplete == Unchanged(artifact) \subseteq Listed(artifact)

\* An export leaves out no trade that stayed put while it was read, and a pack
\* holds only what the ledger proves.
ExportsSound == NothingLeftOut /\ PackIsProven
===============================================================================
