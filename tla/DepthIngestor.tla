----------------------------- MODULE DepthIngestor -----------------------------
(***************************************************************************)
(* The Binance depth ingestor of Kuantra                                   *)
(* (backend/app/services/market_data/binance_depth_ingestor.py), which     *)
(* composes, without any I/O of its own,                                   *)
(*   - the sequence validator (binance_depth_sequence.py),                 *)
(*   - the recovery coordinator with its bounded buffer of the events that *)
(*     arrive before the snapshot (binance_depth_recovery.py),             *)
(*   - the order book projection (binance_depth_payload.py), and           *)
(*   - the canonical event chain and its durable sink                      *)
(*     (market_event_envelope.py, market_event_segments.py).               *)
(* Every method runs without suspension: one call is one step.             *)
(*                                                                         *)
(* Update ids are kept as numbers.  The price levels of a book are reduced *)
(* to the set of update ids they reflect: levels are absolute quantities,  *)
(* so applying an update again changes nothing.  A payload is either well  *)
(* formed or malformed; the normaliser refuses all that the validator      *)
(* would, so the validator never meets a malformed event.                  *)
(***************************************************************************)
EXTENDS Integers, Sequences, FiniteSets, SequencesExt

CONSTANTS
    Events,         \* the well formed depth events: first, final, previous
    SnapshotIds,    \* lastUpdateId of the snapshots
    MaxBuffer,      \* max_buffer_events
    MaxChain,       \* bound: envelopes in the chain when a call begins
    NoId            \* no update id

Ids == 0 .. Max(SnapshotIds \cup {e.final : e \in Events})

ASSUME DepthAssumption ==
    /\ SnapshotIds \subseteq Nat
    /\ NoId \notin Nat
    /\ Events \subseteq [first : Nat, final : Nat, previous : Nat \cup {NoId}]
    /\ \A e \in Events : e.first <= e.final
    /\ MaxBuffer \in Nat \ {0}
    /\ MaxChain \in Nat

VARIABLES
    validator,      \* the sequence state: state, last update id, previous_id_mode
    coordinator,    \* the state of the recovery coordinator
    buffer,         \* its events that wait for a snapshot
    ingestor,       \* the state of the ingestor
    book,           \* last update id and the updates the levels reflect
    chain,          \* envelopes in memory
    sink            \* envelopes on disk

vars == <<validator, coordinator, buffer, ingestor, book, chain, sink>>

RecoveryStates == {"AWAITING_SNAPSHOT", "LIVE", "RECOVERY_REQUIRED"}
IngestorStates == RecoveryStates \cup {"PERSISTENCE_ERROR"}

-----------------------------------------------------------------------------
(* The sequence validator *)

Cold     == [state |-> "COLD", last |-> NoId, mode |-> "unknown"]
Ready(s) == [state |-> "READY", last |-> s, mode |-> "unknown"]
Gap(v)   == [v EXCEPT !.state = "GAP"]

ModeOf(e) == IF e.previous = NoId THEN "absent" ELSE "present"

\* The event holds the first update that is missing.
Bridges(last, e) == e.first <= last + 1 /\ last + 1 <= e.final

\* The link to the previous event is checked from the second event on.
Linked(v, e) ==
    v.state = "LIVE" => /\ ModeOf(e) = v.mode
                        /\ v.mode = "present" => e.previous = v.last

Verdict(v, e) ==
    CASE v.state = "COLD"                   -> "SNAPSHOT_REQUIRED"
      [] v.state = "GAP"                    -> "RECOVERY_REQUIRED"
      [] v.state \in {"READY", "LIVE"} /\ e.final <= v.last -> "STALE_IGNORED"
      [] v.state \in {"READY", "LIVE"} /\ e.final > v.last ->
            IF Bridges(v.last, e) /\ Linked(v, e) THEN "APPLIED" ELSE "GAP_DETECTED"

\* accept_delta
Accepted(v, e) ==
    CASE Verdict(v, e) = "APPLIED" ->
            [state |-> "LIVE", last |-> e.final,
             mode |-> IF v.state = "READY" THEN ModeOf(e) ELSE v.mode]
      [] Verdict(v, e) = "GAP_DETECTED" -> Gap(v)
      [] OTHER -> v

-----------------------------------------------------------------------------
(* The order book and the chain *)

EmptyBook == [last |-> NoId, ids |-> {}]

\* Faulty variant: the levels of the old book stay.
FaultySnapshotBook(s) == [last |-> s, ids |-> book.ids \cup 0 .. s]

SnapshotBook(s) == [last |-> s, ids |-> 0 .. s]

\* Faulty variant: an update that overlaps the book is refused.
FaultyBookAccepts(b, e) ==
    /\ b.last # NoId
    /\ e.first = b.last + 1
    /\ e.previous # NoId => e.previous = b.last

\* apply_update checks the range and the link again, on its own last id.
BookAccepts(b, e) ==
    /\ b.last # NoId
    /\ Bridges(b.last, e)
    /\ e.previous # NoId => e.previous = b.last

BookAfter(b, e) == [last |-> e.final, ids |-> b.ids \cup e.first .. e.final]

BookThrough(b, events) == FoldLeft(BookAfter, b, events)

SnapshotEnvelope(s) == [first |-> NoId, final |-> s, previous |-> NoId]

\* An envelope whose source identity is known is not appended again.  The exchange
\* gives an update id one content: the error for a second one is not modelled.
Recorded(c, envelope) == IF envelope \in Range(c) THEN c ELSE Append(c, envelope)

\* Faulty variant: the events replayed after a snapshot are not recorded.
FaultyRecordedAll(c, envelopes) == IF envelopes = <<>> THEN c ELSE Recorded(c, envelopes[1])

RecordedAll(c, envelopes) == FoldLeft(Recorded, c, envelopes)

\* The sink fails only when it has something to write.
MayFail(c, envelope) == envelope \notin Range(c)

-----------------------------------------------------------------------------
Init ==
    /\ validator = Cold
    /\ coordinator = "AWAITING_SNAPSHOT"
    /\ buffer = <<>>
    /\ ingestor = "AWAITING_SNAPSHOT"
    /\ book = EmptyBook
    /\ chain = <<>>
    /\ sink = <<>>

Working == ingestor # "PERSISTENCE_ERROR"

UnchangedStores == UNCHANGED <<book, chain, sink>>

\* BinanceDepthRecoveryCoordinator.start_buffering
RestartBuffer ==
    /\ buffer' = <<>>
    /\ coordinator' = "AWAITING_SNAPSHOT"

\* Faulty variant: a new cycle clears a persistence error.
FaultyStartBuffering ==
    /\ RestartBuffer
    /\ ingestor' = "AWAITING_SNAPSHOT"
    /\ UNCHANGED validator
    /\ UnchangedStores

\* BinanceDepthIngestor.start_buffering
StartBuffering ==
    /\ IF Working
       THEN RestartBuffer /\ ingestor' = "AWAITING_SNAPSHOT"
       ELSE UNCHANGED <<buffer, coordinator, ingestor>>
    /\ UNCHANGED validator
    /\ UnchangedStores

\* A payload the normaliser refuses restarts the buffer of the coordinator.
IngestMalformed ==
    /\ IF Working
       THEN RestartBuffer /\ ingestor' = "RECOVERY_REQUIRED"
       ELSE UNCHANGED <<buffer, coordinator, ingestor>>
    /\ UNCHANGED validator
    /\ UnchangedStores

-----------------------------------------------------------------------------
(* ingest_event *)

BufferEvent(e) ==
    /\ coordinator = "AWAITING_SNAPSHOT"
    /\ Len(buffer) < MaxBuffer
    /\ buffer' = Append(buffer, e)
    /\ ingestor' = "AWAITING_SNAPSHOT"
    /\ UNCHANGED <<validator, coordinator>>
    /\ UnchangedStores

OverflowBuffer(e) ==
    /\ coordinator = "AWAITING_SNAPSHOT"
    /\ Len(buffer) >= MaxBuffer
    /\ buffer' = <<>>
    /\ coordinator' = "RECOVERY_REQUIRED"
    /\ ingestor' = "RECOVERY_REQUIRED"
    /\ UNCHANGED validator
    /\ UnchangedStores

RefuseEvent(e) ==
    /\ coordinator = "RECOVERY_REQUIRED"
    /\ ingestor' = "RECOVERY_REQUIRED"
    /\ UNCHANGED <<validator, coordinator, buffer>>
    /\ UnchangedStores

IgnoreStale(e) ==
    /\ coordinator = "LIVE"
    /\ Verdict(validator, e) = "STALE_IGNORED"
    /\ UNCHANGED vars

DetectGap(e) ==
    /\ coordinator = "LIVE"
    /\ Verdict(validator, e) = "GAP_DETECTED"
    /\ validator' = Accepted(validator, e)
    /\ coordinator' = "RECOVERY_REQUIRED"
    /\ ingestor' = "RECOVERY_REQUIRED"
    /\ UNCHANGED buffer
    /\ UnchangedStores

Sequenced(e) ==
    /\ coordinator = "LIVE"
    /\ Verdict(validator, e) = "APPLIED"
    /\ validator' = Accepted(validator, e)
    /\ UNCHANGED <<coordinator, buffer>>

\* Faulty variant: an update the book refuses is skipped, the feed stays live.
FaultyBookRefuses(e) ==
    /\ Sequenced(e)
    /\ ~ BookAccepts(book, e)
    /\ ingestor' = "LIVE"
    /\ UnchangedStores

BookRefuses(e) ==
    /\ Sequenced(e)
    /\ ~ BookAccepts(book, e)
    /\ ingestor' = "RECOVERY_REQUIRED"
    /\ UnchangedStores

\* Faulty variant: a failed write is logged and the feed stays live.
FaultyApplyLive(e) ==
    /\ Sequenced(e)
    /\ BookAccepts(book, e)
    /\ book' = BookAfter(book, e)
    /\ chain' = Recorded(chain, e)
    /\ \/ sink' = chain'
       \/ MayFail(chain, e) /\ UNCHANGED sink
    /\ ingestor' = "LIVE"

ApplyLive(e) ==
    /\ Sequenced(e)
    /\ BookAccepts(book, e)
    /\ book' = BookAfter(book, e)
    /\ chain' = Recorded(chain, e)
    /\ \/ sink' = chain' /\ ingestor' = "LIVE"
       \/ MayFail(chain, e) /\ UNCHANGED sink /\ ingestor' = "PERSISTENCE_ERROR"

IngestEvent(e) ==
    IF Working
    THEN \/ BufferEvent(e) \/ OverflowBuffer(e) \/ RefuseEvent(e)
         \/ IgnoreStale(e) \/ DetectGap(e) \/ BookRefuses(e) \/ ApplyLive(e)
    ELSE UNCHANGED vars

-----------------------------------------------------------------------------
(* ingest_snapshot *)

ReplayOne(acc, e) ==
    LET verdict == Verdict(acc.validator, e)
    IN  CASE acc.gap \/ verdict = "STALE_IGNORED" -> acc
          [] ~ acc.gap /\ verdict = "APPLIED" ->
                [acc EXCEPT !.validator = Accepted(@, e), !.applied = Append(@, e)]
          [] OTHER ->
                [acc EXCEPT !.validator = Accepted(@, e), !.gap = TRUE]

\* The buffered events that follow the snapshot, in the order of arrival.
Replay(s) ==
    FoldLeft(ReplayOne, [validator |-> Ready(s), applied |-> <<>>, gap |-> FALSE], buffer)

\* How many of the replayed events the book takes before it refuses one.
Taken(s, events) ==
    Max({n \in 0 .. Len(events) :
            \A i \in 1 .. n : BookAccepts(BookThrough(SnapshotBook(s), SubSeq(events, 1, i - 1)),
                                          events[i])})

Behind(s) == buffer # <<>> /\ s < Head(buffer).first

SnapshotRefused(s) ==
    /\ coordinator = "RECOVERY_REQUIRED"
    /\ ingestor' = "RECOVERY_REQUIRED"
    /\ UNCHANGED <<validator, coordinator, buffer>>
    /\ UnchangedStores

SnapshotBehind(s) ==
    /\ coordinator # "RECOVERY_REQUIRED"
    /\ Behind(s)
    /\ ingestor' = "AWAITING_SNAPSHOT"
    /\ UNCHANGED <<validator, coordinator, buffer>>
    /\ UnchangedStores

\* The buffer has a hole: none of what was replayed reaches the book.
ReplayGap(s) ==
    /\ coordinator # "RECOVERY_REQUIRED"
    /\ ~ Behind(s)
    /\ Replay(s).gap
    /\ validator' = Replay(s).validator
    /\ buffer' = <<>>
    /\ coordinator' = "RECOVERY_REQUIRED"
    /\ ingestor' = "RECOVERY_REQUIRED"
    /\ UnchangedStores

\* Snapshot and replay reach the book and the chain; the sink may stop at any
\* envelope, which is then in the book and the chain but not on disk.
ReplayAll(s) ==
    /\ coordinator # "RECOVERY_REQUIRED"
    /\ ~ Behind(s)
    /\ ~ Replay(s).gap
    /\ validator' = Replay(s).validator
    /\ buffer' = <<>>
    /\ coordinator' = "LIVE"
    /\ LET applied   == Replay(s).applied
           taken     == SubSeq(applied, 1, Taken(s, applied))
           envelopes == <<SnapshotEnvelope(s)>> \o taken
       IN  \/ /\ book' = BookThrough(SnapshotBook(s), taken)
              /\ chain' = RecordedAll(chain, envelopes)
              /\ sink' = chain'
              /\ ingestor' = IF taken = applied THEN "LIVE" ELSE "RECOVERY_REQUIRED"
           \/ \E n \in DOMAIN envelopes :
                 LET stored == RecordedAll(chain, SubSeq(envelopes, 1, n - 1))
                 IN  /\ MayFail(stored, envelopes[n])
                     /\ book' = BookThrough(SnapshotBook(s), SubSeq(taken, 1, n - 1))
                     /\ chain' = Recorded(stored, envelopes[n])
                     /\ sink' = stored
                     /\ ingestor' = "PERSISTENCE_ERROR"

IngestSnapshot(s) ==
    IF Working
    THEN SnapshotRefused(s) \/ SnapshotBehind(s) \/ ReplayGap(s) \/ ReplayAll(s)
    ELSE UNCHANGED vars

-----------------------------------------------------------------------------
\* A new process: the chain is rehydrated from the sink.
Restart ==
    /\ validator' = Cold
    /\ coordinator' = "AWAITING_SNAPSHOT"
    /\ buffer' = <<>>
    /\ ingestor' = "AWAITING_SNAPSHOT"
    /\ book' = EmptyBook
    /\ chain' = sink
    /\ UNCHANGED sink

Next ==
    \/ StartBuffering
    \/ IngestMalformed
    \/ \E e \in Events : Len(chain) <= MaxChain /\ IngestEvent(e)
    \/ \E s \in SnapshotIds : Len(chain) <= MaxChain /\ IngestSnapshot(s)
    \/ Restart

Spec == Init /\ [][Next]_vars

-----------------------------------------------------------------------------
(* Properties *)

\* The states of the parts are their own; every event that waits is known.
TypeOK ==
    /\ validator \in [state : {"COLD", "READY", "LIVE", "GAP"}, last : Ids \cup {NoId},
                      mode : {"unknown", "present", "absent"}]
    /\ coordinator \in RecoveryStates
    /\ buffer \in Seq(Events) /\ Len(buffer) <= MaxBuffer
    /\ ingestor \in IngestorStates
    /\ book \in [last : Ids \cup {NoId}, ids : SUBSET Ids]
    /\ Range(chain) \subseteq Events \cup {SnapshotEnvelope(s) : s \in SnapshotIds}
    /\ IsPrefix(sink, chain)

\* Whatever a source sends and in whatever order, the book reflects every update
\* up to its last id and none after it: no hole, nothing left of an older book.
BookWhole == book.last # NoId => book.ids = 0 .. book.last

\* A live ingestor has a live coordinator, nothing left in the buffer, and a
\* book that stands where the validator expects the next event.
LiveInStep ==
    ingestor = "LIVE" =>
        /\ coordinator = "LIVE"
        /\ buffer = <<>>
        /\ book.last = validator.last

\* What the sequence check lets through is in the book: while the coordinator is
\* live, validator and book stand at the same id.
AcceptedIsApplied ==
    coordinator = "LIVE" /\ ingestor # "PERSISTENCE_ERROR" => book.last = validator.last

\* Memory and disk agree, but for the one envelope the sink failed to write.
SinkComplete ==
    IF Working THEN sink = chain ELSE Len(chain) = Len(sink) + 1

\* After a failed write nothing more is ingested, and the sink never loses or
\* reorders an envelope, until the process is restarted and ever after.
FailsClosed ==
    [][ /\ IsPrefix(sink, sink')
        /\ ingestor = "PERSISTENCE_ERROR" => \/ UNCHANGED vars
                                             \/ ingestor' = "AWAITING_SNAPSHOT" /\ chain' = sink ]_vars

\* Book, validator, chain and sink stay in step: the book has no hole, stands where
\* the next event is expected, and everything applied is on disk.
IngestorSound == BookWhole /\ LiveInStep /\ SinkComplete
=============================================================================
