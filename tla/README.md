# Kuantra Terminal: verification

TLA+ models of the parts of Kuantra Terminal that keep durable state or run
concurrently, TLC runs that check them on small instances, and TLAPS proofs of
what matters most for every value of the constants. `PROJECT.json` maps
every definition to the lines it models.

## 1. The system

Kuantra is a local trading journal: a FastAPI backend inside a desktop window
(or a command line), a canonical SQLite file, a DuckDB copy for analytics, and
services that import, observe, correct, review and export trades. One process at
a time owns a profile; inside it request handlers run in a thread pool,
background tasks in asyncio loops, and the window in a thread of its own. Shared
state is therefore what meets in SQLite transactions, in module-level caches, in
the operating system's keychain, and in files that a kill may leave half done.

| Component | State | What makes it correct | Why that is hard |
|---|---|---|---|
| Evidence ledger `evidence_ledger_repo.py` | append-only events, a hash chain per account and day | chains never fork, an identity is stored once, an answer is true and durable | concurrent writers, batches that fail half way, retries after a lost answer |
| Ledger verification, same file | the cached result of `verify_chain`, three fields | valid is said only of rows that were read and found sound | threads share the fields without a lock, the ledger grows meanwhile |
| Trade journal `sync_pipeline.py`, `trade_edit.py`, `sqlite_driver.py`, handlers | rows with a revision, their events, a projection, a DuckDB copy | row, event and projection are one; a change computed from an old read is refused | handlers read before the transaction; some writers name no revision; legacy rows are backfilled |
| Local tracking `local_tracking.py`, `local_tracking_monitor.py` | plans as events of the ledger, quotes in memory | close evidence is for ever, nothing closes twice or on a quote older than the plan, stale editors are refused | plans, journal edits, manual closes and the monitor interleave; quotes age, a unit is withdrawn |
| Depth ingestor and session `binance_depth_{sequence,recovery,ingestor,payload,transport,session}.py` | validator, buffer, book, event chain; tasks and a bounded queue | no holes, live only in step, durable before believed; a cycle returns | gaps, overlaps, lagging snapshots, a full buffer or queue, cancellation |
| Segment sets, evidence root `market_event_segment{,s}.py`, `binance_depth_{report_archive,key_registry,review_record,evidence_bundle}.py` | segment files and a manifest; stores of reports, attestations, reviews, keys | what was acknowledged is there after a crash; a root opens only when whole | kills between any two writes |
| Candles `candles_repo.py`, quotes `quote_refresh.py` | cached bars; cached prices with pauses | a chart is not older than its cache; fresh means of the last minute | requests overlap, providers fail, clocks run |
| Matching engine `order_book.py`, portfolio `portfolio_service.py` | a simulated book; figures of the journal | size and time priority are kept; every page shows one result | long sequences of calls; the same figure is computed in four places |
| Imports, alerts `csv_importer.py`, `webhook_tv.py` | rows of the journal, observations | what was answered is stored, an alert becomes a trade once | a transaction per row; two confirmations |
| Broker sync, import, inbox `read_only_broker_sync.py`, `broker_import_service.py`, `broker_observation_repo.py`, `reconciliation_inbox.py` | observations and decisions as events | a snapshot called complete is; coverage is never claimed that was not earned | pages change while they are read; retries; late fills |
| Economic evidence `economic_trade_grouping.py`, `economic_evidence_propagation.py`, `account_reconciliation.py` | grouped orders and fills with revisions, statements | one linear lineage, corrections lead, repetition is harmless | documents arrive in any order and again |
| Risk policies, playbooks, weekly reviews `risk_policy_service.py`, `playbook_service.py`, `weekly_review.py` | versioned rows and events | every decision rests on the version then in force and on evidence of its own | two rows per decision; the same decision twice; late evidence |
| Replay, exports `replay_service.py`, `journal_export.py`, `evidence_pack_export.py` | pinned sessions; pages | the plan shown for a bar is the recorded one of that bar; nothing left out | trades are written between two pages |
| Paper orders and gates `ccxt_engine.py`, `risk_interceptor.py`, `compliance_engine.py`, `panic_switch.py` | paper rows, watermark, kill switch | no fill without a cleared risk check | checks and fills of several requests interleave; restarts |
| Credentials `credentials_manager.py`, `credential_store.py` | two secrets and a row | kept as saved or gone | two stores, no transaction, calls overlap |
| Backups, bundles, archive `local_backup.py`, `macos_migration.py`, `db_maintenance.py` | copies of the database | a published copy is a state the database was in | copies are taken while writes go on, and may be cut |
| Desktop restore `desktop_restore{,_commit}.py`, `profile_safety.py` | an operation journal, directories beside the profile | it runs only on the generation promised, none is lost | kills, power loss, failing syncs, programs that ignore the lease |
| Schema upgrade `macos_migration.py` | a legacy file and its staged successor | no journal entry is lost | exceptions and kills between file moves |
| Desktop shell `desktop/runtime.py`, `bridge.py`, `push.py` | a loop in a thread, calls in flight, a push channel | exit is clean and comes; the newest tick is shown | two closers, calls submitted while the loop is torn down |

What is left is stateless, optional or generated; `PROJECT.json` lists every
component with its status and the reason, and the hazards of the code with the
line at which each bites and the properties that cover it.

Interaction. Every writer of evidence ends in the append path of the ledger. The
journal's transaction writes row, event and projection and copies the row to
DuckDB afterwards; tracking, imports, the inbox and the restore of a size write
through that transaction. The depth session drives the ingestor, which writes to
a segment set, whose finished captures enter the evidence root. The bridge
passes calls of the window to the loop in which everything else runs.

## 2. Modules

| Module | Models | How state and actions correspond |
|---|---|---|
| `EvidenceLedger` | append path of the ledger | `committed` is the table; a writer begins (`BEGIN IMMEDIATE`), appends commands to what it sees, commits or rolls back, then answers; losing the answer makes it retry. A digest is the record it covers. |
| `LedgerVerifier` | `verify_chain` and its cache | a call reads the fields of the cache, then the rows, then writes the fields, one field at a time; a `close` clears them the same way; the ledger grows and is altered meanwhile. |
| `TradeJournal`, `AtomicJournal` | journal, projection, copy, maintenance; the journal it implements | a request reads, classifies, commits and synchronises, one step each; a transaction is one step. `AtomicJournal` is a journal that changes a row in one step or refuses. |
| `LocalTracking` | plans and monitor | `history[t]` are the tracking events of a trade; a client loads, then submits a plan, a close or a journal edit; the catalog may come to know a unit or lose it; the monitor lists, fetches and observes trade by trade. Prices are levels around the entry, a clock stands for the time stamps. |
| `DepthIngestor`, `DepthSession` | validator, recovery, book, chain, sink; the tasks of a cycle and the reconnect loop | each handler of the ingestor is one step; tasks step from await to await, cancellation is delivered at an await, the queue is a bounded sequence. |
| `MarketSegments`, `DepthEvidence` | segment sets; the evidence root | each write that can be cut is a step; opening reads what is there. |
| `CandleCache`, `QuoteCache` | chart bars; display quotes | a request plans, fetches, stores and answers; threads share the entries. |
| `OrderBook`, `Portfolio` | matching engine; figures | a call of the book is one step; figures are operators over the rows. |
| `Imports`, `Reconciliation` | files and alerts; broker snapshots, imports, inbox | one transaction per row; one step per page or attempt. |
| `Propagation`, `AccountEvents` | economic evidence; statements | grouping and coverage are operators over sets of documents, storage is steps. |
| `Records`, `TradeReview`, `JournalExports` | policies, playbooks, weekly reviews; replays; exports | single transactions and what a caller saw before them; an event of the ledger has its time, and one whose key is taken with another time or content makes the transaction fail; a frame carries the recorded plan of its bar, the plan reference and the exit; an export reads page by page. |
| `PaperTrading`, `Credentials`, `Backups` | orders and gates; secrets; copies | each read, check and write of a request is a step of its own. |
| `RestoreCommit`, `SchemaUpgrade` | restore protocol and boot guard; the staged upgrade | every system call that can fail or be interrupted is a step; `live` is what programs see, `disk` the states a power loss may leave. |
| `DesktopShell` | loop thread, calls, evidence jobs, push channel, shutdown | threads step from one lock, queue operation, future or join to the next; a step of the loop that holds a message for a full queue blocks the loop's other work. |
| `…Proofs` | theorems (section 5) | |

`MCEvidenceLedger`, `MCTradeJournal`, `MCLocalTracking` and `MCDepthSession`
instantiate one component each. `MCMarket`, `MCDesk`, `MCCustody` and `MCShell`
check several components that share no state: a variable `focus` names the one
that moves in a behaviour while the others stay in one initial state, so a run
reaches exactly the states the components reach one by one. Definitions named
`Faulty…` are variants of a mapped definition with a plausible bug; each property
of a passing run was seen to fail when one of them replaces the original.

Choices that widen the behaviours: asyncio tasks interleave more freely than the
event loop schedules them; the restore lets any call fail at any step; threads of
the journal stop between any two of their reads. Choices that narrow them: legacy
rows are there from the start, a new trade takes an unused id (the code takes the
millisecond), plans watch one quote, chains are in commit order (a clock that
does not step back), and a restore's confirmation token and expiry are the
operator not acting.

## 3. Runs

| Run | Shows |
|---|---|
| `ledger` | two writers, batches of two, rollbacks, crashes and restarts: `LedgerIntact` (unforked, linked, unique), `AckedDurable`, `AnswersTrue`, `AppendOnly` |
| `journal` | two threads on one trade, new or legacy, with restarts, backfill and rebuild: `JournalSound` (every row rests on an event of its own kind, one legacy snapshot per trade) and `ImplementsAtomicJournal`, the refinement of `AtomicJournal` |
| `journal_open` | one thread, two trades and every kind of write: `ShownSound` (projection and DuckDB show the rows when nothing is in flight), `CoverageKept` |
| `tracking` | two trades on one quote, a client against the monitor: `TrackingSound` (readable lineage, closes within the allocation and after arming), `ClosuresKept`, `StalePlanRefused` (of one client), and under fairness `HitIsTaken`: a target or stop the quote has reached is closed, unless the close of that trade or of one before it cannot be recorded (a plan that is stuck, as in run `tracking_stuck`) |
| `session` | cycles with a one-slot queue, refused payloads, gaps, reconnects, stops: `SessionSound` (`AcceptedIsApplied`, `CompletedIsCurrent`, `SinkCoversBook`), and under fairness `ReturnsOrHangs`, `SessionEnds` |
| `market` | `ChartIsCurrent`; `IngestorSound` (`BookWhole`, `LiveInStep`, `SinkComplete`) and `FailsClosed`; `AckedIsStored`; `RootsSound`; `MatchingSound`; `PortfolioSound` |
| `custody` | `FillsWereCleared` (no paper fill without a cleared check), `KeptOrGone` (credentials), `BackupHonest`, `ValidMeansProven` (ledger verification) |
| `shell` | `RestoreSound` (runs on the promised generation, ended means durable, nothing lost), `RestoreEnds`, `ShellSound`, `ShutDownEnds`, `QuotesHonest`, `RefreshEnds` |
| `desk` | `ImportsSound`, `BrokerEvidenceSound`, `PropagationSound`, `AccountEvidenceSound`, `RecordsSound` (versions, checklists and decisions with their evidence; the limit for orders with a stop loss), `ReviewSound` (every frame shows the recorded plan of its bar, a closed trade one unbroken run of minutes), `ExportsSound`, `UpgradeKeepsJournal` |

Three runs expect a violation, each of a statement of the repository that the
code breaks:

| Run | What happens |
|---|---|
| `journal_upgrade` | the first write to a backfilled legacy trade gives it a second projection row, and the coverage gate stays closed |
| `tracking_stuck` | save, save, correct the size: the next key is taken, the plan can never be saved or closed again |
| `depth_hang` | a cycle that ends early while the queue is full never returns |

Further disagreements. The properties below are in the modules but in no run; each
quotes or paraphrases a statement of the code or its docs and was seen to be
violated by listing it in the configuration of its component (with the change
named, if any).

| Module | Property | What happens |
|---|---|---|
| `MarketSegments` | `CrashIsNotHidden` | a line whose append did not return is read on reopening |
| `DepthEvidence` | `AckedIsReadable` | a kill between a report and its manifest line makes every strict opening fail |
| | `CreatedVerifies` | a bundle that was created need not verify |
| `DepthSession` | `CompletedIsCurrent` without `~ poisoned` | a cycle ends COMPLETED after dropping events around a malformed payload (`binance_depth_ingestor.py:129`) |
| | `AcceptedIsApplied`, `Derivatives = TRUE` | on a stream with previous ids the book refuses the first event after a snapshot that the validator accepts (`binance_depth_payload.py:198`) |
| `CandleCache` | `RangeIsWhole`, `BarsEnd` | a range with holes is answered from the cache; a bar fetched complete is shown as it was before |
| `QuoteCache` | `FailuresCool` | some failures are followed by no pause |
| `OrderBook` | `RestingIsCancellable` | an identifier used twice leaves an order that no cancel finds |
| `Portfolio` | `ScorecardAgrees` | the scorecard's drawdown takes the trades in another order |
| `TradeJournal` | `JournalSound` with `"import"`; `ImplementsAtomicJournal` with `"correct"` or `"resize"` | the backfill gives an imported trade a second snapshot (`evidence_ledger_repo.py:1199`); an inbox correction changes a row without a new revision (`reconciliation_inbox.py:541`); an edit that closes and resizes computes the result from the old size (`trade_edit.py:395`) |
| | `OlapReplica` with two threads; without `~ Reviewed(t)` | two commits reach DuckDB in the opposite order (`sync_pipeline.py:70`); an inbox correction never does |
| `LocalTracking` | `StalePlanRefused` with two clients | a reset restarts revisions at 1, so a plan loaded at revision 1 before it is accepted after it (`local_tracking.py:317`) |
| | `NoTradeStarves` | a stuck plan raises in every poll, which ends before the later trades of the quote (`local_tracking_monitor.py:120`) |
| `Imports` | `ImportIsWhole`, `DuplicateSkipped` | a file is imported in part; a repeated import undoes what the user made of a trade |
| `Reconciliation` | `ResyncAccepted`, `DecidedOnce` (two deciders) | importing the same bytes again is a conflict once an order has moved on; two terminal decisions of one review are both stored |
| `Propagation` | `ReplayKeepsResult` with `Partial = TRUE`, `CorrectionRecordable` | a replayed part changes the result shown; a second correction cannot be recorded |
| `AccountEvents` | `CorrectionOnce` | a late correction imported again is stored again |
| `Records` | `LimitHolds` | "Real-time Max Risk % per trade guard" (`RELEASE_NOTES.md:187`): the limit is compared only with orders that have a stop loss; of the others a nominal 5 % is put on record and compared with nothing (`risk_guard.py:206`) |
| | `DecisionsAreIdempotent` | "Append an idempotent RiskEvaluated event for one guard decision." (`risk_policy_service.py:402`): the key is the decision, the time of occurrence is now (`:425`), and paper orders name neither time nor id (`ccxt_engine.py:146`); the same order decided again later conflicts with its own evidence and is refused as ORDER_REJECTED_RISK_EVIDENCE_UNAVAILABLE |
| | `LastDecisionShown` | of two decisions the one answered last is not the one shown |
| `TradeReview` | `OutcomeHidden` | the frame names the exit before the replay has reached it |
| | `ReferenceHidden` | every frame carries the plan that was current when the session was created, labelled a reference, also on bars from before it was recorded (`replay_service.py:97`, `:206`) |
| `JournalExports` | `CountedOnce`, `ExportIsComplete` | a trade written between two pages is listed twice, or another is skipped |
| `SchemaUpgrade` | `SwapIsAtomic` | a kill between the moves leaves Kuantra an empty journal until the upgrade is repeated |
| `PaperTrading` | `LockdownHolds`, `CancelsOnlyOpen`, `BreachIsReal`, `FillIsKept` | a route that does not ask the kill switch fills; a closed trade is cancelled; a shield is breached at a new high; two fills share an id |
| `Credentials` | `NoSecretWithoutReference`, `FailedSaveChangesNothing`, `OnboardingIsWhole` | overlapping or failing calls leave a secret without a row, lose what was saved before, or complete a boot without its secret |
| `Backups` | `ArchiveLosesNothing` | candles written between export and deletion are deleted without their export |
| `LedgerVerifier` | `NoFalseAlarm` | threads that share the cache call an untouched ledger invalid |
| `DesktopShell` | `NoWaitOnDeadLoop`, `StoppedNotSubscribed` | a call submitted while the loop is torn down waits for ever; a stopped channel subscribes again |
| `RestoreCommit` | `EndedIsDurable` without the premise `ordered` | after a failed directory sync `recover` reports a restore applied whose rename was never synced (`desktop_restore_commit.py:104`) |

## 4. Bounds, deadlock and fairness

* Ledger: two writers are enough for every race on one chain, since a third only
  repeats the role of either; two commands make a batch that can fail half way;
  two days make two chains.
* Journal: two threads, one trade and up to four events reach read, read, commit,
  commit with a maintenance run before and after. Two trades appear where they
  interact (full sync, coverage).
* Tracking: two targets and a stop, a quote that may reach each of them, two
  client-made events plus the closes they cause, two quantities for a resize; the
  journal has one edit left for the first trade and none for the second, whose unit
  and quote still move. The run is taken twice (`long`): with all requests and
  prices, and with a third event, the fewest with which a plan becomes stuck, but
  without closes by hand, withdrawn units, quotes that reach the second target and a
  choice of the first size.
* Records: one order with and one without a stop loss, two limits, two instants: a
  decision or an audit can be repeated at once and later. They are taken twice, with
  orders and with playbooks, which share only the ledger. Reviews: three
  minutes and two revisions of a plan, recorded before or after a session is created.
* Depth: update ids up to 4, a buffer of 2 and a queue of 1 reach overflow, a full
  queue, overlap and gap; two reconnects reach exhaustion.
* Shell: a queue of one message, batches of two and two ticks reach a queue that
  loses its oldest message before or after the flush thread takes it. The shell is
  taken twice, with the ticks and the calls of one thread but no jobs, and with the
  jobs of two threads and a table of one but neither ticks nor calls: jobs share no
  state with ticks and calls, only the clean-up, which both contain.
* Restore: two operations cover a repeated restore; two faults, a fault during the
  recovery from a fault.
* Pages of one and two rows, two callers and two or three trades, orders,
  statements or documents for the rest: the least with which a page has a
  successor, a caller is overtaken, and a second thing has its own history. What
  a file, a document or an order holds is chosen in the MC modules so that every
  kind of conflict occurs (a repeated place, a fill before its order, a row that
  differs in one field, an identifier used twice).

Every bound is named (`Max…`, `SegmentSize`, `PageLimit`, `Slots`, `Retention`).
Deadlock is checked for the ledger and the journal. Elsewhere the modelled part may
come to rest: a session that has ended, plans that are all closed at the clock's
bound, a bounded number of calls, a shell that has exited, and a restore whose
first `select` died between `mkdir` and its first journal write (application,
`recover` and `select` all refuse: a real dead end, listed as a hazard).

Symmetry is used for callers, trades and sizes that no definition tells apart,
and never in a run with a liveness property.

Fairness, where a run needs it:

* `FairSession`: weak fairness of each task, because the event loop runs every
  ready task, and of the fetch and the next frame, which the client bounds by
  timeouts. No fairness is given to stops or to failing.
* `LocalTracking!FairSpec`: weak fairness of the poll, which `_run` repeats for
  ever. Clients and time owe nothing; a failing provider is a missing quote.
* `MCFairSpec`: a running restore call proceeds, and an operator whose application
  refuses to start repeats `recover` (kills and power losses are bounded, not
  excluded); a thread that closes the shell proceeds, the main thread closes once
  the window has gone, and the process exits when nothing is left to wait for; a
  worker of the quote pool proceeds, its requests being bounded by timeouts.

## 5. Proofs

All proofs hold for every value of the constants under the named assumptions of
the modules, which are what their declarations say (non-empty or numeric bounds,
distinguished values outside the sets).

**`EvidenceLedgerProofs`**: `TypeCorrect`, `LedgerStaysIntact`, `AckedStaysRecorded`,
`AnswersStayTrue`, `LedgerIsAppendOnly`. That a commit keeps the chains whole
depends on what an open transaction has staged, and on nobody else having staged
anything. The invariant is `LockInv` (at most one writer is in a transaction and
only it has a draft), `RowsInv` (the rows as its transaction sees them are
intact and extend the committed ones) and `AnswerInv` (what a writer is about to
answer is in the rows it sees). The three properties are `RowsInv` and `AnswerInv`
seen from outside a transaction; `AppendOnly` follows because every draft extends
the committed rows.

**`TradeJournalProofs`**: `JournalIsSound` and `JournalIsAtomic`, for any trades,
threads and sizes, where every request names the revision it read (`Requests
\subseteq Revisioned`). The hypothesis is needed: writers without a revision
(inbox corrections, alert confirmations, imports, edits that resize) really break
both, see section 3. The invariant says that a row is what the last event of its
trade recorded, that the revision of a row only grows, and what each phase of a
request knows: the row it read has the revision it will name, so that an equal
revision at the commit means the row read is the row there is. `JournalIsAtomic`
then maps each commit to the one step of `AtomicJournal` that has its name and every
other step to a stutter.
`CoverageIsKept` and `JournalIsShown` are about every kind of request, with or
without a revision. The invariant no longer knows what a request has read; it says
that whatever it writes is a row (`StoresInv`), that the projection shows an event
of the row (`ShownInv`) and that nothing is projected for the legacy venue
(`NoLegacyInv`), as long as the application is not stopped or every trade has
evidence of its own: a backfill between two writes really loses the coverage, see
section 3. For one thread `ReplicaInv` adds that each row is in DuckDB or on its way
there: with a second one, or a crash before the copy, it need not be.

**`LocalTrackingProofs`**: `LineageStaysSound`, `ClosesAreTimely`,
`CloseEvidenceIsKept`, `StaleIsRefused`. A history is *good* when it reads back as
`_load` demands, its states have the shape of a plan, and its closes come after
what armed them; each of the four ways to record (a plan, a reset, a manual close,
a close on a quote) extends a good history to a good one. `StaleIsRefused` adds
that a waiting request was overtaken by as many events as revisions lie between
the one it expects and the current one. It needs `NoForeignReset` (one client, or
no journal edits): a reset by another client restarts the revisions at 1 and
really lets a stale plan through, see section 3.

**`CustodyProofs`**, five components that share no state. `AnswersAreProven`
(ledger verification): threads write the three cache fields one by one, so no
combination of them can be trusted; the invariant says of each field alone that
the rows it stands for were once read and found sound, that the ranges a thread
skips hold only such rows, and that chains never shrink. `CredentialsAreKept`: a
call that is alone shares the keychain with no writer (`AloneInv`); then each of
its phases knows which of the two secrets already is what it will leave.
`BackupsAreHonest`: every copy that exists under a published name is a state the
database was once in, and what is still being written has not been published.
`FillsAreCleared` (paper trading): a day is lost when the sum of its closed profits
passes a limit, so the proof needs sums over finite sets: `SumsExist` and
`TotalRecursion` show, for the fold the model uses, that the sum exists and that one
row more adds its value. `DeskOk` then says of each phase of a request that what it
will call cleared was checked against a day that since was not lost, or was changed.
`RootsAreSound` (`RootsSound` of `DepthEvidence`): a manifest that parses has only
grown since anybody read it (`LogGrows`), for a line that meets torn text is lost
but leaves a manifest that never parses again. So what a command has read is still
there when it writes (`RunOk`), and its review rests on an attestation it has seen;
and since a bundle hashes every manifest before it copies any, the reviews it was
hashed with rest on the attestations copied later (`BundlingOk`). How far a command
is follows from the steps it has left (`NextStep`).

**`ShellProofs`**. `ShellIsSound`: the newest tick since a window subscribed is
shown, on its way or in the queue, and who leaves has seen the clean-up complete.
The invariant says where the newest tick is: in the hand of the loop while the
queue is full, else last in the queue, last in the batch once the queue is empty,
or shown once the batch is; and that each stage of a closer implies what the
stages before it did, and that it holds the lock. `QuotesAreHonest`: the age
of every quote on its way, in a task or in the cache, is bounded by the time at
which it was an event. `ChartsAreCurrent`: no bar in the cache is later than now,
whoever stored it, so a bar of the current slot survives every cut to the newest.

**`RestoreCommitProofs`**: `RestoreTyped`, `RestoreIsSound` and `EndsAreFinal`, for
any number of operations, edits, faults and outside changes, on a file system
that keeps metadata in order and on one that does not. The invariant has six
parts. `StepInv` and `PhaseInv`: which steps a call goes through and which phase
the journal has at each, before and after the step has written its own. `PlaceInv`
and `SyncInv`: what is at the names it is about to move, and that a rename happens
only under a journal that is on the disk (every snapshot a power loss may leave
has it), the candidate's only once the directories are. `KeepInv`: no name that a
power loss may bring back hides a generation another one has shown. `FitInv`: a
journal at rest comes with the profile it promises; it holds while that can be
known (`Certain`: metadata in order, or nobody else has changed anything), and in
the other case `LooseInv` relates the snapshots a power loss may combine to each
other. `EndsAreFinal` needs one fact more: what every process reads in the journal
is something the disk may keep (`OnDisk`); then an operation whose end is on the
disk has it in every snapshot, and the only phase written from a final one is the
`INTENT` of the next operation.

**`DeskProofs`**, four components that share no state. `RecordsAreEvidenced`: an
event of the ledger is never lost or changed (`Told`), so what a version, a checklist
or a decision rests on stays. An append that finds its key taken is accepted only
when the event there has the same content and the same time; either way the ledger
then has that very event, and in the other case nothing of the transaction stays
(`RolledBackStep`). So an approval has evidence of its own moment, and a checklist
the time of its event. `CallOk` says of each phase of a call what it has read that
stays true: versions are never rewritten, so what a user saw of one holds at the
commit, and only the current version may have moved. That the limit is kept follows
only for orders with a stop loss, see section 3. `UpgradeLosesNothing`: `UpgradeOk` says, for each step of the
command, what it knows of the file it found, of its staged copy and of what it moved
aside, so that an exception can put the old file back and a kill between the two
renames leaves it aside. `ReviewsAreHonest` (`ReviewSound`): every session holds a
finite set of minutes with its cursor inside, so the bar of a frame is there; the
revisions a session has read are the first of the plan, and those recorded since
are not older than any bar it holds, so none of them belongs to one of its frames;
and a closed trade keeps with each minute those between it and the trade, so its
minutes are one run.
`BrokerEvidenceHolds` (`BrokerEvidenceSound`), for any orders, page limits, bounds
and changes of the account between two pages: what was in the window when a
collection began is collected or lies at the cursor or behind it (`PagingOk`), so a
short page completes it. An order is read before its fills, so its quantity is at
most the fills the broker had when their collection began (`RowsOk`); those were all
collected; and a document without a dispute has exactly as many fills as the
quantity says, so the three are equal. For the coverage, what a ledger says up to
an entry stays so when the ledger grows (`ObservationsStay`).

**`DepthProofs`**, for any events, snapshots and sizes of the buffer, the queue, the
budgets and a segment. The model folds a step over buffers and chains, so the proof begins
with folds: that there is one (`FoldsExist`) and what one element more adds
(`FoldRecursion`), by the smallest set of indices for which it is not so. Then:

* `IngestorIsSound` and `IngestorFailsClosed`. A book that takes accepted events one
  after the other has no hole, and recording extends a chain or leaves it; the
  invariant adds that a live coordinator has an empty buffer, whatever the ingestor
  reports.
* `SessionLosesNothing` (`CompletedIsCurrent` and `SinkCoversBook`) for every stream, and
  `SessionIsSound` (all of `SessionSound`) for streams without previous ids: on the
  others `AcceptedIsApplied` is really false, see section 3. `Aligned` says where the
  validator, the book and the chain stand relative to each other in every state of
  the coordinator; `Pipes` and `InOrder` that the sentinel is the last thing a
  cycle puts and takes; `Flow` that the last event of the connection is held by the
  producer, last in the queue, or the last the ingestor was given. A cycle that
  ends completed has an empty queue, so the ingestor has seen it.
* `AckedStaysStored` (`AckedIsStored` of `MarketSegments`, for any segment size, events
  and places where the process stops or a write fails). `SegmentsInv` says how far
  the disk may be ahead of the manifest: not at all, one line in the last segment,
  or one file with at most one line, and that only when the segment before it was
  full; so a set that opens serves what was acknowledged, and a rotation finds
  what a former process left in its place. It rests on what `FlattenSeq` adds for
  one segment or one line more (`FlatMore`, `FlatFile`, `FlatLine`).

Assumptions added for these: `NoJournalAssumption` (the value for no journal is
none), that the rows of `PaperTrading` and the reports prepared in `DepthEvidence` are
finitely many, that the sentinel of
`DepthSession` is no event and no malformed payload (in the code it is a fresh
object), that the value for a missing manifest is no manifest, that no file of `SchemaUpgrade` is the value for no file, and that a chart
asks for at least one bar (`endpoints.py:2528`).

Only model-checked: everything under fairness (`SessionEnds`, `ReturnsOrHangs`,
`Recovers` in `RestoreEnds`, `ShutDownEnds`, `RefreshEnds`, `HitIsTaken`), which
needs liveness reasoning that the prover does not do; `ClosesAreValid` and
`AllocationKept` (sums over a plan's closures, which the model takes along a
sequence), and with them the whole of `TrackingSound`; the figures of `Portfolio`
and the volumes of `OrderBook` (folds over sequences); and the properties of the
components that have no proof module (`Imports`, `Propagation`, `AccountEvents`,
`JournalExports`).

## 6. Not modelled

JSON canonicalisation, hashing, signatures and field validation (a digest is the
term it covers); decimal arithmetic; parsing of files and payloads; network
framing and back-off delays; layout of reports; bundle verification and the content
policy of a restore (an outcome); a wall clock that steps back in the ledger; one
update id of an exchange with two contents (`market_event_envelope.py:225`); in the
economic grouping the position mode and the reason SOURCE_IDENTITY_INCOMPLETE
(`economic_trade_grouping.py:660`). A review reads the plan reference and the
revisions of the plan in one step, which the code does one after the other. Live
orders are refused by every endpoint and left out. Components without a module
(analytics queries, quant studies, telemetry, optional tools, the web frontend,
packaging) are listed with their reason in `PROJECT.json`.

## 7. Plan

Worth proving next, each checked by a run already:

1. `LocalTracking`: `AllocationKept`, with the folds of `DepthProofs`.
