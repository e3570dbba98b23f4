------------------------------- MODULE Backups -------------------------------
(* What keeps copies of a profile: backup bundles of the desktop and of the     *)
(* command line, the shadow backups and the candle archive of the maintenance   *)
(* worker, the restore of a bundle and the rebuild of its analytics database.   *)
(* All of them run beside the journal, and beside each other.                   *)
EXTENDS Integers, FiniteSets, Functions

CONSTANTS Savers,     \* callers of the bundle export
          Archivers,  \* callers of the candle archive: worker, HTTP, command line
          KeptTrades, Candles, Paths,
          Retention,  \* seconds a shadow backup is kept
          MaxSeconds, MaxShadows,
          Absent

VARIABLES db,        \* the live database: trades, those with a projection, secrets
          hot, cold, \* old candles in DuckDB; Parquet files: second -> candles
          bundleFiles,   \* path -> the bundle there, or Absent
          saver,     \* where each export stands
          archiver,  \* where each archive run stands
          shadows,   \* the shadow backups
          profile,   \* the restored profile, or Absent
          restore,   \* the bundle the restore verified, or Absent
          past,      \* every state the database was in (history)
          kept,      \* path -> the bundle its exporter was told is saved (history)
          second

backupVars == <<db, hot, cold, bundleFiles, saver, archiver, shadows, profile, restore, past, kept, second>>

Modes == {[force |-> TRUE, desktop |-> FALSE], [force |-> FALSE, desktop |-> FALSE],
          [force |-> FALSE, desktop |-> TRUE]}

ReadyCopy(copy) == copy.covered = copy.trades

BackupsInit ==
    /\ db = [trades |-> {}, covered |-> {}, secrets |-> FALSE]
    /\ past = {db} /\ hot = {} /\ cold = <<>> /\ second = 0
    /\ bundleFiles = [p \in Paths |-> Absent] /\ kept = bundleFiles
    /\ saver = [s \in Savers |-> Absent] /\ archiver = [a \in Archivers |-> Absent]
    /\ shadows = {} /\ profile = Absent /\ restore = Absent

--------------------------------------------------------------------------------
(* The application beside them. *)

\* A trade is saved with its projection, or by a legacy writer without one.
SaveTrade ==
    /\ \E t \in KeptTrades \ db.trades, evidenced \in BOOLEAN :
          db' = [db EXCEPT !.trades = @ \cup {t}, !.covered = IF evidenced THEN @ \cup {t} ELSE @]
    /\ past' = past \cup {[db' EXCEPT !.secrets = FALSE]}
    /\ UNCHANGED <<hot, cold, bundleFiles, saver, archiver, shadows, profile, restore, kept, second>>

\* A legacy credential, a keychain reference or a secret setting is stored.
StoreSecret ==
    /\ ~db.secrets /\ db' = [db EXCEPT !.secrets = TRUE]
    /\ UNCHANGED <<hot, cold, bundleFiles, saver, archiver, shadows, profile, restore, past, kept, second>>

\* A candle older than the retention arrives from a provider.
StoreCandle ==
    /\ \E c \in Candles \ (hot \cup UNION Range(cold)) : hot' = hot \cup {c}
    /\ UNCHANGED <<db, cold, bundleFiles, saver, archiver, shadows, profile, restore, past, kept, second>>

Second ==
    /\ second < MaxSeconds /\ second' = second + 1
    /\ UNCHANGED <<db, hot, cold, bundleFiles, saver, archiver, shadows, profile, restore, past, kept>>

--------------------------------------------------------------------------------
(* create_migration_bundle *)

Saving(s, pc) == saver[s] # Absent /\ saver[s].pc = pc
Stop(s)       == saver' = [saver EXCEPT ![s] = Absent]

BeginSave(s) ==
    /\ saver[s] = Absent
    /\ \E p \in Paths, mode \in Modes :
          /\ bundleFiles[p] = Absent \/ mode.force
          /\ saver' = [saver EXCEPT ![s] =
                          [pc |-> "snapshot", path |-> p, mode |-> mode, copy |-> Absent, cold |-> <<>>,
                           left |-> {}]]
    /\ UNCHANGED <<db, hot, cold, bundleFiles, archiver, shadows, profile, restore, past, kept, second>>

\* SQLite's backup is one coherent state, committed WAL included; secrets are
\* deleted from the copy.
Sanitized(copy) == [copy EXCEPT !.secrets = FALSE]

TakeSnapshot(s) ==
    /\ Saving(s, "snapshot")
    /\ saver' = [saver EXCEPT ![s].pc = "cold", ![s].copy = Sanitized(db),
                              ![s].left = DOMAIN cold]
    /\ UNCHANGED <<db, hot, cold, bundleFiles, archiver, shadows, profile, restore, past, kept, second>>

\* The archive files are copied one by one.
CopyCold(s) ==
    /\ Saving(s, "cold")
    /\ IF saver[s].left = {}
       THEN saver' = [saver EXCEPT ![s].pc = "publish"]
       ELSE \E f \in saver[s].left :
               saver' = [saver EXCEPT ![s].left = @ \ {f},
                             ![s].cold = [g \in DOMAIN @ \cup {f} |-> IF g = f THEN cold[f] ELSE @[g]]]
    /\ UNCHANGED <<db, hot, cold, bundleFiles, archiver, shadows, profile, restore, past, kept, second>>

\* The bug of a publication by rename.
FaultyMayPublish(s) == saver[s].pc = "publish"

\* A hard link refuses a path that exists; --force replaces it.
MayPublish(s) == bundleFiles[saver[s].path] = Absent \/ saver[s].mode.force

\* The desktop's bundle is verified before it is published.
Publish(s) ==
    /\ Saving(s, "publish")
    /\ LET new == [copy |-> saver[s].copy, cold |-> saver[s].cold, desktop |-> saver[s].mode.desktop]
       IN  IF MayPublish(s) /\ (saver[s].mode.desktop => ReadyCopy(new.copy))
           THEN bundleFiles' = [bundleFiles EXCEPT ![saver[s].path] = new]
                /\ kept' = IF saver[s].mode.force THEN [kept EXCEPT ![saver[s].path] = new]
                           ELSE [kept EXCEPT ![saver[s].path] = IF @ = Absent THEN new ELSE @]
           ELSE UNCHANGED <<bundleFiles, kept>>
    /\ Stop(s)
    /\ UNCHANGED <<db, hot, cold, archiver, shadows, profile, restore, past, second>>

\* The user cancels, the desktop is closing, or a step raises: staging and temporary file are removed.
Cancel(s) ==
    /\ saver[s] # Absent /\ Stop(s)
    /\ UNCHANGED <<db, hot, cold, bundleFiles, archiver, shadows, profile, restore, past, kept, second>>

--------------------------------------------------------------------------------
(* restore_migration_bundle and rebuild_duckdb_projection *)

VerifyBundle ==
    /\ restore = Absent
    /\ \E p \in Paths : bundleFiles[p] # Absent /\ ReadyCopy(bundleFiles[p].copy) /\ restore' = p
    /\ UNCHANGED <<db, hot, cold, bundleFiles, saver, archiver, shadows, profile, past, kept, second>>

\* The archive is opened again, each member checked against its manifest and the
\* staged database verified once more; an older profile is moved aside.
StagedIsReady(p) == ReadyCopy(bundleFiles[p].copy)

RestoreBundle ==
    /\ restore # Absent /\ restore' = Absent
    /\ profile' = IF StagedIsReady(restore)
                  THEN [copy |-> bundleFiles[restore].copy, olap |-> {}] ELSE profile
    /\ UNCHANGED <<db, hot, cold, bundleFiles, saver, archiver, shadows, past, kept, second>>

\* The hydrator refuses a database whose projections do not cover its trades, and
\* takes over every trade of one that does.
Hydrated(copy) == IF ReadyCopy(copy) THEN [ready |-> TRUE, trades |-> copy.trades]
                  ELSE [ready |-> FALSE, trades |-> {}]

RebuildOlap ==
    /\ profile # Absent /\ Hydrated(profile.copy).ready
    /\ profile' = [profile EXCEPT !.olap = Hydrated(profile.copy).trades]
    /\ UNCHANGED <<db, hot, cold, bundleFiles, saver, archiver, shadows, restore, past, kept, second>>

--------------------------------------------------------------------------------
(* The maintenance worker *)

\* verify_sqlite_restore: the copy is restored elsewhere and hydrated from.
RestoreDrill(copy) == Hydrated(copy).ready

\* A shadow backup is taken and tried out on a copy; old ones are pruned whether
\* it verified or not.
ShadowBackup ==
    /\ Cardinality(shadows) < MaxShadows
    /\ shadows' = {b \in shadows : second - b.at <= Retention}
                     \cup {[at |-> second, verified |-> RestoreDrill(db)]}
    /\ UNCHANGED <<db, hot, cold, bundleFiles, saver, archiver, profile, restore, past, kept, second>>

Archiving(a, pc) == archiver[a] # Absent /\ archiver[a].pc = pc

\* The archive counts what is old, exports it to a file named after the second,
\* and deletes what is old then: three statements without a transaction.
CountOld(a) ==
    /\ archiver[a] = Absent /\ hot # {}
    /\ archiver' = [archiver EXCEPT ![a] = [pc |-> "export", file |-> second]]
    /\ UNCHANGED <<db, hot, cold, bundleFiles, saver, shadows, profile, restore, past, kept, second>>

ExportOld(a) ==
    /\ Archiving(a, "export")
    /\ cold' = [f \in DOMAIN cold \cup {archiver[a].file} |->
                   IF f = archiver[a].file THEN hot ELSE cold[f]]
    /\ archiver' = [archiver EXCEPT ![a].pc = "delete"]
    /\ UNCHANGED <<db, hot, bundleFiles, saver, shadows, profile, restore, past, kept, second>>

DeleteOld(a) ==
    /\ Archiving(a, "delete")
    /\ hot' = {} /\ archiver' = [archiver EXCEPT ![a] = Absent]
    /\ UNCHANGED <<db, cold, bundleFiles, saver, shadows, profile, restore, past, kept, second>>

--------------------------------------------------------------------------------
BackupsNext ==
    \/ SaveTrade \/ StoreSecret \/ StoreCandle \/ Second
    \/ \E s \in Savers : \/ BeginSave(s) \/ TakeSnapshot(s) \/ CopyCold(s)
                         \/ Publish(s) \/ Cancel(s)
    \/ VerifyBundle \/ RestoreBundle \/ RebuildOlap \/ ShadowBackup
    \/ \E a \in Archivers : CountOld(a) \/ ExportOld(a) \/ DeleteOld(a)

BackupsSpec == BackupsInit /\ [][BackupsNext]_backupVars

--------------------------------------------------------------------------------
(* Properties. *)

\* A bundle holds one state the database was really in, without its secrets, and
\* the desktop's only one that can be restored; what an export answered as saved
\* is still there unless --force replaced it; and a restored profile holds one
\* state of the journal, covered by its projections, whatever became of the
\* bundle between its verification and its extraction.
BackupHonest ==
    /\ \A p \in Paths : bundleFiles[p] # Absent =>
          /\ bundleFiles[p].copy \in past
          /\ bundleFiles[p].desktop => ReadyCopy(bundleFiles[p].copy)
          /\ bundleFiles[p] = kept[p]
    /\ profile # Absent => /\ profile.copy \in past /\ ReadyCopy(profile.copy)
                           /\ profile.olap \in {{}, profile.copy.trades}

\* "Exports market candles / ticks older than retention_days to ZSTD Parquet cold
\* storage, deletes archived rows": no candle is deleted without its export.
ArchiveLosesNothing == [][hot \cup UNION Range(cold) \subseteq (hot \cup UNION Range(cold))']_backupVars
================================================================================
