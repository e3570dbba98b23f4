----------------------------- MODULE SchemaUpgrade -----------------------------
(* The upgrade of a legacy journal file (upgrade_sqlite_schema): the command     *)
(* checks the file, copies it, upgrades, backfills and projects the copy, checks *)
(* that, moves the old file aside and the copy into its place.  Every step may   *)
(* raise, the process may be killed between any two, and Kuantra is then started *)
(* again.  The command line holds the lease of the profile, so Kuantra doesn't    *)
(* run beside it.  One call fails in a run of the command at most: the move back *)
(* after a failed promotion succeeds, and a kill stands for one that doesn't.    *)
(*                                                                               *)
(* A database is a record of its schema version, its trades, the trades with     *)
(* evidence, the trades with a projection, and the trades only its WAL holds.    *)
EXTENDS Integers, Sequences, FiniteSets

CONSTANTS Trades,     \* identities of trades
          Malformed,  \* the trades whose legacy snapshot the ledger refuses
          Versions,   \* the schema versions of the files in the field, 0 an unknown one
          MaxStarts,  \* how often Kuantra is started
          MaxRuns,    \* how often the command is run
          NoFile

Current == 8

JournalFiles ==
    [version : Versions \cup {Current}, rows : SUBSET Trades, evidenced : SUBSET Trades,
     projected : SUBSET Trades, wal : SUBSET Trades]

ASSUME UpgradeAssumption == NoFile \notin JournalFiles

VARIABLES target,   \* the database at the journal's path, or NoFile
          aside,    \* the databases moved aside, oldest first
          work,     \* the staged copy, NoFile when there is none
          pc,       \* where the command stands
          found,    \* the database the command started from
          answer,   \* what it answered last
          written,  \* every trade the user ever saved (history)
          starts, runs

upgradeVars == <<target, aside, work, pc, found, answer, written, starts, runs>>

RowsIn(db) == IF db = NoFile THEN {} ELSE db.rows \cup db.wal

Databases ==
    {db \in JournalFiles :
        /\ db.version \in Versions
        /\ db.version = 1 => db.evidenced = {}
        /\ db.version \in 1 .. 2 => db.projected = {}
        /\ db.projected \subseteq db.evidenced
        /\ db.wal \cap db.rows = {}}

--------------------------------------------------------------------------------
(* What the command reads off a file. *)

\* The classes of _inspect_sqlite_schema.  A later start of Kuantra has given a
\* legacy file its missing columns and tables: it is current then.
SchemaStatus(db) == CASE db.version = Current   -> "current"
                      [] db.version \in 1 .. 7  -> "legacy"
                      [] OTHER                  -> "unsupported"

\* Every trade has its projection and every projection its trade.
CoverageReady(db) == db.projected = db.rows

Valid(db) == SchemaStatus(db) = "current" /\ CoverageReady(db)

--------------------------------------------------------------------------------
UpgradeInit ==
    /\ target \in Databases
    /\ written = RowsIn(target)
    /\ aside = <<>> /\ work = NoFile /\ found = NoFile
    /\ pc = "idle" /\ answer = "none" /\ starts = 0 /\ runs = 0

Answer(a) == answer' = a /\ pc' = "idle" /\ work' = NoFile

\* The connection of the preflight is the only one: closing it folds the WAL into
\* the file.  A file that SQLite finds damaged is refused, whatever its version.
Preflight ==
    /\ pc = "idle" /\ runs < MaxRuns
    /\ runs' = runs + 1
    /\ LET db == IF target = NoFile THEN NoFile
                 ELSE [target EXCEPT !.rows = RowsIn(target), !.wal = {}]
       IN  /\ target' = db /\ found' = db
           /\ \/ Answer("refused")
              \/ /\ db # NoFile
                 /\ \/ Valid(db) /\ Answer("current")
                    \/ /\ SchemaStatus(db) = "legacy"
                       /\ pc' = "checked" /\ answer' = "none" /\ UNCHANGED work
    /\ UNCHANGED <<aside, written, starts>>

UpgradeStep(from, to) == pc = from /\ pc' = to /\ UNCHANGED <<found, answer, written, starts, runs>>

\* The snapshot, and the copy of it that is worked on.
Stage ==
    /\ UpgradeStep("checked", "staged")
    /\ work' = target
    /\ UNCHANGED <<target, aside>>

\* SQLiteDriver adds the columns and tables the file lacks.
AddSchema ==
    /\ UpgradeStep("staged", "migrated")
    /\ work' = [work EXCEPT !.version = Current]
    /\ UNCHANGED <<target, aside>>

\* A trade that no event speaks of gets a legacy snapshot; one the ledger refuses
\* ends the command.
Backfill ==
    /\ pc = "migrated"
    /\ LET missing == work.rows \ work.evidenced
       IN  IF missing \cap Malformed # {}
           THEN Answer("failed") /\ UNCHANGED <<found, written, starts, runs>>
           ELSE UpgradeStep("migrated", "backfilled")
                /\ work' = [work EXCEPT !.evidenced = @ \cup missing]
    /\ UNCHANGED <<target, aside>>

\* The projections are built again from the events alone.
Rebuild ==
    /\ UpgradeStep("backfilled", "rebuilt")
    /\ work' = [work EXCEPT !.projected = work.evidenced]
    /\ UNCHANGED <<target, aside>>

VerifyStaged ==
    /\ pc = "rebuilt"
    /\ IF Valid(work)
       THEN UpgradeStep("rebuilt", "verified") /\ UNCHANGED work
       ELSE Answer("failed") /\ UNCHANGED <<found, written, starts, runs>>
    /\ UNCHANGED <<target, aside>>

MoveAside ==
    /\ UpgradeStep("verified", "moved")
    /\ aside' = Append(aside, target) /\ target' = NoFile
    /\ UNCHANGED work

Promote ==
    /\ UpgradeStep("moved", "promoted")
    /\ target' = work /\ work' = NoFile
    /\ UNCHANGED aside

\* The file in place is opened and its schema read once more for the answer.
ReportUpgrade ==
    /\ pc = "promoted"
    /\ Answer("upgraded")
    /\ UNCHANGED <<target, aside, found, written, starts, runs>>

\* The bug of a promotion without its handler.
FaultyMoveBack == UNCHANGED <<target, aside>>

\* A step raises.  What was moved aside is moved back, unless the copy has its name
\* by now; the copy is deleted.
MoveBack == IF pc = "moved"
            THEN target' = aside[Len(aside)] /\ aside' = SubSeq(aside, 1, Len(aside) - 1)
            ELSE UNCHANGED <<target, aside>>

Raise ==
    /\ pc # "idle"
    /\ MoveBack /\ Answer("failed")
    /\ UNCHANGED <<found, written, starts, runs>>

\* The process is killed: what is on the disk stays as it is, the copy as litter.
KillUpgrade ==
    /\ pc # "idle"
    /\ pc' = "idle" /\ work' = NoFile /\ answer' = "killed"
    /\ UNCHANGED <<target, aside, found, written, starts, runs>>

\* Kuantra is started and perhaps a trade saved: a missing file is made anew, and an
\* older one gets its columns and tables in place, the trade its event and its
\* projection.  A file of an unknown revision gets them too and stays unknown, or its
\* table of trades takes no trade.  Killed, Kuantra leaves what it wrote in the WAL.
StartApp ==
    /\ pc = "idle" /\ starts < MaxStarts
    /\ starts' = starts + 1
    /\ \E t \in Trades \cup {NoFile}, folds \in BOOLEAN :
          LET new == {t} \ {NoFile}
              db  == IF target = NoFile
                     THEN [version |-> Current, rows |-> {}, evidenced |-> {},
                           projected |-> {}, wal |-> {}]
                     ELSE target
          IN  /\ t \notin written
              /\ target' = [version |-> IF db.version = 0 THEN 0 ELSE Current,
                            rows |-> IF folds THEN RowsIn(db) \cup new ELSE db.rows,
                            wal |-> IF folds THEN {} ELSE db.wal \cup new,
                            evidenced |-> db.evidenced \cup new,
                            projected |-> db.projected \cup new]
              /\ written' = written \cup new
    /\ answer' = "none"
    /\ UNCHANGED <<aside, work, pc, found, runs>>

UpgradeNext == \/ Preflight \/ Stage \/ AddSchema \/ Backfill \/ Rebuild \/ VerifyStaged
               \/ MoveAside \/ Promote \/ ReportUpgrade \/ Raise \/ KillUpgrade \/ StartApp

UpgradeSpec == UpgradeInit /\ [][UpgradeNext]_upgradeVars

--------------------------------------------------------------------------------
(* Properties. *)

\* db holds the trades of the file the command found, each with its evidence and its
\* projection, and no other.
UpgradeOf(db) == /\ db # NoFile /\ db.rows = RowsIn(found)
                 /\ db.evidenced = db.rows /\ db.projected = db.rows

\* What the user saved is in the journal or in a file kept aside, whatever was
\* killed or raised and however often the command ran; a command that refused left
\* the journal as it found it, and so did one that failed, unless it failed with the
\* whole upgrade in place; one that says UPGRADED put all of it in place, with
\* evidence and a projection for each trade and for no other.
UpgradeKeepsJournal ==
    /\ written \subseteq RowsIn(target) \cup UNION {RowsIn(aside[i]) : i \in DOMAIN aside}
    /\ answer = "refused" => target = found
    /\ answer = "failed" => target = found \/ UpgradeOf(target)
    /\ answer = "upgraded" => UpgradeOf(target)

\* "Upgrade a supported legacy SQLite file through a staged atomic swap": once
\* Kuantra runs again it shows what was saved.
SwapIsAtomic == pc = "idle" /\ target # NoFile => written \subseteq RowsIn(target)
================================================================================
