--------------------------- MODULE RestoreCommit ---------------------------
(***************************************************************************)
(* Offline restore of the desktop profile: desktop_restore.py (select,     *)
(* prepare, cancel), desktop_restore_commit.py (commit, recover, review)   *)
(* and the boot guard and operation journal of core/profile_safety.py.     *)
(*                                                                         *)
(* A restore replaces the profile directory by a candidate built from a    *)
(* bundle with two renames, profile -> original and candidate -> profile,  *)
(* and writes the phase it has reached to operation.json before and after  *)
(* each.  Nothing makes the sequence atomic: a write or rename may fail,   *)
(* the process may be killed between any two system calls, the machine may *)
(* lose power and with it whatever was not synced, and programs that do    *)
(* not know the profile lease may touch the profile directory.             *)
(*                                                                         *)
(* A call is a sequence of steps; the step being executed is named after   *)
(* the phase it writes, or else after what it does.  Steps that write or   *)
(* rename take effect first (half) and are forced to the disk after, so    *)
(* every fault can fall between the two.                                   *)
(***************************************************************************)
EXTENDS Integers

CONSTANTS
    MaxOps,           \* restore operations ever selected
    MaxEdits,         \* contents a generation goes through
    MaxFaults,        \* failed system calls, kills and power losses
    MaxOutside,       \* changes made by programs that ignore the lease
    NoGen,            \* nothing under this name
    NoJournal         \* operation.json does not exist

ASSUME BoundsAssumption == {MaxOps, MaxEdits, MaxFaults, MaxOutside} \subseteq Nat

(* A generation is a profile directory: id is its inode and edit stands    *)
(* for what it contains, so two generations are equal exactly when their   *)
(* fingerprints are.  0 is the profile in use at the start, k the candidate *)
(* of operation k, and Foreign a directory somebody else created.          *)
Foreign == MaxOps + 1
Gens == [id : 0 .. Foreign, edit : 0 .. MaxEdits]

ASSUME NoGenAssumption == NoGen \notin Gens

Phases == {"INTENT", "PREPARING", "PREPARED", "MOVING_ORIGINAL",
           "ORIGINAL_MOVED", "PROMOTING", "VERIFYING", "ROLLING_BACK",
           "APPLIED_AWAITING_REVIEW", "REVIEWED", "ROLLED_BACK", "CANCELLED",
           "FAILED", "RECOVERY_REQUIRED"}
BOOT_PHASES == {"REVIEWED", "ROLLED_BACK", "CANCELLED", "FAILED"}

(* What operation.json holds.  old and new are the two fingerprints (old is *)
(* recorded here from PREPARING on, where the call keeps it in a local);    *)
(* base is a history variable: the generation in use at selection.          *)
Journals == [op : 1 .. MaxOps, phase : Phases, base : 0 .. Foreign,
             old : Gens \cup {NoGen}, new : Gens \cup {NoGen}]

ASSUME NoJournalAssumption == NoJournal \notin Journals

(* The names a restore moves generations between: the profile path and two  *)
(* in the directory of each operation.                                      *)
Profile == <<"profile", 0>>
Places == {Profile} \cup ({"original", "candidate"} \X (1 .. MaxOps))
Snapshots == [journal : Journals \cup {NoJournal},
              dirs : [Places -> Gens \cup {NoGen}]]

VARIABLES
    ordered,  \* the file system keeps every earlier change when a directory is synced
    live,     \* the file system as every process sees it
    disk,     \* the snapshots a power loss may leave of it
    dirty,    \* the restore workspace holds more than the lock file
    safety,   \* the safety copy of the current operation is as recorded
    call,     \* who holds the profile lease: the app, a restore call, nobody
    step,     \* the step of the call being executed
    half,     \* the step took effect and is not yet forced to the disk
    faults, outside,   \* faults and outside changes so far
    lived     \* history: generations that have been at the profile path

vars == <<ordered, live, disk, dirty, safety, call, step, half, faults, outside, lived>>
fileSystem == <<live, disk, dirty, safety>>
budget == <<ordered, faults, outside, lived>>

RenameSteps == {"moveOriginal", "promote", "restore"}
Works == {"copy", "build", "verify", "match"}
Calls == {"none", "app", "select", "prepare", "commit", "recover", "cancel",
          "review"}

TypeOK ==
    /\ ordered \in BOOLEAN
    /\ live \in Snapshots /\ disk \subseteq Snapshots /\ disk # {}
    /\ dirty \in BOOLEAN /\ safety \in BOOLEAN
    /\ call \in Calls /\ half \in BOOLEAN
    /\ step \in Phases \cup RenameSteps \cup Works \cup {"done"}
    /\ faults \in 0 .. MaxFaults /\ outside \in 0 .. MaxOutside
    /\ lived \subseteq 0 .. Foreign

----------------------------------------------------------------------------
(* The file system *)

(* The snapshots a power loss may leave once a change of this field is on   *)
(* the disk: with ordered metadata nothing older than the change survives   *)
(* without it; otherwise the other field may be any of its unsynced values. *)
Reach(new, field) ==
    IF ordered THEN {new}
    ELSE {[d EXCEPT ![field] = new[field]] : d \in disk}

(* A change every process sees and a power loss may undo. *)
Touch(field, value) ==
    LET new == [live EXCEPT ![field] = value]
    IN  live' = new /\ disk' = disk \cup Reach(new, field)

(* sync_directory, after which the change can no longer be undone. *)
SyncDirectory(field) == disk' = Reach(live, field)

(* The content of a generation changes, and is synced, whatever its name.   *)
Rewrite(g, h) ==
    LET In(s) == [s EXCEPT !.dirs =
                     [p \in Places |-> IF s.dirs[p] = g THEN h ELSE s.dirs[p]]]
    IN  /\ live' = In(live)
        /\ disk' = IF ordered THEN {In(live)} ELSE {In(d) : d \in disk}

Phase(s) == IF s.journal = NoJournal THEN "NONE" ELSE s.journal.phase
Op(s) == IF s.journal = NoJournal THEN 0 ELSE s.journal.op
Original == <<"original", Op(live)>>
Candidate == <<"candidate", Op(live)>>

\* Faulty variant: the boot guard looks only at the profile.
FaultyBootDirectory ==
    IF live.journal = NoJournal THEN ~dirty ELSE live.dirs[Profile] # NoGen

(* assert_boot_allowed: without a journal only an untouched workspace boots. *)
BootAllowed ==
    IF live.journal = NoJournal THEN ~dirty
    ELSE live.journal.phase \in BOOT_PHASES /\ live.dirs[Profile] # NoGen

----------------------------------------------------------------------------
(* How a call proceeds *)

(* The step after one that succeeded. *)
Then == [INTENT |-> "copy", PREPARING |-> "build", build |-> "PREPARED",
         MOVING_ORIGINAL |-> "moveOriginal", moveOriginal |-> "ORIGINAL_MOVED",
         ORIGINAL_MOVED |-> "PROMOTING", PROMOTING |-> "promote",
         promote |-> "VERIFYING", VERIFYING |-> "verify",
         verify |-> "APPLIED_AWAITING_REVIEW",
         ROLLING_BACK |-> "restore", restore |-> "ROLLED_BACK"]

\* Faulty variant: a commit that fails is taken for rolled back.
FaultyHandler ==
    CASE call = "commit" /\ Phase(live) # "PREPARED" -> "ROLLED_BACK"
      [] call = "recover" /\ step # "RECOVERY_REQUIRED" -> "RECOVERY_REQUIRED"
      [] OTHER -> "done"

(* Where the exception handlers go from a step that failed: select and      *)
(* prepare mark the operation FAILED, commit re-raises while the journal    *)
(* still says PREPARED and otherwise recovers, recover asks for another     *)
(* recovery.  A handler that fails ends the call.                           *)
Handler ==
    CASE call \in {"select", "prepare"}
           /\ step \notin {"INTENT", "PREPARING", "FAILED"} -> "FAILED"
      [] call = "commit" /\ Phase(live) # "PREPARED"        -> "match"
      [] call = "recover" /\ step # "RECOVERY_REQUIRED"     -> "RECOVERY_REQUIRED"
      [] OTHER                                              -> "done"

GoTo(s) ==
    /\ step' = s
    /\ half' = FALSE
    /\ call' = CASE s = "done" -> "none" [] s = "match" -> "recover" [] OTHER -> call
Succeed == GoTo(IF step \in DOMAIN Then THEN Then[step] ELSE "done")
Except == GoTo(Handler)

Source      == CASE step = "moveOriginal" -> Profile
                 [] step = "promote"      -> Candidate
                 [] step = "restore"      -> Original
Destination == IF step = "moveOriginal" THEN Original ELSE Profile

(* The journal the call writes at a step named after a phase. *)
Record(p) ==
    CASE p = "INTENT"    -> [op |-> Op(live) + 1, phase |-> p,
                             base |-> live.dirs[Profile].id,
                             old |-> NoGen, new |-> NoGen]
      [] p = "PREPARING" -> [live.journal EXCEPT !.phase = p,
                                                 !.old = live.dirs[Profile]]
      [] p = "PREPARED"  -> [live.journal EXCEPT !.phase = p,
                                                 !.new = live.dirs[Candidate]]
      [] OTHER           -> [live.journal EXCEPT !.phase = p]

Moved(from, to) ==
    [live.dirs EXCEPT ![from] = NoGen, ![to] = live.dirs[from]]

\* Faulty variant: os.rename, which replaces what is at the destination.
FaultyMayRename(from, to) == live.dirs[from] # NoGen

(* rename_exclusive fails on a missing source and on a taken destination. *)
MayRename(from, to) == live.dirs[from] # NoGen /\ live.dirs[to] = NoGen

(* What recover does about the generations it finds. *)
Classified ==
    LET j == live.journal
        Found(profile, original, candidate) ==
            /\ safety
            /\ live.dirs[Profile] = profile
            /\ live.dirs[Original] = original
            /\ live.dirs[Candidate] = candidate
    IN  CASE Found(j.old, NoGen, j.new) -> "ROLLED_BACK"
          [] Found(j.new, j.old, NoGen) -> "APPLIED_AWAITING_REVIEW"
          [] Found(NoGen, j.old, j.new) -> "ROLLING_BACK"
          [] OTHER                      -> "RECOVERY_REQUIRED"

----------------------------------------------------------------------------
(* Steps of a running call *)

(* write_operation: the new journal is renamed over the old one, ... *)
WriteJournal ==
    /\ step \in Phases /\ ~half
    /\ Touch("journal", Record(step))
    /\ half' = TRUE
    /\ UNCHANGED <<dirty, safety, call, step, budget>>

(* ... and then the workspace directory is synced. *)
SyncJournal ==
    /\ step \in Phases /\ half
    /\ SyncDirectory("journal")
    /\ Succeed
    /\ UNCHANGED <<live, dirty, safety, budget>>

(* rename_exclusive: the no-clobber rename, ... *)
Rename ==
    /\ step \in RenameSteps /\ ~half
    /\ MayRename(Source, Destination)
    /\ Touch("dirs", Moved(Source, Destination))
    /\ half' = TRUE
    /\ UNCHANGED <<dirty, safety, call, step, budget>>

(* ... and then both parent directories are synced. *)
SyncRename ==
    /\ step \in RenameSteps /\ half
    /\ SyncDirectory("dirs")
    /\ Succeed
    /\ UNCHANGED <<live, dirty, safety, budget>>

RenameRefused ==
    /\ step \in RenameSteps /\ ~half
    /\ ~MayRename(Source, Destination)
    /\ Except
    /\ UNCHANGED <<fileSystem, budget>>

(* select copies the bundle; what it copied matters only to Build. *)
Copy ==
    /\ step = "copy"
    /\ Succeed
    /\ UNCHANGED <<fileSystem, budget>>

(* prepare takes the safety copy and builds, validates and syncs the        *)
(* candidate; it does not sync the directory the candidate is listed in.    *)
Build ==
    /\ step = "build"
    /\ live.dirs[Profile] = live.journal.old
    /\ Touch("dirs", [live.dirs EXCEPT ![Candidate] =
                         [id |-> live.journal.op, edit |-> 0]])
    /\ safety' = TRUE
    /\ Succeed
    /\ UNCHANGED <<dirty, budget>>

(* ORIGINAL_CHANGED_DURING_PREPARATION, found after the candidate is built. *)
BuildRefused ==
    /\ step = "build"
    /\ live.dirs[Profile] # live.journal.old
    /\ Touch("dirs", [live.dirs EXCEPT ![Candidate] =
                         [id |-> live.journal.op, edit |-> 0]])
    /\ Except
    /\ UNCHANGED <<dirty, safety, budget>>

(* commit looks at both generations once more before it reports success. *)
VerifyTree ==
    /\ step = "verify"
    /\ IF /\ live.dirs[Profile] = live.journal.new
          /\ live.dirs[Original] = live.journal.old
       THEN Succeed ELSE Except
    /\ UNCHANGED <<fileSystem, budget>>

Match ==
    /\ step = "match"
    /\ GoTo(Classified)
    /\ UNCHANGED <<fileSystem, budget>>

Step ==
    \/ WriteJournal \/ SyncJournal \/ Rename \/ SyncRename \/ RenameRefused
    \/ Copy \/ Build \/ BuildRefused \/ VerifyTree \/ Match

----------------------------------------------------------------------------
(* Calls, each by a process that has taken the profile lease *)

BeginCall(c, first) == call = "none" /\ call' = c /\ step' = first /\ half' = FALSE

(* The directory of the new operation is made, empty, before its journal.   *)
Select ==
    /\ BootAllowed
    /\ Op(live) < MaxOps
    /\ BeginCall("select", "INTENT")
    /\ dirty' = TRUE
    /\ UNCHANGED <<live, disk, safety, budget>>

Prepare ==
    /\ Phase(live) = "INTENT"
    /\ BeginCall("prepare", "PREPARING")
    /\ UNCHANGED <<fileSystem, budget>>

Cancel ==
    /\ Phase(live) \in {"INTENT", "PREPARING", "PREPARED", "FAILED"}
    /\ BeginCall("cancel", "CANCELLED")
    /\ UNCHANGED <<fileSystem, budget>>

(* validate_prepared and contract; an operation that has expired is one     *)
(* nobody commits any more.                                                 *)
Commit ==
    /\ Phase(live) = "PREPARED"
    /\ live.dirs[Profile] = live.journal.old
    /\ live.dirs[Candidate] = live.journal.new
    /\ safety
    /\ BeginCall("commit", "MOVING_ORIGINAL")
    /\ UNCHANGED <<fileSystem, budget>>

\* Faulty variants: recover forgets that a rolled back operation has ended, or
\* takes RECOVERY_REQUIRED for an end.
FaultyRecoverEnded ==
    /\ Phase(live) \notin (BOOT_PHASES \ {"ROLLED_BACK"})
                         \cup {"INTENT", "PREPARING", "PREPARED", "NONE"}
    /\ BeginCall("recover", "match")
    /\ UNCHANGED <<fileSystem, budget>>
FaultyRecoverOnce ==
    /\ Phase(live) \notin BOOT_PHASES \cup {"RECOVERY_REQUIRED", "INTENT",
                                          "PREPARING", "PREPARED", "NONE"}
    /\ BeginCall("recover", "match")
    /\ UNCHANGED <<fileSystem, budget>>

(* The phases recover returns unchanged need no recovery. *)
Recover ==
    /\ Phase(live) \notin BOOT_PHASES \cup {"INTENT", "PREPARING", "PREPARED", "NONE"}
    /\ BeginCall("recover", "match")
    /\ UNCHANGED <<fileSystem, budget>>

Review ==
    /\ Phase(live) = "APPLIED_AWAITING_REVIEW"
    /\ safety
    /\ live.dirs[Profile] = live.journal.new
    /\ live.dirs[Original] = live.journal.old
    /\ BeginCall("review", "REVIEWED")
    /\ UNCHANGED <<fileSystem, budget>>

(* claim_writer: the application starts on the profile, ... *)
Boot ==
    /\ BootAllowed
    /\ BeginCall("app", "done")
    /\ lived' = lived \cup {g.id : g \in {live.dirs[Profile]} \ {NoGen}}
    /\ UNCHANGED <<ordered, fileSystem, faults, outside>>

(* ... changes what it holds, ... *)
Edit ==
    /\ call = "app"
    /\ LET g == live.dirs[Profile]
       IN  /\ g.edit < MaxEdits
           /\ Rewrite(g, [g EXCEPT !.edit = @ + 1])
    /\ UNCHANGED <<dirty, safety, call, step, half, budget>>

(* ... and ends, which releases the lease. *)
Quit ==
    /\ call = "app"
    /\ call' = "none"
    /\ UNCHANGED <<fileSystem, step, half, budget>>

----------------------------------------------------------------------------
(* What goes wrong *)

(* A system call of the current step fails; a write or rename that already *)
(* took effect stays visible and unsynced.                                 *)
Fail ==
    /\ faults < MaxFaults /\ faults' = faults + 1
    /\ step # "done"
    /\ Except
    /\ UNCHANGED <<ordered, fileSystem, outside, lived>>

(* The process dies, and its lease with it. *)
KillProcess ==
    /\ faults < MaxFaults /\ faults' = faults + 1
    /\ call # "none"
    /\ call' = "none" /\ step' = "done" /\ half' = FALSE
    /\ UNCHANGED <<ordered, fileSystem, outside, lived>>

PowerLoss ==
    /\ faults < MaxFaults /\ faults' = faults + 1
    /\ \E d \in disk : live' = d /\ disk' = {d}
    /\ call' = "none" /\ step' = "done" /\ half' = FALSE
    /\ UNCHANGED <<ordered, dirty, safety, outside, lived>>

(* An outside program creates a directory at a free profile path and syncs *)
(* it, changes the profile, or damages the safety copy.                    *)
Outside ==
    /\ outside < MaxOutside /\ outside' = outside + 1
    /\ \/ /\ live.dirs[Profile] = NoGen
          /\ LET new == [live EXCEPT !.dirs[Profile] =
                            [id |-> Foreign, edit |-> 0]]
             IN  live' = new /\ disk' = Reach(new, "dirs")
          /\ lived' = lived \cup {Foreign}
          /\ UNCHANGED safety
       \/ /\ live.dirs[Profile] # NoGen
          /\ LET g == live.dirs[Profile]
             IN  g.edit < MaxEdits /\ Rewrite(g, [g EXCEPT !.edit = @ + 1])
          /\ UNCHANGED <<safety, lived>>
       \/ safety /\ safety' = FALSE /\ UNCHANGED <<live, disk, lived>>
    /\ UNCHANGED <<ordered, dirty, call, step, half, faults>>

Init ==
    LET s == [journal |-> NoJournal,
              dirs |-> [p \in Places |-> IF p = Profile THEN [id |-> 0, edit |-> 0]
                                         ELSE NoGen]]
    IN  /\ ordered \in BOOLEAN
        /\ live = s /\ disk = {s}
        /\ dirty = FALSE /\ safety = FALSE
        /\ call = "none" /\ step = "done" /\ half = FALSE
        /\ faults = 0 /\ outside = 0 /\ lived = {0}

Next ==
    \/ Step
    \/ Select \/ Prepare \/ Cancel \/ Commit \/ Recover \/ Review
    \/ Boot \/ Edit \/ Quit
    \/ Fail \/ KillProcess \/ PowerLoss \/ Outside

Spec == Init /\ [][Next]_vars

(* A call that runs goes on, and an interrupted restore is recovered. *)
FairSpec == Spec /\ WF_vars(Step) /\ WF_vars(Recover)

----------------------------------------------------------------------------
(* Properties *)

(* The generation a phase promises: the candidate once it has been applied, *)
(* the one the operation found when it ended any other way.                 *)
Promised(s) ==
    IF Phase(s) \in {"APPLIED_AWAITING_REVIEW", "REVIEWED"} THEN s.journal.new.id
    ELSE IF Phase(s) = "NONE" THEN 0 ELSE s.journal.base

(* The application only ever runs on the generation the last restore        *)
(* promised: never on a blank or foreign profile, on a candidate nobody     *)
(* reviewed or on the original a reviewed restore replaced.  Only where     *)
(* nothing orders renames and a program that ignores the lease puts its own *)
(* directory in a gap a power loss left is the guard, which sees a phase    *)
(* and a directory, not enough.                                             *)
RunsOnPromised ==
    call = "app" /\ (ordered \/ outside = 0) =>
        /\ live.dirs[Profile] # NoGen
        /\ live.dirs[Profile].id = Promised(live)

(* A restore that says it ended has ended for good: in every state a power  *)
(* loss may leave, a journal with a final or applied phase comes with the   *)
(* profile it promises in place, provided the file system keeps renames in  *)
(* order (a recovery does not sync a rename whose sync had failed).         *)
EndedIsDurable ==
    ordered => \A d \in disk \cup {live} :
        Phase(d) \in BOOT_PHASES \cup {"APPLIED_AWAITING_REVIEW"} =>
            /\ d.dirs[Profile] # NoGen
            /\ d.dirs[Profile].id = Promised(d)

(* No directory that was ever the profile is overwritten or deleted, not    *)
(* even one somebody else put there and not even by a power loss: it is at  *)
(* the profile path or kept as the original of an operation.                *)
NothingLost ==
    \A d \in disk \cup {live} :
        lived \subseteq {g.id : g \in {d.dirs[p] : p \in Places} \ {NoGen}}

(* An operation that ended durably, its call having returned, does not move *)
(* again: no call, crash or recovery gives it another phase.  (A failed one *)
(* may still be cancelled.)                                                 *)
Ended(o, p) == call = "none" /\ \A d \in disk : Op(d) = o /\ Phase(d) = p
EndsOnce ==
    \A o \in 1 .. MaxOps, p \in BOOT_PHASES \ {"FAILED"} :
        [](Ended(o, p) => [](Op(live) > o \/ (Op(live) = o /\ Phase(live) = p)))

(* A restore interrupted between its first destructive step and its end, at *)
(* whatever step and however often, does not stay so: as long as nobody     *)
(* else touches the generations, repeating recover ends it or leaves it to  *)
(* review, unless a power loss undid its first journal write.  (Without     *)
(* ordered metadata a power loss may undo the candidate, whose directory    *)
(* prepare does not sync, and the restore asks for recovery for ever.)      *)
Interrupted ==
    Phase(live) \in {"MOVING_ORIGINAL", "ORIGINAL_MOVED", "PROMOTING", "VERIFYING",
                     "ROLLING_BACK", "RECOVERY_REQUIRED"}
Recovers == (Interrupted /\ outside = 0 /\ ordered) ~> (~Interrupted \/ outside > 0)

\* Whatever call failed and wherever the process or the power stopped: the
\* application runs on a profile it was promised, the end of an operation is
\* durable, and neither the original nor the restored profile is lost.
RestoreSound == RunsOnPromised /\ EndedIsDurable /\ NothingLost

\* An operation ends once, and an interrupted one is brought to an end.
RestoreEnds == EndsOnce /\ Recovers
============================================================================
