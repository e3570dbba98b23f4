------------------------- MODULE RestoreCommitProofs -------------------------
(***************************************************************************)
(* Proofs about the offline restore, for any number of operations, edits,  *)
(* faults and outside changes, and for both kinds of file system.          *)
(*                                                                         *)
(* Which phase the journal has is known at every step of a call            *)
(* (PhaseInv), a rename happens only under a journal that is on the disk,  *)
(* and the candidate is moved only once the directories are (SyncInv).     *)
(* So no name that a power loss may bring back hides a generation another  *)
(* one has shown (KeepInv), and a journal that says an operation is at     *)
(* rest comes with the profile it promises: with renames kept in order     *)
(* always, and otherwise, as long as nobody else creates a directory, with *)
(* that profile or none at all (FitInv, LooseInv).                         *)
(***************************************************************************)
EXTENDS RestoreCommit, TLAPS

Dirs == [Places -> Gens \cup {NoGen}]
Seen == disk \cup {live}

PhaseNow == Phase(live)
RecoverPhases == {"MOVING_ORIGINAL", "ORIGINAL_MOVED", "PROMOTING", "VERIFYING",
                  "ROLLING_BACK", "APPLIED_AWAITING_REVIEW", "RECOVERY_REQUIRED"}

\* Which steps a call goes through.
StepInv ==
    /\ call \in {"none", "app"} => step = "done"
    /\ call = "select"  => step \in {"INTENT", "copy", "FAILED"}
    /\ call = "prepare" => step \in {"PREPARING", "build", "PREPARED", "FAILED"}
    /\ call = "commit"  => step \in {"MOVING_ORIGINAL", "moveOriginal", "ORIGINAL_MOVED",
                                     "PROMOTING", "promote", "VERIFYING", "verify",
                                     "APPLIED_AWAITING_REVIEW"}
    /\ call = "recover" => step \in {"match", "ROLLED_BACK", "APPLIED_AWAITING_REVIEW",
                                     "ROLLING_BACK", "restore", "RECOVERY_REQUIRED"}
    /\ call = "cancel"  => step = "CANCELLED"
    /\ call = "review"  => step = "REVIEWED"
    /\ step \in Works \cup {"done"} => ~ half

\* The phase of the journal at each of them, before the step has written its own.
PhaseInv ==
    /\ step \in Phases /\ half => PhaseNow = step
    /\ ~ half =>
          /\ step = "INTENT" => PhaseNow \in BOOT_PHASES \cup {"NONE"} /\ Op(live) < MaxOps
          /\ step = "PREPARING" => PhaseNow = "INTENT"
          /\ step = "PREPARED" => PhaseNow = "PREPARING"
          /\ step = "MOVING_ORIGINAL" => PhaseNow = "PREPARED"
          /\ step = "ORIGINAL_MOVED" => PhaseNow = "MOVING_ORIGINAL"
          /\ step = "PROMOTING" => PhaseNow = "ORIGINAL_MOVED"
          /\ step = "VERIFYING" => PhaseNow = "PROMOTING"
          /\ step \in {"ROLLED_BACK", "ROLLING_BACK", "APPLIED_AWAITING_REVIEW"} =>
                PhaseNow \in RecoverPhases
          /\ step = "REVIEWED" => PhaseNow = "APPLIED_AWAITING_REVIEW"
          /\ step = "CANCELLED" => PhaseNow \in {"INTENT", "PREPARING", "PREPARED", "FAILED"}
          /\ step = "FAILED" => PhaseNow \in {"INTENT", "PREPARING", "PREPARED"}
          /\ step = "RECOVERY_REQUIRED" => PhaseNow \in RecoverPhases \cup {"ROLLED_BACK"}
    /\ step = "copy" => PhaseNow = "INTENT"
    /\ step = "build" => PhaseNow = "PREPARING"
    /\ step = "moveOriginal" => PhaseNow = "MOVING_ORIGINAL"
    /\ step = "promote" => PhaseNow = "PROMOTING"
    /\ step = "verify" => PhaseNow = "VERIFYING"
    /\ step = "restore" => PhaseNow = "ROLLING_BACK"
    /\ step = "match" => PhaseNow \in RecoverPhases
    /\ call = "app" => PhaseNow \in BOOT_PHASES \cup {"NONE"}

\* What is known of the places at some of them.
PlaceInv ==
    /\ step = "INTENT" /\ ~ half => live.dirs[Profile] # NoGen
    /\ step = "PREPARED" => live.dirs[Candidate] # NoGen
    /\ call = "app" => live.dirs[Profile] # NoGen

\* What is on the disk before a rename.
SyncInv ==
    /\ step \in RenameSteps \cup {"build"} => \A d \in disk : d.journal = live.journal
    /\ step \in {"ORIGINAL_MOVED", "PROMOTING"} \/ (step = "promote" /\ ~ half) =>
          \A d \in disk : d.dirs = live.dirs

\* The places a candidate is moved to, and what is somewhere in a snapshot.
KeptPlaces == {Profile} \cup ({"original"} \X (1 .. MaxOps))
Holds(s, id) == \E p \in Places : s.dirs[p] # NoGen /\ s.dirs[p].id = id

KeepInv ==
    \A d \in Seen :
        /\ \A o \in 1 .. MaxOps :
              d.dirs[<<"candidate", o>>] # NoGen => d.dirs[<<"candidate", o>>].id = o
        /\ d.journal = NoJournal => d.dirs[Profile] # NoGen
        /\ \A id \in lived : Holds(d, id)
        /\ \A e \in Seen : \A p \in KeptPlaces :
              e.dirs[p] # NoGen => Holds(d, e.dirs[p].id)

\* A snapshot at rest, and whether its profile is what its journal promises.
AtRest(s) == Phase(s) \in BOOT_PHASES \cup {"NONE", "INTENT", "PREPARING", "PREPARED",
                                            "APPLIED_AWAITING_REVIEW"}
Prepared(s) == Phase(s) \in RecoverPhases \cup {"PREPARED", "REVIEWED", "ROLLED_BACK"}
Free(s) == s.dirs[Profile] = NoGen
Shows(s, id) == s.dirs[Profile] # NoGen => s.dirs[Profile].id = id

FitsJournal(s) ==
    /\ AtRest(s) => Shows(s, Promised(s))
    /\ Phase(s) # "NONE" /\ s.journal.old # NoGen => s.journal.old.id = s.journal.base
    /\ Prepared(s) => s.journal.new # NoGen /\ s.journal.new.id = s.journal.op
Firm(s) ==
    /\ AtRest(s) => ~ Free(s)
    /\ Prepared(s) \/ Phase(s) = "PREPARING" => s.journal.old # NoGen

\* While it can be known: a file system without order says nothing of what
\* others have done.
Certain == ordered \/ outside = 0

FitAll == \A d \in Seen : FitsJournal(d) /\ (ordered => Firm(d))

FitSteps ==
    /\ step = "ROLLING_BACK" \/ (step = "restore" /\ ~ half) =>
          (live.dirs[Original] # NoGen => live.dirs[Original].id = live.journal.base)
    /\ (step = "restore" /\ half) \/ step = "ROLLED_BACK" =>
          /\ ordered => live.dirs[Profile] # NoGen
          /\ live.dirs[Profile] # NoGen => live.dirs[Profile].id = live.journal.base
    /\ step = "APPLIED_AWAITING_REVIEW" =>
          live.dirs[Profile] # NoGen /\ live.dirs[Profile].id = live.journal.op

FitInv == Certain => FitAll /\ FitSteps

\* Without order, what any power loss may bring back together.
SameProfile(d, e) == ~ Free(d) /\ ~ Free(e) => d.dirs[Profile].id = e.dirs[Profile].id
OriginalOf(s) == s.dirs[<<"original", Op(s)>>]

LooseAll ==
    /\ \A d, e \in Seen : SameProfile(d, e)
    /\ \A d, e \in Seen : e = live /\ Free(e) /\ ~ Free(d) =>
          /\ ~ AtRest(e) /\ step # "ROLLED_BACK"
          /\ OriginalOf(e) # NoGen /\ d.dirs[Profile].id = OriginalOf(e).id

LooseInv == ~ ordered /\ outside = 0 => LooseAll

RestoreInv == TypeOK /\ StepInv /\ PhaseInv /\ PlaceInv /\ SyncInv /\ KeepInv /\ FitInv /\ LooseInv

-----------------------------------------------------------------------------
(* The data *)

\* A generation is not NoGen, and a journal is not NoJournal.
LEMMA GenFacts ==
    /\ \A g \in Gens : g # NoGen /\ g.id \in 0 .. Foreign /\ g.edit \in 0 .. MaxEdits
    /\ \A i \in 0 .. Foreign, e \in 0 .. MaxEdits : [id |-> i, edit |-> e] \in Gens
BY NoGenAssumption DEF Gens

\* The places of a snapshot are told apart.
LEMMA PlaceFacts ==
    /\ Profile \in Places /\ Profile \in KeptPlaces
    /\ \A p \in KeptPlaces : p \in Places
    /\ \A o \in 1 .. MaxOps :
          /\ <<"original", o>> \in KeptPlaces /\ <<"candidate", o>> \in Places
          /\ <<"original", o>> # Profile /\ <<"candidate", o>> # Profile
          /\ <<"candidate", o>> \notin KeptPlaces
          /\ \A i \in 1 .. MaxOps : <<"original", o>> # <<"candidate", i>>
    /\ \A p \in Places : p \in KeptPlaces \/ \E o \in 1 .. MaxOps : p = <<"candidate", o>>
BY DEF Places, KeptPlaces, Profile

\* The fields of a snapshot and of what it becomes.
LEMMA SnapshotFacts ==
    ASSUME NEW s \in Snapshots
    PROVE  /\ s.journal \in Journals \cup {NoJournal}
           /\ s.dirs \in Dirs
           /\ \A p \in Places : s.dirs[p] = NoGen \/ s.dirs[p] \in Gens
           /\ \A j \in Journals :
                 /\ [s EXCEPT !["journal"] = j] \in Snapshots
                 /\ [s EXCEPT !["journal"] = j].journal = j
                 /\ [s EXCEPT !["journal"] = j].dirs = s.dirs
           /\ \A x \in Dirs :
                 /\ [s EXCEPT !["dirs"] = x] \in Snapshots
                 /\ [s EXCEPT !["dirs"] = x].journal = s.journal
                 /\ [s EXCEPT !["dirs"] = x].dirs = x
BY DEF Snapshots, Dirs

\* Equal fields make equal snapshots.
LEMMA SnapshotsAreEqual ==
    ASSUME NEW s \in Snapshots, NEW t \in Snapshots, s.journal = t.journal, s.dirs = t.dirs
    PROVE  s = t
BY DEF Snapshots

\* The fields of a journal and of what it becomes.
LEMMA JournalFacts ==
    ASSUME NEW j \in Journals
    PROVE  /\ j # NoJournal
           /\ j.op \in 1 .. MaxOps /\ j.phase \in Phases /\ j.base \in 0 .. Foreign
           /\ j.old \in Gens \cup {NoGen} /\ j.new \in Gens \cup {NoGen}
BY NoJournalAssumption DEF Journals

LEMMA OpFacts ==
    ASSUME NEW s \in Snapshots, Phase(s) # "NONE"
    PROVE  /\ s.journal \in Journals /\ Op(s) = s.journal.op /\ Op(s) \in 1 .. MaxOps
           /\ Phase(s) = s.journal.phase
BY SnapshotFacts, JournalFacts DEF Phase, Op

\* "NONE" is the phase of no journal.
LEMMA PhaseFacts ==
    ASSUME NEW s \in Snapshots
    PROVE  /\ Phase(s) = "NONE" <=> s.journal = NoJournal
           /\ Phase(s) \in Phases \cup {"NONE"}
BY SnapshotFacts, JournalFacts DEF Phase, Phases

-----------------------------------------------------------------------------
(* The file system *)

\* What a power loss may leave after a journal was written, ...
LEMMA TouchJournalFacts ==
    ASSUME TypeOK, NEW j \in Journals, Touch("journal", j)
    PROVE  /\ live' \in Snapshots /\ disk' \subseteq Snapshots /\ disk' # {}
           /\ live'.journal = j /\ live'.dirs = live.dirs
           /\ \A d \in disk' :
                 \/ d \in disk
                 \/ d.journal = j /\ d.dirs = live.dirs
                 \/ ~ ordered /\ d.journal = j /\ \E e \in disk : d.dirs = e.dirs
<1> USE DEF TypeOK
<1>1. live' = [live EXCEPT !["journal"] = j] /\ disk' = disk \cup Reach(live', "journal")
  BY DEF Touch
<1>2. live' \in Snapshots /\ live'.journal = j /\ live'.dirs = live.dirs
  BY <1>1, SnapshotFacts
<1>3. ASSUME NEW d \in Reach(live', "journal")
      PROVE  /\ d \in Snapshots /\ d.journal = j
             /\ d.dirs = live.dirs \/ (~ ordered /\ \E e \in disk : d.dirs = e.dirs)
  <2>1. CASE ordered
    BY <1>2, <1>3, <2>1 DEF Reach
  <2>2. CASE ~ ordered
    <3>1. PICK e \in disk : d = [e EXCEPT !["journal"] = j]
      BY <1>2, <1>3, <2>2 DEF Reach
    <3>2. e \in Snapshots
      OBVIOUS
    <3>3. d \in Snapshots /\ d.journal = j /\ d.dirs = e.dirs
      BY <3>1, <3>2, SnapshotFacts
    <3> QED BY <3>3, <2>2
  <2> QED BY <2>1, <2>2
<1> QED BY <1>1, <1>2, <1>3

\* ... and after something was moved, ...
LEMMA TouchDirsFacts ==
    ASSUME TypeOK, NEW x \in Dirs, Touch("dirs", x)
    PROVE  /\ live' \in Snapshots /\ disk' \subseteq Snapshots /\ disk' # {}
           /\ live'.dirs = x /\ live'.journal = live.journal
           /\ \A d \in disk' :
                 \/ d \in disk
                 \/ d.dirs = x /\ d.journal = live.journal
                 \/ d.dirs = x /\ \E e \in disk : d.journal = e.journal
<1> USE DEF TypeOK
<1>1. live' = [live EXCEPT !["dirs"] = x] /\ disk' = disk \cup Reach(live', "dirs")
  BY DEF Touch
<1>2. live' \in Snapshots /\ live'.dirs = x /\ live'.journal = live.journal
  BY <1>1, SnapshotFacts
<1>3. ASSUME NEW d \in Reach(live', "dirs")
      PROVE  /\ d \in Snapshots /\ d.dirs = x
             /\ d.journal = live.journal \/ \E e \in disk : d.journal = e.journal
  <2>1. CASE ordered
    BY <1>2, <1>3, <2>1 DEF Reach
  <2>2. CASE ~ ordered
    <3>1. PICK e \in disk : d = [e EXCEPT !["dirs"] = x]
      BY <1>2, <1>3, <2>2 DEF Reach
    <3>2. e \in Snapshots
      OBVIOUS
    <3>3. \A s \in Snapshots, y \in Dirs :
              /\ [s EXCEPT !["dirs"] = y] \in Snapshots
              /\ [s EXCEPT !["dirs"] = y].dirs = y /\ [s EXCEPT !["dirs"] = y].journal = s.journal
      BY SnapshotFacts
    <3>4. d \in Snapshots /\ d.dirs = x /\ d.journal = e.journal
      BY <3>1, <3>2, <3>3
    <3> QED BY <3>4
  <2> QED BY <2>1, <2>2
<1> QED BY <1>1, <1>2, <1>3

\* ... after the journal was synced, ...
LEMMA SyncJournalFacts ==
    ASSUME TypeOK, SyncDirectory("journal"), live.journal \in Journals
    PROVE  /\ disk' \subseteq Snapshots /\ disk' # {}
           /\ \A d \in disk' :
                 /\ d.journal = live.journal
                 /\ d = live \/ (~ ordered /\ \E e \in disk : d.dirs = e.dirs)
<1> USE DEF TypeOK
<1>1. CASE ordered
  BY <1>1 DEF SyncDirectory, Reach
<1>2. CASE ~ ordered
  <2>1. disk' = {[d EXCEPT !["journal"] = live.journal] : d \in disk}
    BY <1>2 DEF SyncDirectory, Reach
  <2>2. disk' # {}
    BY <2>1
  <2>3. ASSUME NEW d \in disk'
        PROVE  d \in Snapshots /\ d.journal = live.journal /\ \E e \in disk : d.dirs = e.dirs
    <3>1. PICK e \in disk : d = [e EXCEPT !["journal"] = live.journal]
      BY <2>1, <2>3
    <3>2. e \in Snapshots /\ live.journal \in Journals
      OBVIOUS
    <3>3. \A s \in Snapshots, y \in Journals :
              /\ [s EXCEPT !["journal"] = y] \in Snapshots
              /\ [s EXCEPT !["journal"] = y].journal = y /\ [s EXCEPT !["journal"] = y].dirs = s.dirs
      BY SnapshotFacts
    <3>4. d \in Snapshots /\ d.journal = live.journal /\ d.dirs = e.dirs
      BY <3>1, <3>2, <3>3
    <3> QED BY <3>4
  <2> QED BY <1>2, <2>2, <2>3
<1> QED BY <1>1, <1>2

\* ... and after the directories were.
LEMMA SyncDirsFacts ==
    ASSUME TypeOK, SyncDirectory("dirs")
    PROVE  /\ disk' \subseteq Snapshots /\ disk' # {}
           /\ \A d \in disk' : d.dirs = live.dirs /\ (d = live \/ \E e \in disk : d.journal = e.journal)
<1> USE DEF TypeOK
<1>1. CASE ordered
  BY <1>1 DEF SyncDirectory, Reach
<1>2. CASE ~ ordered
  <2>1. disk' = {[d EXCEPT !["dirs"] = live.dirs] : d \in disk}
    BY <1>2 DEF SyncDirectory, Reach
  <2>2. disk' # {}
    BY <2>1
  <2>3. ASSUME NEW d \in disk'
        PROVE  d \in Snapshots /\ d.dirs = live.dirs /\ \E e \in disk : d.journal = e.journal
    <3>1. PICK e \in disk : d = [e EXCEPT !["dirs"] = live.dirs]
      BY <2>1, <2>3
    <3>2. e \in Snapshots /\ live.dirs \in Dirs
      BY SnapshotFacts
    <3>3. \A s \in Snapshots, y \in Dirs :
              /\ [s EXCEPT !["dirs"] = y] \in Snapshots
              /\ [s EXCEPT !["dirs"] = y].dirs = y /\ [s EXCEPT !["dirs"] = y].journal = s.journal
      BY SnapshotFacts
    <3>4. d \in Snapshots /\ d.dirs = live.dirs /\ d.journal = e.journal
      BY <3>1, <3>2, <3>3
    <3> QED BY <3>4
  <2> QED BY <2>2, <2>3
<1> QED BY <1>1, <1>2

\* Two snapshots that have generations of the same name at the same places.
Alike(s, t) ==
    \A p \in Places : /\ s.dirs[p] = NoGen <=> t.dirs[p] = NoGen
                      /\ s.dirs[p] # NoGen => s.dirs[p].id = t.dirs[p].id

\* An edit changes what generations contain and nothing else.
LEMMA RewriteFacts ==
    ASSUME TypeOK, NEW g \in Gens, g.edit < MaxEdits, Rewrite(g, [g EXCEPT !.edit = @ + 1])
    PROVE  /\ live' \in Snapshots /\ disk' \subseteq Snapshots /\ disk' # {}
           /\ live'.journal = live.journal /\ Alike(live', live)
           /\ \A d \in disk' : \E e \in Seen :
                 /\ d.journal = e.journal /\ Alike(d, e)
                 /\ e.dirs = live.dirs => d.dirs = live'.dirs
                 /\ ordered => e = live
<1> USE DEF TypeOK
<1> DEFINE h == [g EXCEPT !.edit = @ + 1]
           In(s) == [s EXCEPT !.dirs =
                       [p \in Places |-> IF s.dirs[p] = g THEN h ELSE s.dirs[p]]]
           Edited(x) == [p \in Places |-> IF x[p] = g THEN h ELSE x[p]]
<1>1. live' = In(live) /\ disk' = IF ordered THEN {In(live)} ELSE {In(d) : d \in disk}
  BY DEF Rewrite
<1>2. h \in Gens /\ h.id = g.id /\ h # NoGen /\ g # NoGen
  <2>1. h \in Gens /\ h.id = g.id
    BY BoundsAssumption DEF Gens
  <2> QED BY <2>1, GenFacts
<1>3. ASSUME NEW s \in Snapshots
      PROVE  /\ In(s) \in Snapshots /\ In(s).journal = s.journal /\ Alike(In(s), s)
             /\ In(s).dirs = Edited(s.dirs)
  <2> HIDE DEF h
  <2>1. [p \in Places |-> IF s.dirs[p] = g THEN h ELSE s.dirs[p]] \in Dirs
    BY <1>2, SnapshotFacts DEF Dirs
  <2>2. /\ In(s).dirs = [p \in Places |-> IF s.dirs[p] = g THEN h ELSE s.dirs[p]]
        /\ In(s).journal = s.journal /\ In(s) \in Snapshots
    BY <2>1 DEF Snapshots, Dirs
  <2>3. Alike(In(s), s)
    BY <1>2, <2>2 DEF Alike
  <2> QED BY <2>2, <2>3
<1> HIDE DEF In, h, Edited
<1>4. live' \in Snapshots /\ live'.journal = live.journal /\ Alike(live', live)
  BY <1>1, <1>3
<1>5. ASSUME NEW d \in disk'
      PROVE  /\ d \in Snapshots
             /\ \E e \in Seen : /\ d.journal = e.journal /\ Alike(d, e)
                                /\ e.dirs = live.dirs => d.dirs = live'.dirs
                                /\ ordered => e = live
  <2>1. PICK e \in Seen : d = In(e) /\ (ordered => e = live)
    BY <1>1, <1>5 DEF Seen
  <2>2. e \in Snapshots
    BY DEF Seen
  <2>3. d \in Snapshots /\ d.journal = e.journal /\ Alike(d, e)
    BY <2>1, <2>2, <1>3
  <2>4. e.dirs = live.dirs => d.dirs = live'.dirs
    BY <2>1, <2>2, <1>1, <1>3
  <2> QED BY <2>1, <2>3, <2>4
<1>6. disk' # {}
  BY <1>1
<1> QED BY <1>4, <1>5, <1>6

-----------------------------------------------------------------------------
(* The steps of a call *)

\* A step that succeeds is followed by the next one of its call.
LEMMA SucceedFacts ==
    ASSUME Succeed, step \in Phases \cup RenameSteps \cup Works
    PROVE  /\ half' = FALSE
           /\ \/ /\ \/ step = "INTENT" /\ step' = "copy"
                    \/ step = "PREPARING" /\ step' = "build"
                    \/ step = "build" /\ step' = "PREPARED"
                    \/ step = "MOVING_ORIGINAL" /\ step' = "moveOriginal"
                    \/ step = "moveOriginal" /\ step' = "ORIGINAL_MOVED"
                    \/ step = "ORIGINAL_MOVED" /\ step' = "PROMOTING"
                    \/ step = "PROMOTING" /\ step' = "promote"
                    \/ step = "promote" /\ step' = "VERIFYING"
                    \/ step = "VERIFYING" /\ step' = "verify"
                    \/ step = "verify" /\ step' = "APPLIED_AWAITING_REVIEW"
                    \/ step = "ROLLING_BACK" /\ step' = "restore"
                    \/ step = "restore" /\ step' = "ROLLED_BACK"
                 /\ call' = call
              \/ /\ step \in {"copy", "match", "PREPARED", "APPLIED_AWAITING_REVIEW", "REVIEWED",
                              "ROLLED_BACK", "CANCELLED", "FAILED", "RECOVERY_REQUIRED"}
                 /\ step' = "done" /\ call' = "none"
<1>1. /\ half' = FALSE /\ step' = IF step \in DOMAIN Then THEN Then[step] ELSE "done"
      /\ step' = "done" => call' = "none"
      /\ step' \notin {"done", "match"} => call' = call
  BY DEF Succeed, GoTo
<1>2. DOMAIN Then = {"INTENT", "PREPARING", "build", "MOVING_ORIGINAL", "moveOriginal",
                     "ORIGINAL_MOVED", "PROMOTING", "promote", "VERIFYING", "verify",
                     "ROLLING_BACK", "restore"}
  BY DEF Then
<1>3. /\ Then["INTENT"] = "copy" /\ Then["PREPARING"] = "build" /\ Then["build"] = "PREPARED"
      /\ Then["MOVING_ORIGINAL"] = "moveOriginal" /\ Then["moveOriginal"] = "ORIGINAL_MOVED"
      /\ Then["ORIGINAL_MOVED"] = "PROMOTING" /\ Then["PROMOTING"] = "promote"
      /\ Then["promote"] = "VERIFYING" /\ Then["VERIFYING"] = "verify"
      /\ Then["verify"] = "APPLIED_AWAITING_REVIEW"
      /\ Then["ROLLING_BACK"] = "restore" /\ Then["restore"] = "ROLLED_BACK"
  BY DEF Then
<1>4. CASE step \in DOMAIN Then
  BY <1>1, <1>2, <1>3, <1>4
<1>5. CASE step \notin DOMAIN Then
  BY <1>1, <1>2, <1>5 DEF Phases, RenameSteps, Works
<1> QED BY <1>4, <1>5

\* A step that fails leads to the handler of its call, or ends the call.
LEMMA ExceptFacts ==
    ASSUME Except
    PROVE  /\ half' = FALSE
           /\ \/ step' = "done" /\ call' = "none"
              \/ /\ call \in {"select", "prepare"} /\ step \notin {"INTENT", "PREPARING", "FAILED"}
                 /\ step' = "FAILED" /\ call' = call
              \/ call = "commit" /\ PhaseNow # "PREPARED" /\ step' = "match" /\ call' = "recover"
              \/ /\ call = "recover" /\ step # "RECOVERY_REQUIRED"
                 /\ step' = "RECOVERY_REQUIRED" /\ call' = call
BY DEF Except, GoTo, Handler, PhaseNow

\* What recover finds decides how it goes on.
LEMMA MatchFacts ==
    ASSUME Match
    PROVE  /\ half' = FALSE /\ call' = call
           /\ \/ /\ step' = "ROLLED_BACK"
                 /\ live.dirs[Profile] = live.journal.old /\ live.dirs[Original] = NoGen
              \/ /\ step' = "APPLIED_AWAITING_REVIEW"
                 /\ live.dirs[Profile] = live.journal.new
              \/ /\ step' = "ROLLING_BACK"
                 /\ live.dirs[Profile] = NoGen /\ live.dirs[Original] = live.journal.old
              \/ step' = "RECOVERY_REQUIRED"
<1>1. /\ half' = FALSE /\ step' = Classified
      /\ step' \notin {"done", "match"} => call' = call
  BY DEF Match, GoTo
<1>2. \/ /\ Classified = "ROLLED_BACK"
         /\ live.dirs[Profile] = live.journal.old /\ live.dirs[Original] = NoGen
      \/ /\ Classified = "APPLIED_AWAITING_REVIEW"
         /\ live.dirs[Profile] = live.journal.new
      \/ /\ Classified = "ROLLING_BACK"
         /\ live.dirs[Profile] = NoGen /\ live.dirs[Original] = live.journal.old
      \/ Classified = "RECOVERY_REQUIRED"
  BY DEF Classified
<1> QED BY <1>1, <1>2

\* The journal a step writes is one, and differs from the last where it should.
LEMMA RecordFacts ==
    ASSUME TypeOK, PhaseInv, PlaceInv, step \in Phases, ~ half
    PROVE  /\ Record(step) \in Journals /\ Record(step).phase = step
           /\ step = "INTENT" => /\ Record(step).op = Op(live) + 1
                                 /\ Record(step).base = live.dirs[Profile].id
                                 /\ Record(step).old = NoGen
           /\ step # "INTENT" => /\ live.journal \in Journals
                                 /\ Record(step).op = live.journal.op
                                 /\ Record(step).base = live.journal.base
           /\ step = "PREPARING" => Record(step).old = live.dirs[Profile]
           /\ step = "PREPARED"  => Record(step).new = live.dirs[Candidate]
           /\ step \notin {"INTENT", "PREPARING"} => Record(step).old = live.journal.old
           /\ step \notin {"INTENT", "PREPARED"} => Record(step).new = live.journal.new
<1>1. live \in Snapshots
  BY DEF TypeOK
<1>2. live.dirs[Profile] \in Gens \cup {NoGen}
  BY <1>1, SnapshotFacts, PlaceFacts
<1>3. CASE step = "INTENT"
  <2>1. Op(live) + 1 \in 1 .. MaxOps
    <3>1. Op(live) \in 0 .. MaxOps
      BY <1>1, SnapshotFacts, JournalFacts, BoundsAssumption DEF Op
    <3>2. Op(live) < MaxOps
      BY <1>3 DEF PhaseInv
    <3> QED BY <3>1, <3>2, BoundsAssumption
  <2>2. live.dirs[Profile].id \in 0 .. Foreign
    BY <1>2, <1>3, GenFacts DEF PlaceInv
  <2>3. Record(step) = [op |-> Op(live) + 1, phase |-> step, base |-> live.dirs[Profile].id,
                        old |-> NoGen, new |-> NoGen]
    BY <1>3 DEF Record
  <2> QED BY <1>3, <2>1, <2>2, <2>3 DEF Journals
<1>4. CASE step # "INTENT"
  <2>1. PhaseNow # "NONE"
    BY <1>4 DEF PhaseInv, Phases, RecoverPhases
  <2>2. live.journal \in Journals
    BY <1>1, <2>1, OpFacts DEF PhaseNow
  <2>3. CASE step = "PREPARING"
    <3>1. Record(step) = [live.journal EXCEPT !.phase = step, !.old = live.dirs[Profile]]
      BY <2>3 DEF Record
    <3> QED BY <1>2, <2>2, <2>3, <3>1 DEF Journals
  <2>4. CASE step = "PREPARED"
    <3>1. Record(step) = [live.journal EXCEPT !.phase = step, !.new = live.dirs[Candidate]]
      BY <2>4 DEF Record
    <3>2. live.dirs[Candidate] \in Gens \cup {NoGen}
      BY <1>1, <2>1, OpFacts, PlaceFacts, SnapshotFacts DEF PhaseNow, Candidate
    <3> QED BY <2>2, <2>4, <3>1, <3>2 DEF Journals
  <2>5. CASE step \notin {"PREPARING", "PREPARED"}
    <3>1. Record(step) = [live.journal EXCEPT !.phase = step]
      BY <1>4, <2>5 DEF Record
    <3> QED BY <1>4, <2>2, <2>5, <3>1 DEF Journals
  <2> QED BY <2>3, <2>4, <2>5
<1> QED BY <1>3, <1>4

-----------------------------------------------------------------------------
(* Where a call is, and what it finds there *)

FlowInv == TypeOK /\ StepInv /\ PhaseInv /\ PlaceInv

\* The phase and the operation of a snapshot depend on its journal alone.
LEMMA SameJournal ==
    ASSUME live'.journal = live.journal
    PROVE  PhaseNow' = PhaseNow /\ Op(live)' = Op(live) /\ Original' = Original /\ Candidate' = Candidate
BY DEF PhaseNow, Phase, Op, Original, Candidate

LEMMA FlowInit == Init => FlowInv
<1> SUFFICES ASSUME Init PROVE FlowInv
  OBVIOUS
<1>1. PICK s : /\ s = [journal |-> NoJournal,
                       dirs |-> [p \in Places |-> IF p = Profile THEN [id |-> 0, edit |-> 0] ELSE NoGen]]
               /\ live = s /\ disk = {s}
  BY DEF Init
<1>2. [id |-> 0, edit |-> 0] \in Gens
  BY GenFacts, BoundsAssumption DEF Foreign
<1>3. s \in Snapshots
  BY <1>1, <1>2 DEF Snapshots
<1>4. TypeOK
  <2>1. 0 \in 0 .. MaxFaults /\ 0 \in 0 .. MaxOutside /\ 0 \in 0 .. Foreign
    BY BoundsAssumption DEF Foreign
  <2>2. live \in Snapshots /\ disk \subseteq Snapshots /\ disk # {}
    BY <1>1, <1>3
  <2> QED BY <2>1, <2>2 DEF Init, TypeOK, Calls
<1>5. StepInv /\ PhaseInv /\ PlaceInv
  BY DEF Init, StepInv, PhaseInv, PlaceInv, Phases, Works
<1> QED BY <1>4, <1>5 DEF FlowInv

LEMMA FlowWrite == ASSUME FlowInv, WriteJournal PROVE FlowInv'
<1> USE DEF FlowInv
<1>1. PICK j \in Journals : j = Record(step) /\ j.phase = step
  BY RecordFacts DEF WriteJournal
<1>2. /\ live' \in Snapshots /\ disk' \subseteq Snapshots /\ disk' # {}
      /\ live'.journal = j /\ live'.dirs = live.dirs
  BY <1>1, TouchJournalFacts DEF WriteJournal
<1>3. PhaseNow' = step
  BY <1>1, <1>2, JournalFacts DEF PhaseNow, Phase
<1>4. step' = step /\ call' = call /\ half' /\ step \in Phases
  BY DEF WriteJournal
<1>5. TypeOK'
  BY <1>2, <1>4 DEF TypeOK, WriteJournal, budget
<1>6. StepInv'
  BY <1>4 DEF StepInv, Phases, Works
<1>7. PhaseInv'
  BY <1>3, <1>4 DEF PhaseInv, StepInv, Phases
<1>8. PlaceInv'
  <2>1. step = "PREPARED" => Candidate' = Candidate
    BY <1>1, <1>2, RecordFacts, JournalFacts DEF Candidate, Op, WriteJournal
  <2> QED BY <1>2, <1>4, <2>1 DEF PlaceInv, StepInv, Phases
<1> QED BY <1>5, <1>6, <1>7, <1>8

LEMMA FlowSync == ASSUME FlowInv, SyncJournal PROVE FlowInv'
<1> USE DEF FlowInv
<1>1. step \in Phases /\ half /\ PhaseNow = step /\ live' = live
  BY DEF SyncJournal, PhaseInv
<1>2. live.journal \in Journals
  BY <1>1, OpFacts DEF TypeOK, PhaseNow, Phases
<1>3. disk' \subseteq Snapshots /\ disk' # {}
  BY <1>2, SyncJournalFacts DEF SyncJournal
<1>4. PhaseNow' = PhaseNow /\ Candidate' = Candidate
  BY <1>1, SameJournal
<1>5. Succeed /\ step \in Phases \cup RenameSteps \cup Works
  BY DEF SyncJournal
<1>6. TypeOK'
  <2>1. half' = FALSE /\ step' \in Phases \cup RenameSteps \cup Works \cup {"done"} /\ call' \in Calls
    BY <1>5, SucceedFacts DEF TypeOK, Calls, RenameSteps, Works, Phases
  <2> QED BY <1>1, <1>3, <2>1 DEF TypeOK, SyncJournal, budget
<1>7. StepInv'
  BY <1>1, <1>5, SucceedFacts DEF StepInv, Works, Phases
<1>8. PhaseInv'
  BY <1>1, <1>4, <1>5, SucceedFacts DEF PhaseInv, StepInv, Phases
<1>9. PlaceInv'
  BY <1>1, <1>5, SucceedFacts DEF PlaceInv, StepInv, Phases
<1> QED BY <1>6, <1>7, <1>8, <1>9

\* What a rename is about.
LEMMA RenameFacts ==
    ASSUME FlowInv, step \in RenameSteps
    PROVE  /\ PhaseNow \in {"MOVING_ORIGINAL", "PROMOTING", "ROLLING_BACK"}
           /\ live.journal \in Journals /\ Op(live) = live.journal.op
           /\ Source \in Places /\ Destination \in KeptPlaces /\ Source # Destination
           /\ \/ step = "moveOriginal" /\ Source = Profile /\ Destination = Original
              \/ step = "promote" /\ Source = Candidate /\ Destination = Profile
              \/ step = "restore" /\ Source = Original /\ Destination = Profile
           /\ Original \in KeptPlaces /\ Candidate \in Places /\ Candidate \notin KeptPlaces
           /\ Original # Profile /\ Candidate # Profile
<1> USE DEF FlowInv
<1>1. PhaseNow \in {"MOVING_ORIGINAL", "PROMOTING", "ROLLING_BACK"}
  BY DEF RenameSteps, PhaseInv
<1>2. live.journal \in Journals /\ Op(live) = live.journal.op /\ Op(live) \in 1 .. MaxOps
  BY <1>1, OpFacts DEF PhaseNow, TypeOK
<1>3. /\ Original \in KeptPlaces /\ Candidate \in Places /\ Candidate \notin KeptPlaces
      /\ Original # Profile /\ Candidate # Profile /\ Original \in Places
      /\ Profile \in Places /\ Profile \in KeptPlaces
  BY <1>2, PlaceFacts DEF Original, Candidate
<1>4. \/ step = "moveOriginal" /\ Source = Profile /\ Destination = Original
      \/ step = "promote" /\ Source = Candidate /\ Destination = Profile
      \/ step = "restore" /\ Source = Original /\ Destination = Profile
  BY DEF RenameSteps, Source, Destination
<1> QED BY <1>1, <1>2, <1>3, <1>4

\* What the places hold after it.
LEMMA MovedFacts ==
    ASSUME FlowInv, step \in RenameSteps
    PROVE  /\ Moved(Source, Destination) \in Dirs
           /\ \A p \in Places : Moved(Source, Destination)[p] =
                 IF p = Destination THEN live.dirs[Source] ELSE IF p = Source THEN NoGen ELSE live.dirs[p]
<1>1. Source \in Places /\ Destination \in Places /\ Source # Destination
  BY RenameFacts, PlaceFacts
<1>2. live.dirs \in Dirs
  BY SnapshotFacts DEF FlowInv, TypeOK
<1>3. PICK x \in Dirs, a \in Places, b \in Places : x = live.dirs /\ a = Source /\ b = Destination
  BY <1>1, <1>2
<1>4. Moved(Source, Destination) = [x EXCEPT ![a] = NoGen, ![b] = x[a]]
  BY <1>3 DEF Moved
<1>5. [x EXCEPT ![a] = NoGen, ![b] = x[a]] \in Dirs
  BY DEF Dirs
<1>6. \A p \in Places : [x EXCEPT ![a] = NoGen, ![b] = x[a]][p] =
                           IF p = b THEN x[a] ELSE IF p = a THEN NoGen ELSE x[p]
  BY <1>1, <1>3 DEF Dirs
<1> QED BY <1>3, <1>4, <1>5, <1>6

LEMMA FlowRename == ASSUME FlowInv, Rename PROVE FlowInv'
<1> USE DEF FlowInv
<1>1. step \in RenameSteps /\ step' = step /\ call' = call /\ half'
  BY DEF Rename
<1>2. PICK x \in Dirs : x = Moved(Source, Destination)
  BY <1>1, MovedFacts
<1>3. /\ live' \in Snapshots /\ disk' \subseteq Snapshots /\ disk' # {}
      /\ live'.journal = live.journal
  BY <1>2, TouchDirsFacts DEF Rename
<1>4. PhaseNow' = PhaseNow
  BY <1>3, SameJournal
<1>5. TypeOK'
  BY <1>1, <1>3 DEF TypeOK, Rename, budget
<1>6. StepInv' /\ PhaseInv' /\ PlaceInv'
  BY <1>1, <1>4 DEF StepInv, PhaseInv, PlaceInv, RenameSteps, Works, Phases
<1> QED BY <1>5, <1>6

LEMMA FlowSyncRename == ASSUME FlowInv, SyncRename PROVE FlowInv'
<1> USE DEF FlowInv
<1>1. step \in RenameSteps /\ live' = live
  BY DEF SyncRename
<1>2. disk' \subseteq Snapshots /\ disk' # {}
  BY SyncDirsFacts DEF SyncRename
<1>3. PhaseNow' = PhaseNow
  BY <1>1, SameJournal
<1>4. Succeed /\ step \in Phases \cup RenameSteps \cup Works
  BY DEF SyncRename
<1>5. TypeOK'
  BY <1>1, <1>2, <1>4, SucceedFacts DEF TypeOK, SyncRename, budget, Calls, RenameSteps, Works, Phases
<1>6. StepInv'
  BY <1>1, <1>4, SucceedFacts DEF StepInv, Works, Phases, RenameSteps
<1>7. PhaseInv' /\ PlaceInv'
  BY <1>1, <1>3, <1>4, SucceedFacts DEF PhaseInv, PlaceInv, StepInv, Phases, RenameSteps, RecoverPhases
<1> QED BY <1>5, <1>6, <1>7

\* A step that changes no file goes on, or fails, as its call says.
LEMMA FlowSucceeds ==
    ASSUME FlowInv, Succeed, step \in Works, UNCHANGED <<live, disk, dirty, safety, budget>>,
           step \in {"copy", "verify"}
    PROVE  FlowInv'
<1> USE DEF FlowInv
<1>1. PhaseNow' = PhaseNow
  BY SameJournal
<1>2. TypeOK' /\ StepInv'
  BY SucceedFacts DEF TypeOK, StepInv, budget, Calls, Works, Phases
<1>3. PhaseInv' /\ PlaceInv'
  BY <1>1, SucceedFacts DEF PhaseInv, PlaceInv, StepInv, Phases, Works, RecoverPhases
<1> QED BY <1>2, <1>3

LEMMA FlowFails ==
    ASSUME FlowInv, Except, step # "done", UNCHANGED <<live, disk, dirty, safety, ordered, lived>>,
           faults' \in 0 .. MaxFaults, outside' \in 0 .. MaxOutside
    PROVE  FlowInv'
<1> USE DEF FlowInv
<1>1. PhaseNow' = PhaseNow
  BY SameJournal
<1>2. TypeOK'
  BY ExceptFacts DEF TypeOK, Calls, Phases, Works
<1>3. StepInv'
  BY ExceptFacts DEF StepInv, Works, Phases
<1>4. PhaseInv'
  <2>1. step' = "FAILED" => PhaseNow \in {"INTENT", "PREPARING", "PREPARED"}
    BY ExceptFacts DEF PhaseInv, StepInv, Phases
  <2>2. step' \in {"match", "RECOVERY_REQUIRED"} => PhaseNow \in RecoverPhases \cup {"ROLLED_BACK"}
    BY ExceptFacts DEF PhaseInv, StepInv, Phases, RecoverPhases
  <2>3. step' = "match" => PhaseNow # "ROLLED_BACK"
    BY ExceptFacts DEF PhaseInv, StepInv, Phases, RecoverPhases
  <2> QED BY <1>1, <2>1, <2>2, <2>3, ExceptFacts DEF PhaseInv, Phases
<1>5. PlaceInv'
  BY ExceptFacts DEF PlaceInv
<1> QED BY <1>2, <1>3, <1>4, <1>5

LEMMA FlowMatch == ASSUME FlowInv, Match PROVE FlowInv'
<1> USE DEF FlowInv
<1>1. step = "match" /\ UNCHANGED <<live, disk, dirty, safety, ordered, faults, outside, lived>>
  BY DEF Match, fileSystem, budget
<1>2. PhaseNow' = PhaseNow
  BY <1>1, SameJournal
<1>3. TypeOK' /\ StepInv'
  BY <1>1, MatchFacts DEF TypeOK, StepInv, Calls, Phases, Works
<1>4. PhaseInv' /\ PlaceInv'
  BY <1>1, <1>2, MatchFacts DEF PhaseInv, PlaceInv, StepInv, Phases
<1> QED BY <1>3, <1>4

\* The candidate is built in its place and nowhere else.
LEMMA BuildFacts ==
    ASSUME FlowInv, step = "build"
    PROVE  LET x == [live.dirs EXCEPT ![Candidate] = [id |-> live.journal.op, edit |-> 0]]
           IN  /\ live.journal \in Journals /\ Op(live) = live.journal.op
               /\ x \in Dirs /\ Candidate \in Places /\ Candidate \notin KeptPlaces
               /\ \E o \in 1 .. MaxOps : o = live.journal.op /\ Candidate = <<"candidate", o>>
               /\ \A p \in Places : p # Candidate => x[p] = live.dirs[p]
               /\ x[Candidate] # NoGen /\ x[Candidate].id = live.journal.op
<1> USE DEF FlowInv
<1>1. PhaseNow = "PREPARING" /\ live \in Snapshots
  BY DEF PhaseInv, TypeOK
<1>2. live.journal \in Journals /\ Op(live) = live.journal.op /\ Op(live) \in 1 .. MaxOps
  BY <1>1, OpFacts DEF PhaseNow
<1>3. Candidate = <<"candidate", live.journal.op>> /\ Candidate \in Places /\ Candidate \notin KeptPlaces
  BY <1>2, PlaceFacts DEF Candidate
<1>4. [id |-> live.journal.op, edit |-> 0] \in Gens
  BY <1>2, GenFacts, BoundsAssumption DEF Foreign
<1>5. live.dirs \in Dirs
  BY <1>1, SnapshotFacts
<1>6. PICK y \in Dirs, c \in Places, g \in Gens :
         y = live.dirs /\ c = Candidate /\ g = [id |-> live.journal.op, edit |-> 0]
  BY <1>3, <1>4, <1>5
<1>7. /\ [y EXCEPT ![c] = g] \in Dirs /\ [y EXCEPT ![c] = g][c] = g
      /\ \A p \in Places : p # c => [y EXCEPT ![c] = g][p] = y[p]
  BY DEF Dirs
<1>8. g # NoGen /\ g.id = live.journal.op
  BY <1>6, GenFacts
<1> QED BY <1>2, <1>3, <1>6, <1>7, <1>8

LEMMA FlowBuild == ASSUME FlowInv, Build \/ BuildRefused PROVE FlowInv'
<1> USE DEF FlowInv
<1>1. step = "build" /\ UNCHANGED <<dirty, ordered, faults, outside, lived>> /\ safety' \in BOOLEAN
  BY DEF Build, BuildRefused, budget, TypeOK
<1>2. PICK x \in Dirs : /\ x = [live.dirs EXCEPT ![Candidate] = [id |-> live.journal.op, edit |-> 0]]
                        /\ x[Candidate] # NoGen
  BY <1>1, BuildFacts
<1>3. Touch("dirs", x)
  BY <1>2 DEF Build, BuildRefused
<1>4. /\ live' \in Snapshots /\ disk' \subseteq Snapshots /\ disk' # {}
      /\ live'.journal = live.journal /\ live'.dirs = x
  BY <1>3, TouchDirsFacts
<1>5. PhaseNow' = PhaseNow /\ Candidate' = Candidate
  BY <1>4, SameJournal
<1>6. CASE Build
  <2>1. half' = FALSE /\ step' = "PREPARED" /\ call' = call
    BY <1>1, <1>6, SucceedFacts DEF Build, Works
  <2>2. TypeOK' /\ StepInv' /\ PhaseInv'
    BY <1>1, <1>4, <1>5, <2>1 DEF TypeOK, StepInv, PhaseInv, Phases, Works
  <2>3. PlaceInv'
    BY <1>1, <1>2, <1>4, <1>5, <2>1 DEF PlaceInv, StepInv
  <2> QED BY <2>2, <2>3
<1>7. CASE BuildRefused
  <2>1. Except
    BY <1>7 DEF BuildRefused
  <2>2. call = "prepare"
    BY <1>1 DEF StepInv, Calls, TypeOK
  <2>3. half' = FALSE /\ \/ step' = "done" /\ call' = "none"
                         \/ step' = "FAILED" /\ call' = call
    BY <2>1, <2>2, ExceptFacts
  <2>4. TypeOK' /\ StepInv' /\ PhaseInv' /\ PlaceInv'
    BY <1>1, <1>4, <1>5, <2>2, <2>3
       DEF TypeOK, StepInv, PhaseInv, PlaceInv, Phases, Works, Calls
  <2> QED BY <2>4
<1> QED BY <1>6, <1>7

\* A profile that boots is there, and its journal is at an end or does not exist.
LEMMA BootFacts ==
    ASSUME FlowInv, KeepInv, BootAllowed
    PROVE  PhaseNow \in BOOT_PHASES \cup {"NONE"} /\ live.dirs[Profile] # NoGen
BY DEF BootAllowed, PhaseNow, Phase, KeepInv, Seen

\* A call begins where its guard lets it.
LEMMA FlowBegins ==
    ASSUME FlowInv, KeepInv, Select \/ Prepare \/ Cancel \/ Commit \/ Recover \/ Review
    PROVE  FlowInv'
<1> USE DEF FlowInv
<1>1. /\ UNCHANGED <<live, disk, safety, ordered, faults, outside, lived>> /\ dirty' \in BOOLEAN
      /\ half' = FALSE
  BY DEF Select, Prepare, Cancel, Commit, Recover, Review, BeginCall, fileSystem, budget, TypeOK
<1>2. PhaseNow' = PhaseNow /\ Op(live)' = Op(live)
  BY <1>1, SameJournal
<1>3. \/ /\ call' = "select" /\ step' = "INTENT"
         /\ PhaseNow \in BOOT_PHASES \cup {"NONE"} /\ live.dirs[Profile] # NoGen /\ Op(live) < MaxOps
      \/ call' = "prepare" /\ step' = "PREPARING" /\ PhaseNow = "INTENT"
      \/ /\ call' = "cancel" /\ step' = "CANCELLED"
         /\ PhaseNow \in {"INTENT", "PREPARING", "PREPARED", "FAILED"}
      \/ call' = "commit" /\ step' = "MOVING_ORIGINAL" /\ PhaseNow = "PREPARED"
      \/ call' = "recover" /\ step' = "match" /\ PhaseNow \in RecoverPhases
      \/ call' = "review" /\ step' = "REVIEWED" /\ PhaseNow = "APPLIED_AWAITING_REVIEW"
  <2>1. CASE Select
    BY <2>1, BootFacts DEF Select, BeginCall
  <2>2. CASE Prepare \/ Cancel \/ Commit \/ Review
    BY <2>2 DEF Prepare, Cancel, Commit, Review, BeginCall, PhaseNow
  <2>3. CASE Recover
    <3>1. PhaseNow \in Phases \cup {"NONE"}
      BY PhaseFacts DEF PhaseNow, TypeOK
    <3> QED BY <2>3, <3>1 DEF Recover, BeginCall, PhaseNow, Phases, BOOT_PHASES, RecoverPhases
  <2> QED BY <2>1, <2>2, <2>3
<1>4. TypeOK' /\ StepInv'
  BY <1>1, <1>3 DEF TypeOK, StepInv, Calls, Phases, Works
<1>5. PhaseInv' /\ PlaceInv'
  BY <1>1, <1>2, <1>3 DEF PhaseInv, PlaceInv, Phases
<1> QED BY <1>4, <1>5

\* The application begins and ends, and a process or the machine goes down.
LEMMA FlowApp ==
    ASSUME FlowInv, KeepInv, Boot \/ Quit \/ KillProcess
    PROVE  FlowInv'
<1> USE DEF FlowInv
<1>1. UNCHANGED <<live, disk, dirty, safety, ordered, outside>> /\ faults' \in 0 .. MaxFaults
  BY BoundsAssumption DEF Boot, Quit, KillProcess, fileSystem, budget, TypeOK
<1>2. PhaseNow' = PhaseNow
  BY <1>1, SameJournal
<1>3. lived' \subseteq 0 .. Foreign
  <2>1. CASE Boot
    <3>1. live.dirs[Profile] \in Gens
      BY <2>1, BootFacts, SnapshotFacts, PlaceFacts DEF Boot, TypeOK
    <3>2. live.dirs[Profile].id \in 0 .. Foreign
      BY <3>1, GenFacts
    <3> QED BY <2>1, <3>2 DEF Boot, TypeOK
  <2>2. CASE Quit \/ KillProcess
    BY <2>2 DEF Quit, KillProcess, budget, TypeOK
  <2> QED BY <2>1, <2>2
<1>4. CASE Boot
  <2>1. call' = "app" /\ step' = "done" /\ half' = FALSE
    BY <1>4 DEF Boot, BeginCall
  <2>2. PhaseNow \in BOOT_PHASES \cup {"NONE"} /\ live.dirs[Profile] # NoGen
    BY <1>4, BootFacts DEF Boot
  <2> QED BY <1>1, <1>2, <1>3, <2>1, <2>2
          DEF TypeOK, StepInv, PhaseInv, PlaceInv, Calls, Phases
<1>5. CASE Quit
  <2>1. call' = "none" /\ step' = step /\ half' = half /\ step = "done" /\ ~ half
    BY <1>5 DEF Quit, StepInv
  <2> QED BY <1>1, <1>2, <1>3, <2>1 DEF TypeOK, StepInv, PhaseInv, PlaceInv, Calls, Phases
<1>6. CASE KillProcess
  <2>1. call' = "none" /\ step' = "done" /\ half' = FALSE
    BY <1>6 DEF KillProcess
  <2> QED BY <1>1, <1>2, <1>3, <2>1 DEF TypeOK, StepInv, PhaseInv, PlaceInv, Calls, Phases
<1> QED BY <1>4, <1>5, <1>6

LEMMA FlowPowerLoss == ASSUME FlowInv, PowerLoss PROVE FlowInv'
<1> USE DEF FlowInv
<1>1. /\ call' = "none" /\ step' = "done" /\ half' = FALSE /\ faults' \in 0 .. MaxFaults
      /\ UNCHANGED <<ordered, dirty, safety, outside, lived>>
  BY BoundsAssumption DEF PowerLoss, TypeOK
<1>2. live' \in Snapshots /\ disk' \subseteq Snapshots /\ disk' # {}
  BY DEF PowerLoss, TypeOK
<1> QED BY <1>1, <1>2 DEF TypeOK, StepInv, PhaseInv, PlaceInv, Calls, Phases

\* An edit by the application or by somebody else.
LEMMA FlowRewrite ==
    ASSUME FlowInv, live' \in Snapshots, disk' \subseteq Snapshots, disk' # {},
           live'.journal = live.journal, Alike(live', live),
           UNCHANGED <<ordered, dirty, safety, call, step, half, faults, lived>>,
           outside' \in 0 .. MaxOutside
    PROVE  FlowInv'
<1> USE DEF FlowInv
<1>1. PhaseNow' = PhaseNow /\ Candidate' = Candidate /\ Op(live)' = Op(live)
  BY SameJournal
<1>2. TypeOK' /\ StepInv' /\ PhaseInv'
  BY <1>1 DEF TypeOK, StepInv, PhaseInv
<1>3. step = "PREPARED" => Candidate \in Places
  <2>1. step = "PREPARED" => PhaseNow \in {"PREPARING", "PREPARED"}
    BY DEF PhaseInv, TypeOK, Phases
  <2> QED BY <2>1, OpFacts, PlaceFacts DEF TypeOK, PhaseNow, Candidate
<1>4. PlaceInv'
  BY <1>1, <1>3, PlaceFacts DEF PlaceInv, Alike
<1> QED BY <1>2, <1>4

\* A directory somebody creates where the profile is missing.
LEMMA CreateFacts ==
    ASSUME FlowInv, live.dirs[Profile] = NoGen,
           live' = [live EXCEPT !.dirs[Profile] = [id |-> Foreign, edit |-> 0]],
           disk' = Reach(live', "dirs")
    PROVE  /\ live' \in Snapshots /\ disk' \subseteq Snapshots /\ disk' # {}
           /\ live'.journal = live.journal
           /\ live'.dirs[Profile] # NoGen /\ live'.dirs[Profile].id = Foreign
           /\ \A p \in Places : p # Profile => live'.dirs[p] = live.dirs[p]
           /\ \A d \in disk' : d.dirs = live'.dirs /\ \E e \in Seen : d.journal = e.journal
           /\ ordered => disk' = {live'}
<1> USE DEF FlowInv, TypeOK
<1>1. [id |-> Foreign, edit |-> 0] \in Gens
  BY GenFacts, BoundsAssumption DEF Foreign
<1>2. PICK g \in Gens : g = [id |-> Foreign, edit |-> 0] /\ g # NoGen /\ g.id = Foreign
  BY <1>1, GenFacts
<1>3. /\ live' \in Snapshots /\ live'.journal = live.journal
      /\ live'.dirs[Profile] = g
      /\ \A p \in Places : p # Profile => live'.dirs[p] = live.dirs[p]
  BY <1>2, PlaceFacts DEF Snapshots
<1>4. CASE ordered
  BY <1>2, <1>3, <1>4 DEF Reach, Seen
<1>5. CASE ~ ordered
  <2>1. disk' = {[d EXCEPT !["dirs"] = live'.dirs] : d \in disk}
    BY <1>5 DEF Reach
  <2>2. disk' # {}
    BY <2>1
  <2>3. live'.dirs \in Dirs
    BY <1>3, SnapshotFacts
  <2>4. ASSUME NEW d \in disk'
        PROVE  d \in Snapshots /\ d.dirs = live'.dirs /\ \E e \in disk : d.journal = e.journal
    <3>1. PICK e \in disk : d = [e EXCEPT !["dirs"] = live'.dirs]
      BY <2>1, <2>4
    <3>2. e \in Snapshots /\ live'.dirs \in Dirs
      BY <2>3
    <3>3. \A s \in Snapshots, y \in Dirs :
              /\ [s EXCEPT !["dirs"] = y] \in Snapshots
              /\ [s EXCEPT !["dirs"] = y].dirs = y /\ [s EXCEPT !["dirs"] = y].journal = s.journal
      BY SnapshotFacts
    <3>4. d \in Snapshots /\ d.dirs = live'.dirs /\ d.journal = e.journal
      BY <3>1, <3>2, <3>3
    <3> QED BY <3>4
  <2>5. \A d \in disk' : d.dirs = live'.dirs /\ \E e \in Seen : d.journal = e.journal
    BY <2>4 DEF Seen
  <2>6. disk' \subseteq Snapshots
    BY <2>4
  <2> QED BY <1>2, <1>3, <1>5, <2>2, <2>5, <2>6
<1> QED BY <1>4, <1>5

LEMMA FlowCreate ==
    ASSUME FlowInv, live' \in Snapshots, disk' \subseteq Snapshots, disk' # {},
           live'.journal = live.journal, live'.dirs[Profile] # NoGen,
           \A p \in Places : p # Profile => live'.dirs[p] = live.dirs[p],
           UNCHANGED <<ordered, dirty, safety, call, step, half, faults>>,
           lived' \subseteq 0 .. Foreign, outside' \in 0 .. MaxOutside
    PROVE  FlowInv'
<1> USE DEF FlowInv
<1>1. PhaseNow' = PhaseNow /\ Candidate' = Candidate /\ Op(live)' = Op(live)
  BY SameJournal
<1>2. TypeOK' /\ StepInv' /\ PhaseInv'
  BY <1>1 DEF TypeOK, StepInv, PhaseInv
<1>3. step = "PREPARED" => Candidate \in Places /\ Candidate # Profile
  <2>1. step = "PREPARED" => PhaseNow \in {"PREPARING", "PREPARED"}
    BY DEF PhaseInv, TypeOK, Phases
  <2> QED BY <2>1, OpFacts, PlaceFacts DEF TypeOK, PhaseNow, Candidate
<1>4. PlaceInv'
  BY <1>1, <1>3 DEF PlaceInv
<1> QED BY <1>2, <1>4

\* What the application or somebody else writes in the profile.
RewrittenStep ==
    /\ live' \in Snapshots /\ disk' \subseteq Snapshots /\ disk' # {}
    /\ live'.journal = live.journal /\ Alike(live', live)
    /\ \A d \in disk' : \E e \in Seen :
          /\ d.journal = e.journal /\ Alike(d, e)
          /\ e.dirs = live.dirs => d.dirs = live'.dirs
          /\ ordered => e = live
    /\ UNCHANGED <<ordered, dirty, safety, call, step, half, faults, lived>>
    /\ outside' \in outside .. MaxOutside /\ outside' \in 0 .. MaxOutside

CreatedStep ==
    /\ live.dirs[Profile] = NoGen
    /\ live' \in Snapshots /\ disk' \subseteq Snapshots /\ disk' # {}
    /\ live'.journal = live.journal
    /\ live'.dirs[Profile] # NoGen /\ live'.dirs[Profile].id = Foreign
    /\ \A p \in Places : p # Profile => live'.dirs[p] = live.dirs[p]
    /\ \A d \in disk' : d.dirs = live'.dirs /\ \E e \in Seen : d.journal = e.journal
    /\ ordered => disk' = {live'}
    /\ UNCHANGED <<ordered, dirty, safety, call, step, half, faults>>
    /\ lived' = lived \cup {Foreign} /\ lived' \subseteq 0 .. Foreign
    /\ outside' = outside + 1 /\ outside' \in 0 .. MaxOutside

LEMMA EditFacts == ASSUME FlowInv, Edit PROVE RewrittenStep
<1> USE DEF FlowInv
<1>1. live.dirs[Profile] # NoGen
  BY DEF Edit, PlaceInv
<1>2. PICK g \in Gens : g = live.dirs[Profile]
  BY <1>1, SnapshotFacts, PlaceFacts DEF TypeOK
<1>3. g.edit < MaxEdits /\ Rewrite(g, [g EXCEPT !.edit = @ + 1])
  BY <1>2 DEF Edit
<1>4. /\ UNCHANGED <<ordered, dirty, safety, call, step, half, faults, lived>>
      /\ outside' \in outside .. MaxOutside /\ outside' \in 0 .. MaxOutside
  BY BoundsAssumption DEF Edit, budget, TypeOK
<1> QED BY <1>3, <1>4, RewriteFacts DEF RewrittenStep

LEMMA OutsideFacts ==
    ASSUME FlowInv, Outside
    PROVE  \/ CreatedStep \/ RewrittenStep
           \/ /\ UNCHANGED <<live, disk, ordered, dirty, call, step, half, faults, lived>>
              /\ safety' = FALSE /\ outside' \in outside .. MaxOutside /\ outside' \in 0 .. MaxOutside
<1> USE DEF FlowInv
<1>1. /\ UNCHANGED <<ordered, dirty, call, step, half, faults>>
      /\ outside' = outside + 1 /\ outside' \in outside .. MaxOutside /\ outside' \in 0 .. MaxOutside
  BY BoundsAssumption DEF Outside, TypeOK
<1>2. CASE /\ live.dirs[Profile] = NoGen
           /\ live' = [live EXCEPT !.dirs[Profile] = [id |-> Foreign, edit |-> 0]]
           /\ disk' = Reach(live', "dirs")
           /\ lived' = lived \cup {Foreign} /\ UNCHANGED safety
  <2>1. lived' \subseteq 0 .. Foreign
    BY <1>2, BoundsAssumption DEF TypeOK, Foreign
  <2> QED BY <1>1, <1>2, <2>1, CreateFacts DEF CreatedStep
<1>3. CASE /\ live.dirs[Profile] # NoGen
           /\ live.dirs[Profile].edit < MaxEdits
           /\ Rewrite(live.dirs[Profile], [live.dirs[Profile] EXCEPT !.edit = @ + 1])
           /\ UNCHANGED <<safety, lived>>
  <2>1. PICK g \in Gens : g = live.dirs[Profile]
    BY <1>3, SnapshotFacts, PlaceFacts DEF TypeOK
  <2>2. g.edit < MaxEdits /\ Rewrite(g, [g EXCEPT !.edit = @ + 1])
    BY <1>3, <2>1
  <2> QED BY <1>1, <1>3, <2>2, RewriteFacts DEF RewrittenStep
<1>4. CASE safety /\ safety' = FALSE /\ UNCHANGED <<live, disk, lived>>
  BY <1>1, <1>4
<1> QED BY <1>2, <1>3, <1>4 DEF Outside

LEMMA FlowStep == ASSUME FlowInv, KeepInv, [Next]_vars PROVE FlowInv'
<1>1. CASE WriteJournal
  BY <1>1, FlowWrite
<1>2. CASE SyncJournal
  BY <1>2, FlowSync
<1>3. CASE Rename
  BY <1>3, FlowRename
<1>4. CASE SyncRename
  BY <1>4, FlowSyncRename
<1>5. CASE RenameRefused \/ Fail
  <2>1. /\ Except /\ step # "done" /\ UNCHANGED <<live, disk, dirty, safety, ordered, lived>>
        /\ faults' \in 0 .. MaxFaults /\ outside' \in 0 .. MaxOutside
    BY <1>5, BoundsAssumption
       DEF RenameRefused, Fail, RenameSteps, fileSystem, budget, FlowInv, TypeOK
  <2> QED BY <2>1, FlowFails
<1>6. CASE Copy
  BY <1>6, FlowSucceeds DEF Copy, Works, fileSystem, budget
<1>7. CASE Build \/ BuildRefused
  BY <1>7, FlowBuild
<1>8. CASE VerifyTree
  <2>1. step = "verify" /\ UNCHANGED <<live, disk, dirty, safety, budget>> /\ (Succeed \/ Except)
    BY <1>8 DEF VerifyTree, fileSystem
  <2>2. CASE Succeed
    BY <2>1, <2>2, FlowSucceeds DEF Works
  <2>3. CASE Except
    BY <2>1, <2>3, FlowFails DEF FlowInv, TypeOK, budget
  <2> QED BY <2>1, <2>2, <2>3
<1>9. CASE Match
  BY <1>9, FlowMatch
<1>10. CASE Select \/ Prepare \/ Cancel \/ Commit \/ Recover \/ Review
  BY <1>10, FlowBegins
<1>11. CASE Boot \/ Quit \/ KillProcess
  BY <1>11, FlowApp
<1>12. CASE PowerLoss
  BY <1>12, FlowPowerLoss
<1>13. CASE Edit
  BY <1>13, EditFacts, FlowRewrite DEF RewrittenStep
<1>14. CASE Outside
  <2>1. CASE CreatedStep
    BY <2>1, FlowCreate DEF CreatedStep
  <2>2. CASE RewrittenStep
    BY <2>2, FlowRewrite DEF RewrittenStep
  <2>3. CASE /\ UNCHANGED <<live, disk, ordered, dirty, call, step, half, faults, lived>>
             /\ safety' = FALSE /\ outside' \in 0 .. MaxOutside
    <3>1. PhaseNow' = PhaseNow /\ Candidate' = Candidate /\ Op(live)' = Op(live)
      BY <2>3, SameJournal
    <3>2. TypeOK' /\ StepInv'
      BY <2>3 DEF FlowInv, TypeOK, StepInv
    <3>3. PhaseInv' /\ PlaceInv'
      BY <2>3, <3>1 DEF FlowInv, PhaseInv, PlaceInv
    <3> QED BY <3>2, <3>3 DEF FlowInv
  <2> QED BY <1>14, <2>1, <2>2, <2>3, OutsideFacts
<1>15. CASE UNCHANGED vars
  <2>1. PhaseNow' = PhaseNow /\ Candidate' = Candidate /\ Op(live)' = Op(live)
    BY <1>15, SameJournal DEF vars
  <2> QED BY <1>15, <2>1 DEF vars, FlowInv, TypeOK, StepInv, PhaseInv, PlaceInv
<1> QED BY <1>1, <1>2, <1>3, <1>4, <1>5, <1>6, <1>7, <1>8, <1>9, <1>10, <1>11, <1>12, <1>13,
           <1>14, <1>15 DEF Next, Step

-----------------------------------------------------------------------------
(* What is on the disk when something is renamed *)

LEMMA SyncStep == ASSUME FlowInv, SyncInv, [Next]_vars PROVE SyncInv'
<1> USE DEF FlowInv
<1>1. CASE WriteJournal
  <2>1. PICK j \in Journals : j = Record(step)
    BY <1>1, RecordFacts DEF WriteJournal
  <2>2. Touch("journal", j) /\ step' = step /\ step \in Phases /\ half'
    BY <1>1, <2>1 DEF WriteJournal
  <2>3. step \notin RenameSteps \cup {"build"} /\ step # "promote"
    BY <2>2 DEF Phases, RenameSteps
  <2> QED BY <2>2, <2>3, TouchJournalFacts DEF SyncInv
<1>2. CASE SyncJournal
  <2>1. step \in Phases /\ half /\ PhaseNow = step /\ live' = live /\ Succeed /\ SyncDirectory("journal")
    BY <1>2 DEF SyncJournal, PhaseInv
  <2>2. live.journal \in Journals
    BY <2>1, OpFacts DEF TypeOK, PhaseNow, Phases
  <2>3. \A d \in disk' : d.journal = live.journal /\ (d = live \/ \E e \in disk : d.dirs = e.dirs)
    BY <2>1, <2>2, SyncJournalFacts
  <2>4. \/ step' \in {"ORIGINAL_MOVED", "PROMOTING", "promote"} => step \in {"ORIGINAL_MOVED", "PROMOTING"}
    BY <2>1, SucceedFacts DEF Phases
  <2> QED BY <2>1, <2>3, <2>4 DEF SyncInv
<1>3. CASE Rename
  <2>1. step \in RenameSteps /\ step' = step /\ half'
    BY <1>3 DEF Rename
  <2>2. PICK x \in Dirs : x = Moved(Source, Destination)
    BY <2>1, MovedFacts
  <2>3. Touch("dirs", x)
    BY <1>3, <2>2 DEF Rename
  <2>4. live'.journal = live.journal /\ \A d \in disk' : d.journal = live.journal
    BY <2>1, <2>3, TouchDirsFacts DEF SyncInv
  <2> QED BY <2>1, <2>4 DEF SyncInv, RenameSteps
<1>4. CASE SyncRename
  <2>1. step \in RenameSteps /\ live' = live /\ Succeed /\ SyncDirectory("dirs")
    BY <1>4 DEF SyncRename
  <2>2. \A d \in disk' : d.dirs = live.dirs
    BY <2>1, SyncDirsFacts
  <2>3. step' \in {"ORIGINAL_MOVED", "VERIFYING", "ROLLED_BACK"}
    BY <2>1, SucceedFacts DEF RenameSteps
  <2> QED BY <2>1, <2>2, <2>3 DEF SyncInv, RenameSteps
<1>5. CASE Build \/ BuildRefused
  <2>1. step = "build" /\ (Succeed \/ Except)
    BY <1>5 DEF Build, BuildRefused
  <2>2. step' \in {"PREPARED", "done", "FAILED", "match", "RECOVERY_REQUIRED"}
    BY <2>1, SucceedFacts, ExceptFacts DEF Works
  <2> QED BY <2>2 DEF SyncInv, RenameSteps
<1>6. CASE RenameRefused \/ Fail \/ Copy \/ VerifyTree \/ Match
  <2>1. \/ Except \/ Match
        \/ Succeed /\ step \in {"copy", "verify"}
    BY <1>6 DEF RenameRefused, Fail, Copy, VerifyTree
  <2>2. step' \notin RenameSteps \cup {"build", "ORIGINAL_MOVED", "PROMOTING"}
    BY <2>1, SucceedFacts, ExceptFacts, MatchFacts DEF Works, RenameSteps
  <2> QED BY <2>2 DEF SyncInv, RenameSteps
<1>7. CASE Select \/ Prepare \/ Cancel \/ Commit \/ Recover \/ Review \/ Boot
  <2>1. step' \notin RenameSteps \cup {"build", "ORIGINAL_MOVED", "PROMOTING"}
    BY <1>7 DEF Select, Prepare, Cancel, Commit, Recover, Review, Boot, BeginCall, RenameSteps
  <2> QED BY <2>1 DEF SyncInv, RenameSteps
<1>8. CASE KillProcess \/ PowerLoss \/ Quit
  <2>1. step' = "done"
    BY <1>8 DEF KillProcess, PowerLoss, Quit, StepInv
  <2> QED BY <2>1 DEF SyncInv, RenameSteps
<1>9. ASSUME RewrittenStep PROVE SyncInv'
  <2>1. \A d \in disk' : \E e \in Seen : d.journal = e.journal /\ (e.dirs = live.dirs => d.dirs = live'.dirs)
    BY <1>9 DEF RewrittenStep
  <2> QED BY <1>9, <2>1 DEF SyncInv, Seen, RewrittenStep
<1>10. ASSUME CreatedStep PROVE SyncInv'
  <2>1. \A d \in disk' : d.dirs = live'.dirs /\ \E e \in Seen : d.journal = e.journal
    BY <1>10 DEF CreatedStep
  <2> QED BY <1>10, <2>1 DEF SyncInv, Seen, CreatedStep
<1>11. CASE Edit
  BY <1>9, <1>11, EditFacts
<1>12. CASE Outside
  <2>1. CASE UNCHANGED <<live, disk, step, half>>
    BY <2>1 DEF SyncInv
  <2> QED BY <1>9, <1>10, <1>12, <2>1, OutsideFacts
<1>13. CASE UNCHANGED vars
  BY <1>13 DEF SyncInv, vars
<1> QED BY <1>1, <1>2, <1>3, <1>4, <1>5, <1>6, <1>7, <1>8, <1>11, <1>12, <1>13 DEF Next, Step

-----------------------------------------------------------------------------
(* What is kept *)

LEMMA AlikeHolds ==
    ASSUME NEW s, NEW t, Alike(s, t), NEW id
    PROVE  Holds(s, id) <=> Holds(t, id)
BY DEF Alike, Holds

\* Nothing is lost by a step that brings no snapshot with other generations.
LEMMA KeepAlike ==
    ASSUME KeepInv,
           \A d \in Seen' : /\ \E e \in Seen : Alike(d, e)
                            /\ d.journal = NoJournal => d.dirs[Profile] # NoGen,
           \A id \in lived' : \A e \in Seen : Holds(e, id)
    PROVE  KeepInv'
<1> SUFFICES ASSUME NEW d \in Seen'
             PROVE  /\ \A o \in 1 .. MaxOps :
                          d.dirs[<<"candidate", o>>] # NoGen => d.dirs[<<"candidate", o>>].id = o
                    /\ d.journal = NoJournal => d.dirs[Profile] # NoGen
                    /\ \A id \in lived' : Holds(d, id)
                    /\ \A e \in Seen' : \A p \in KeptPlaces :
                          e.dirs[p] # NoGen => Holds(d, e.dirs[p].id)
  BY DEF KeepInv
<1>1. PICK c \in Seen : Alike(d, c)
  OBVIOUS
<1>2. \A o \in 1 .. MaxOps : d.dirs[<<"candidate", o>>] # NoGen => d.dirs[<<"candidate", o>>].id = o
  BY <1>1, PlaceFacts DEF KeepInv, Alike
<1>3. \A id \in lived' : Holds(d, id)
  BY <1>1, AlikeHolds
<1>4. ASSUME NEW e \in Seen', NEW p \in KeptPlaces, e.dirs[p] # NoGen
      PROVE  Holds(d, e.dirs[p].id)
  <2>1. PICK f \in Seen : Alike(e, f)
    OBVIOUS
  <2>2. f.dirs[p] # NoGen /\ f.dirs[p].id = e.dirs[p].id
    BY <1>4, <2>1, PlaceFacts DEF Alike
  <2>3. Holds(c, e.dirs[p].id)
    BY <2>2 DEF KeepInv
  <2> QED BY <1>1, <2>3, AlikeHolds
<1> QED BY <1>2, <1>3, <1>4

\* Nor by one that moves generations, when what comes to a kept place is in
\* every snapshot already.
LEMMA KeepMoves ==
    ASSUME KeepInv, lived' = lived, NEW m, live' = m,
           \A d \in Seen' : /\ d \in Seen \/ d.dirs = m.dirs
                            /\ d.journal = NoJournal => d.dirs[Profile] # NoGen,
           \A id : Holds(live, id) => Holds(m, id),
           \A o \in 1 .. MaxOps :
              m.dirs[<<"candidate", o>>] # NoGen => m.dirs[<<"candidate", o>>].id = o,
           \A p \in KeptPlaces : m.dirs[p] # NoGen => \A e \in Seen : Holds(e, m.dirs[p].id)
    PROVE  KeepInv'
<1> SUFFICES ASSUME NEW d \in Seen'
             PROVE  /\ \A o \in 1 .. MaxOps :
                          d.dirs[<<"candidate", o>>] # NoGen => d.dirs[<<"candidate", o>>].id = o
                    /\ d.journal = NoJournal => d.dirs[Profile] # NoGen
                    /\ \A id \in lived' : Holds(d, id)
                    /\ \A e \in Seen' : \A p \in KeptPlaces :
                          e.dirs[p] # NoGen => Holds(d, e.dirs[p].id)
  BY DEF KeepInv
<1>1. \A o \in 1 .. MaxOps : d.dirs[<<"candidate", o>>] # NoGen => d.dirs[<<"candidate", o>>].id = o
  BY DEF KeepInv
<1>2. live \in Seen
  BY DEF Seen
<1>3. ASSUME NEW id, \A e \in Seen : Holds(e, id) PROVE Holds(d, id)
  <2>1. Holds(m, id)
    BY <1>2, <1>3
  <2> QED BY <1>3, <2>1 DEF Holds
<1>4. \A id \in lived' : Holds(d, id)
  BY <1>3 DEF KeepInv
<1>5. ASSUME NEW e \in Seen', NEW p \in KeptPlaces, e.dirs[p] # NoGen
      PROVE  Holds(d, e.dirs[p].id)
  <2>1. \A c \in Seen : Holds(c, e.dirs[p].id)
    BY <1>5 DEF KeepInv
  <2> QED BY <1>3, <2>1
<1> QED BY <1>1, <1>4, <1>5

LEMMA KeepInit == Init => KeepInv
<1> SUFFICES ASSUME Init PROVE KeepInv
  OBVIOUS
<1>1. PICK s : /\ s = [journal |-> NoJournal,
                       dirs |-> [p \in Places |-> IF p = Profile THEN [id |-> 0, edit |-> 0] ELSE NoGen]]
               /\ live = s /\ disk = {s} /\ lived = {0}
  BY DEF Init
<1>2. [id |-> 0, edit |-> 0] # NoGen
  BY GenFacts, BoundsAssumption DEF Foreign
<1>3. s.dirs[Profile] = [id |-> 0, edit |-> 0] /\ \A p \in Places : p # Profile => s.dirs[p] = NoGen
  BY <1>1, PlaceFacts
<1>4. Holds(s, 0)
  BY <1>2, <1>3, PlaceFacts DEF Holds
<1>5. \A o \in 1 .. MaxOps : s.dirs[<<"candidate", o>>] = NoGen
  BY <1>3, PlaceFacts
<1>6. \A p \in KeptPlaces : s.dirs[p] # NoGen => s.dirs[p].id = 0
  BY <1>3, PlaceFacts
<1>7. s.dirs[Profile] # NoGen
  BY <1>2, <1>3
<1>8. Seen = {s} /\ lived = {0}
  BY <1>1 DEF Seen
<1> QED BY <1>4, <1>5, <1>6, <1>7, <1>8 DEF KeepInv

LEMMA KeepRename == ASSUME FlowInv, SyncInv, KeepInv, Rename PROVE KeepInv'
<1>1. step \in RenameSteps /\ ~ half /\ MayRename(Source, Destination) /\ lived' = lived
  BY DEF Rename, budget
<1>2. PICK x \in Dirs, a \in Places, b \in KeptPlaces :
         /\ x = Moved(Source, Destination) /\ a = Source /\ b = Destination /\ a # b
         /\ \A p \in Places : x[p] = IF p = b THEN live.dirs[a] ELSE IF p = a THEN NoGen ELSE live.dirs[p]
         /\ live.dirs[a] # NoGen /\ live.dirs[b] = NoGen
  <2>1. Source \in Places /\ Destination \in KeptPlaces /\ Source # Destination
    BY <1>1, RenameFacts
  <2>2. live.dirs[Source] # NoGen /\ live.dirs[Destination] = NoGen
    BY <1>1 DEF MayRename
  <2> QED BY <1>1, <2>1, <2>2, MovedFacts
<1>3. Touch("dirs", x)
  BY <1>2 DEF Rename
<1>4. TypeOK /\ b \in Places
  BY PlaceFacts DEF FlowInv
<1>5. PICK m : m = live' /\ m.dirs = x /\ m.journal = live.journal
  BY <1>3, <1>4, TouchDirsFacts
<1>6. live.journal \in Journals /\ \A d \in disk : d.journal = live.journal
  BY <1>1, RenameFacts DEF SyncInv
<1>7. \A d \in Seen' : /\ d \in Seen \/ d.dirs = m.dirs
                       /\ d.journal = NoJournal => d.dirs[Profile] # NoGen
  <2>1. \A d \in disk' : /\ d \in disk \/ d.dirs = x
                         /\ d.journal = live.journal
    BY <1>3, <1>4, <1>6, TouchDirsFacts
  <2>2. live.journal # NoJournal
    BY <1>6, JournalFacts
  <2> QED BY <1>5, <2>1, <2>2 DEF Seen
<1>8. ASSUME NEW id, Holds(live, id) PROVE Holds(m, id)
  <2>1. PICK p \in Places : live.dirs[p] # NoGen /\ live.dirs[p].id = id
    BY <1>8 DEF Holds
  <2>2. CASE p = a
    BY <1>2, <1>4, <1>5, <2>1, <2>2 DEF Holds
  <2>3. CASE p # a
    BY <1>2, <1>4, <1>5, <2>1, <2>3 DEF Holds
  <2> QED BY <2>2, <2>3
<1>9. ASSUME NEW o \in 1 .. MaxOps, m.dirs[<<"candidate", o>>] # NoGen
      PROVE  m.dirs[<<"candidate", o>>].id = o
  <2>1. <<"candidate", o>> \in Places /\ <<"candidate", o>> # b
    BY PlaceFacts
  <2>2. m.dirs[<<"candidate", o>>] = live.dirs[<<"candidate", o>>]
    BY <1>2, <1>5, <1>9, <2>1
  <2> QED BY <1>9, <2>2 DEF KeepInv, Seen
<1>10. ASSUME NEW p \in KeptPlaces, m.dirs[p] # NoGen, NEW e \in Seen
       PROVE  Holds(e, m.dirs[p].id)
  <2>1. p \in Places
    BY PlaceFacts
  <2>2. CASE p # b
    <3>1. m.dirs[p] = live.dirs[p]
      BY <1>2, <1>5, <1>10, <2>1, <2>2
    <3> QED BY <1>10, <3>1 DEF KeepInv, Seen
  <2>3. CASE p = b /\ a \in KeptPlaces
    <3>1. m.dirs[p] = live.dirs[a]
      BY <1>2, <1>5, <2>1, <2>3
    <3> QED BY <1>10, <2>3, <3>1 DEF KeepInv, Seen
  <2>4. CASE p = b /\ a \notin KeptPlaces
    <3>1. step = "promote"
      BY <1>1, <1>2, <2>4, RenameFacts, PlaceFacts
    <3>2. e.dirs = live.dirs
      BY <1>1, <3>1 DEF SyncInv, Seen
    <3>3. m.dirs[p] = live.dirs[a]
      BY <1>2, <1>5, <2>1, <2>4
    <3> QED BY <1>2, <3>2, <3>3 DEF Holds
  <2> QED BY <2>2, <2>3, <2>4
<1> HIDE DEF Seen
<1> QED BY <1>1, <1>5, <1>7, <1>8, <1>9, <1>10, KeepMoves

LEMMA KeepBuild == ASSUME FlowInv, SyncInv, KeepInv, Build \/ BuildRefused PROVE KeepInv'
<1>1. step = "build" /\ lived' = lived
  BY DEF Build, BuildRefused, budget
<1>2. PICK x \in Dirs, c \in Places, o \in 1 .. MaxOps :
         /\ x = [live.dirs EXCEPT ![Candidate] = [id |-> live.journal.op, edit |-> 0]]
         /\ c = Candidate /\ c = <<"candidate", o>> /\ c \notin KeptPlaces
         /\ \A p \in Places : p # c => x[p] = live.dirs[p]
         /\ x[c] # NoGen /\ x[c].id = o
  BY <1>1, BuildFacts
<1>3. Touch("dirs", x)
  BY <1>2 DEF Build, BuildRefused
<1>4. TypeOK
  BY DEF FlowInv
<1>5. PICK m : m = live' /\ m.dirs = x /\ m.journal = live.journal
  BY <1>3, <1>4, TouchDirsFacts
<1>6. live.journal \in Journals /\ \A d \in disk : d.journal = live.journal
  BY <1>1, BuildFacts DEF SyncInv
<1>7. \A d \in Seen' : /\ d \in Seen \/ d.dirs = m.dirs
                       /\ d.journal = NoJournal => d.dirs[Profile] # NoGen
  <2>1. \A d \in disk' : /\ d \in disk \/ d.dirs = x
                         /\ d.journal = live.journal
    BY <1>3, <1>4, <1>6, TouchDirsFacts
  <2>2. live.journal # NoJournal
    BY <1>6, JournalFacts
  <2> QED BY <1>5, <2>1, <2>2 DEF Seen
<1>8. ASSUME NEW id, Holds(live, id) PROVE Holds(m, id)
  <2>1. PICK p \in Places : live.dirs[p] # NoGen /\ live.dirs[p].id = id
    BY <1>8 DEF Holds
  <2>2. CASE p = c
    <3>1. id = o
      BY <1>2, <2>1, <2>2 DEF KeepInv, Seen
    <3> QED BY <1>2, <1>5, <3>1 DEF Holds
  <2>3. CASE p # c
    BY <1>2, <1>5, <2>1, <2>3 DEF Holds
  <2> QED BY <2>2, <2>3
<1>9. ASSUME NEW i \in 1 .. MaxOps, m.dirs[<<"candidate", i>>] # NoGen
      PROVE  m.dirs[<<"candidate", i>>].id = i
  <2>1. <<"candidate", i>> \in Places
    BY PlaceFacts
  <2>2. CASE i = o
    BY <1>2, <1>5, <2>2
  <2>3. CASE i # o
    <3>1. <<"candidate", i>> # c
      BY <1>2, <2>3
    <3>2. m.dirs[<<"candidate", i>>] = live.dirs[<<"candidate", i>>]
      BY <1>2, <1>5, <2>1, <3>1
    <3> QED BY <1>9, <3>2 DEF KeepInv, Seen
  <2> QED BY <2>2, <2>3
<1>10. ASSUME NEW p \in KeptPlaces, m.dirs[p] # NoGen, NEW e \in Seen
       PROVE  Holds(e, m.dirs[p].id)
  <2>1. m.dirs[p] = live.dirs[p]
    BY <1>2, <1>5, PlaceFacts
  <2> QED BY <1>10, <2>1 DEF KeepInv, Seen
<1> HIDE DEF Seen
<1> QED BY <1>1, <1>5, <1>7, <1>8, <1>9, <1>10, KeepMoves

LEMMA KeepCreate == ASSUME FlowInv, KeepInv, CreatedStep PROVE KeepInv'
<1>1. PICK m : m = live'
  OBVIOUS
<1>2. /\ m.dirs[Profile] # NoGen /\ m.dirs[Profile].id = Foreign /\ live.dirs[Profile] = NoGen
      /\ \A p \in Places : p # Profile => m.dirs[p] = live.dirs[p]
      /\ lived' = lived \cup {Foreign}
      /\ \A d \in Seen' : d.dirs = m.dirs
  BY <1>1 DEF CreatedStep, Seen
<1>3. ASSUME NEW id, Holds(live, id) PROVE Holds(m, id)
  <2>1. PICK p \in Places : live.dirs[p] # NoGen /\ live.dirs[p].id = id
    BY <1>3 DEF Holds
  <2> QED BY <1>2, <2>1 DEF Holds
<1>4. \A id \in lived' : Holds(m, id)
  BY <1>2, <1>3, PlaceFacts DEF KeepInv, Seen, Holds
<1>5. \A p \in KeptPlaces : m.dirs[p] # NoGen => Holds(m, m.dirs[p].id)
  BY PlaceFacts DEF Holds
<1>6. \A o \in 1 .. MaxOps : m.dirs[<<"candidate", o>>] # NoGen => m.dirs[<<"candidate", o>>].id = o
  BY <1>2, PlaceFacts DEF KeepInv, Seen
<1>7. \A d \in Seen' : \A id : Holds(m, id) => Holds(d, id)
  BY <1>2 DEF Holds
<1> HIDE DEF Seen
<1> QED BY <1>2, <1>4, <1>5, <1>6, <1>7 DEF KeepInv

LEMMA KeepStep == ASSUME FlowInv, SyncInv, KeepInv, [Next]_vars PROVE KeepInv'
<1>1. TypeOK /\ live \in Snapshots /\ disk \subseteq Snapshots
  BY DEF FlowInv, TypeOK
<1>2. \A id \in lived : \A e \in Seen : Holds(e, id)
  BY DEF KeepInv
<1>3. \A e \in Seen : e.journal = NoJournal => e.dirs[Profile] # NoGen
  BY DEF KeepInv
<1>4. \A s, t : s.dirs = t.dirs => Alike(s, t)
  BY DEF Alike
<1>5. CASE WriteJournal
  <2>1. PICK j \in Journals : j = Record(step)
    BY <1>5, RecordFacts DEF WriteJournal, FlowInv
  <2>2. Touch("journal", j) /\ lived' = lived
    BY <1>5, <2>1 DEF WriteJournal, budget
  <2>3. ASSUME NEW d \in Seen'
        PROVE  \E e \in Seen : d.dirs = e.dirs /\ (d.journal = NoJournal => d = e)
    BY <1>1, <2>2, TouchJournalFacts, JournalFacts DEF Seen
  <2>4. \A d \in Seen' : /\ \E e \in Seen : Alike(d, e)
                         /\ d.journal = NoJournal => d.dirs[Profile] # NoGen
    BY <1>3, <1>4, <2>3
  <2> QED BY <1>2, <2>2, <2>4, KeepAlike
<1>6. CASE SyncJournal
  <2>1. step \in Phases /\ half /\ PhaseNow = step /\ live' = live /\ lived' = lived /\ SyncDirectory("journal")
    BY <1>6 DEF SyncJournal, PhaseInv, budget, FlowInv
  <2>2. live.journal \in Journals /\ live.journal # NoJournal
    BY <1>1, <2>1, OpFacts, JournalFacts DEF PhaseNow, Phases
  <2>3. \A d \in Seen' : d.journal # NoJournal /\ \E e \in Seen : d.dirs = e.dirs
    BY <1>1, <2>1, <2>2, SyncJournalFacts DEF Seen
  <2>4. \A d \in Seen' : /\ \E e \in Seen : Alike(d, e)
                         /\ d.journal = NoJournal => d.dirs[Profile] # NoGen
    BY <1>4, <2>3
  <2> QED BY <1>2, <2>1, <2>4, KeepAlike
<1>7. CASE SyncRename
  <2>1. step \in RenameSteps /\ live' = live /\ lived' = lived /\ SyncDirectory("dirs")
    BY <1>7 DEF SyncRename, budget
  <2>2. live.journal # NoJournal /\ \A d \in disk : d.journal = live.journal
    BY <2>1, RenameFacts, JournalFacts DEF SyncInv
  <2>3. \A d \in Seen' : d.journal # NoJournal /\ \E e \in Seen : d.dirs = e.dirs
    BY <1>1, <2>1, <2>2, SyncDirsFacts DEF Seen
  <2>4. \A d \in Seen' : /\ \E e \in Seen : Alike(d, e)
                         /\ d.journal = NoJournal => d.dirs[Profile] # NoGen
    BY <1>4, <2>3
  <2> QED BY <1>2, <2>1, <2>4, KeepAlike
<1>8. CASE Rename
  BY <1>8, KeepRename
<1>9. CASE Build \/ BuildRefused
  BY <1>9, KeepBuild
<1>10. ASSUME UNCHANGED <<live, disk, lived>> PROVE KeepInv'
  BY <1>10 DEF KeepInv, Seen
<1>11. CASE \/ RenameRefused \/ Copy \/ VerifyTree \/ Match \/ Select \/ Prepare \/ Cancel
            \/ Commit \/ Recover \/ Review \/ Quit \/ Fail \/ KillProcess \/ UNCHANGED vars
  BY <1>10, <1>11 DEF RenameRefused, Copy, VerifyTree, Match, Select, Prepare, Cancel, Commit,
                      Recover, Review, Quit, Fail, KillProcess, vars, fileSystem, budget
<1>12. CASE Boot
  <2>1. UNCHANGED <<live, disk>> /\ lived' = lived \cup {live.dirs[Profile].id}
    BY <1>12, BootFacts DEF Boot, fileSystem
  <2>2. live.dirs[Profile] # NoGen
    BY <1>12, BootFacts DEF Boot
  <2>3. \A e \in Seen : Holds(e, live.dirs[Profile].id)
    BY <2>2, PlaceFacts DEF KeepInv, Seen
  <2>4. Seen' = Seen
    BY <2>1 DEF Seen
  <2> QED BY <2>1, <2>3, <2>4 DEF KeepInv
<1>13. CASE PowerLoss
  <2>1. PICK s \in disk : live' = s /\ disk' = {s}
    BY <1>13 DEF PowerLoss
  <2>2. lived' = lived /\ Seen' = {s} /\ s \in Seen
    BY <1>13, <2>1 DEF PowerLoss, Seen
  <2> QED BY <2>2 DEF KeepInv
<1>14. ASSUME RewrittenStep PROVE KeepInv'
  <2>1. \A d \in Seen' : \E e \in Seen : d.journal = e.journal /\ Alike(d, e)
    BY <1>14 DEF RewrittenStep, Seen
  <2>2. \A d \in Seen' : /\ \E e \in Seen : Alike(d, e)
                         /\ d.journal = NoJournal => d.dirs[Profile] # NoGen
    BY <1>3, <2>1, PlaceFacts DEF Alike
  <2>3. lived' = lived
    BY <1>14 DEF RewrittenStep
  <2> QED BY <1>2, <2>2, <2>3, KeepAlike
<1>15. CASE Edit
  BY <1>14, <1>15, EditFacts
<1>16. CASE Outside
  BY <1>10, <1>14, <1>16, OutsideFacts, KeepCreate
<1> QED BY <1>5, <1>6, <1>7, <1>8, <1>9, <1>11, <1>12, <1>13, <1>15, <1>16 DEF Next, Step

-----------------------------------------------------------------------------
(* What a journal at rest promises *)

\* What fits is decided by the journal and the profile alone.
LEMMA FitsCopy ==
    ASSUME NEW d, NEW e, FitsJournal(e), d.journal = e.journal,
           Free(d) <=> Free(e),
           ~ Free(e) => d.dirs[Profile].id = e.dirs[Profile].id
    PROVE  FitsJournal(d) /\ (Firm(e) => Firm(d))
<1>1. Phase(d) = Phase(e) /\ Promised(d) = Promised(e)
  BY DEF Phase, Promised
<1> QED BY <1>1 DEF FitsJournal, Firm, AtRest, Prepared, Shows, Free

\* As it is when the journal says that it is at work.
LEMMA FitsAtWork ==
    ASSUME NEW d, NEW e, FitsJournal(e), d.journal = e.journal, ~ AtRest(e)
    PROVE  FitsJournal(d) /\ (Firm(e) => Firm(d))
<1>1. Phase(d) = Phase(e)
  BY DEF Phase
<1> QED BY <1>1 DEF FitsJournal, Firm, AtRest, Prepared

\* Everything a power loss may bring back shows what the journal promises.
LEMMA RestPromises ==
    ASSUME FitInv, LooseInv, ~ ordered, outside = 0, AtRest(live), NEW d \in Seen
    PROVE  Shows(d, Promised(live))
<1>1. Shows(live, Promised(live))
  BY DEF FitInv, Seen, FitsJournal, Certain, FitAll, FitSteps
<1>2. CASE Free(live)
  BY <1>2 DEF LooseInv, Seen, Free, Shows, LooseAll
<1>3. CASE ~ Free(live)
  <2>1. SameProfile(d, live)
    BY DEF LooseInv, Seen, LooseAll
  <2> QED BY <1>1, <1>3, <2>1 DEF SameProfile, Free, Shows
<1> QED BY <1>2, <1>3

\* The journal a step writes fits the profile, and whatever else a power loss
\* may bring back with it.
LEMMA RecordFits ==
    ASSUME FlowInv, KeepInv, FitInv, LooseInv, Certain, step \in Phases, ~ half,
           NEW d, d.journal = Record(step),
           \/ d.dirs = live.dirs
           \/ ~ ordered /\ \E e \in disk : d.dirs = e.dirs
    PROVE  FitsJournal(d) /\ (ordered => Firm(d))
<1> USE DEF FlowInv
<1>1. PICK j \in Journals :
         /\ j = Record(step) /\ j.phase = step /\ j # NoJournal
         /\ step # "INTENT" => j.op = live.journal.op /\ j.base = live.journal.base
         /\ step = "PREPARING" => j.old = live.dirs[Profile]
         /\ step = "PREPARED"  => j.new = live.dirs[Candidate]
         /\ step \notin {"INTENT", "PREPARING"} => j.old = live.journal.old
         /\ step \notin {"INTENT", "PREPARED"} => j.new = live.journal.new
         /\ step = "INTENT" => j.base = live.dirs[Profile].id /\ j.old = NoGen
  BY RecordFacts, JournalFacts
<1>2. /\ Phase(d) = step
      /\ Promised(d) = IF step \in {"APPLIED_AWAITING_REVIEW", "REVIEWED"} THEN j.new.id ELSE j.base
  BY <1>1 DEF Phase, Promised, Phases
<1>3. /\ FitsJournal(live) /\ (ordered => Firm(live))
      /\ Phase(live) = PhaseNow
      /\ Promised(live) = IF PhaseNow \in {"APPLIED_AWAITING_REVIEW", "REVIEWED"} THEN live.journal.new.id
                          ELSE IF PhaseNow = "NONE" THEN 0 ELSE live.journal.base
  BY DEF FitInv, Certain, Seen, PhaseNow, Promised, FitAll, FitSteps
<1>4. Free(d) => Free(live) \/ ~ ordered
  BY DEF Free
\* What the live profile shows, all of them show.
<1>5. ASSUME NEW id, ~ Free(live), Shows(live, id) PROVE Shows(d, id)
  <2>1. CASE d.dirs = live.dirs
    BY <1>5, <2>1 DEF Shows
  <2>2. CASE ~ ordered /\ \E e \in disk : d.dirs = e.dirs
    <3>1. PICK e \in disk : d.dirs = e.dirs
      BY <2>2
    <3>2. SameProfile(e, live)
      BY <2>2 DEF LooseInv, Seen, Certain, LooseAll
    <3> QED BY <1>5, <3>1, <3>2 DEF SameProfile, Free, Shows
  <2> QED BY <2>1, <2>2
\* What the journal at rest promises, all of them show.
<1>6. AtRest(live) => Shows(d, Promised(live))
  <2>1. CASE d.dirs = live.dirs
    BY <1>3, <2>1 DEF Shows, FitsJournal
  <2>2. CASE ~ ordered /\ \E e \in disk : d.dirs = e.dirs
    <3>1. PICK e \in disk : d.dirs = e.dirs
      BY <2>2
    <3>2. AtRest(live) => Shows(e, Promised(live))
      BY <2>2, RestPromises DEF Certain, Seen
    <3> QED BY <3>1, <3>2 DEF Shows
  <2> QED BY <2>1, <2>2
<1>7. CASE step = "INTENT"
  <2>1. ~ Free(live) /\ Shows(live, j.base)
    BY <1>1, <1>7 DEF PlaceInv, Free, Shows
  <2> QED BY <1>1, <1>2, <1>4, <1>5, <1>7, <2>1
          DEF FitsJournal, Firm, Prepared, AtRest, RecoverPhases
<1>8. CASE step = "PREPARING"
  <2>1. PhaseNow = "INTENT" /\ AtRest(live)
    BY <1>3, <1>8 DEF PhaseInv, AtRest
  <2>2. Shows(live, live.journal.base) /\ Shows(d, j.base)
    BY <1>1, <1>3, <1>6, <1>8, <2>1 DEF FitsJournal
  <2>3. ordered => ~ Free(live)
    BY <1>3, <2>1 DEF Firm
  <2> QED BY <1>1, <1>2, <1>4, <1>8, <2>2, <2>3
          DEF FitsJournal, Firm, Prepared, RecoverPhases, Shows, Free
<1>9. CASE step = "PREPARED"
  <2>1. PhaseNow = "PREPARING" /\ AtRest(live)
    BY <1>3, <1>9 DEF PhaseInv, AtRest
  <2>2. Shows(d, j.base)
    BY <1>1, <1>3, <1>6, <1>9, <2>1
  <2>3. ordered => ~ Free(live) /\ live.journal.old # NoGen
    BY <1>3, <2>1 DEF Firm
  <2>4. j.new # NoGen /\ j.new.id = j.op
    <3>1. Op(live) \in 1 .. MaxOps /\ Op(live) = live.journal.op
      BY <2>1, OpFacts DEF TypeOK, PhaseNow
    <3> QED BY <1>1, <1>9, <3>1 DEF PlaceInv, KeepInv, Seen, Candidate
  <2> QED BY <1>1, <1>2, <1>3, <1>4, <1>9, <2>1, <2>2, <2>3, <2>4
          DEF FitsJournal, Firm, Prepared, RecoverPhases
<1>10. CASE step \in {"CANCELLED", "FAILED"}
  <2>1. PhaseNow \in {"INTENT", "PREPARING", "PREPARED", "FAILED"} /\ AtRest(live)
    BY <1>3, <1>10 DEF PhaseInv, AtRest, BOOT_PHASES, Phases
  <2>2. Shows(d, j.base)
    BY <1>1, <1>3, <1>6, <1>10, <2>1
  <2>3. ordered => ~ Free(live)
    BY <1>3, <2>1 DEF Firm
  <2> QED BY <1>1, <1>2, <1>3, <1>4, <1>10, <2>1, <2>2, <2>3
          DEF FitsJournal, Firm, Prepared, RecoverPhases
\* From here on the operation was prepared.
<1>11. ASSUME step \notin {"INTENT", "PREPARING", "PREPARED", "CANCELLED", "FAILED"}
       PROVE  /\ j.old # NoGen => j.old.id = j.base
              /\ j.new # NoGen /\ j.new.id = j.op
              /\ ordered => j.old # NoGen
  <2>1. PhaseNow \in RecoverPhases \cup {"PREPARED", "ROLLED_BACK"}
    BY <1>11 DEF PhaseInv, Phases, RecoverPhases
  <2>2. Prepared(live) /\ Phase(live) # "NONE"
    BY <1>3, <2>1 DEF Prepared, RecoverPhases
  <2> QED BY <1>1, <1>3, <1>11, <2>2 DEF FitsJournal, Firm
<1>12. CASE step \in {"MOVING_ORIGINAL", "ORIGINAL_MOVED", "PROMOTING", "VERIFYING",
                      "ROLLING_BACK", "RECOVERY_REQUIRED"}
  BY <1>1, <1>2, <1>11, <1>12 DEF FitsJournal, Firm, AtRest, BOOT_PHASES
<1>13. CASE step = "APPLIED_AWAITING_REVIEW"
  <2>1. ~ Free(live) /\ Shows(live, j.new.id)
    BY <1>1, <1>11, <1>13 DEF FitInv, Certain, Free, Shows, FitAll, FitSteps
  <2> QED BY <1>1, <1>2, <1>4, <1>5, <1>11, <1>13, <2>1 DEF FitsJournal, Firm
<1>14. CASE step = "REVIEWED"
  <2>1. PhaseNow = "APPLIED_AWAITING_REVIEW" /\ AtRest(live)
    BY <1>3, <1>14 DEF PhaseInv, AtRest
  <2>2. Shows(d, j.new.id)
    BY <1>1, <1>3, <1>6, <1>14, <2>1
  <2>3. ordered => ~ Free(live)
    BY <1>3, <2>1 DEF Firm
  <2> QED BY <1>1, <1>2, <1>4, <1>11, <1>14, <2>2, <2>3 DEF FitsJournal, Firm
<1>15. CASE step = "ROLLED_BACK"
  <2>1. (ordered => ~ Free(live)) /\ Shows(live, j.base)
    BY <1>1, <1>15 DEF FitInv, Certain, Free, Shows, FitAll, FitSteps
  <2>2. Shows(d, j.base)
    <3>1. CASE ~ Free(live)
      BY <1>5, <2>1, <3>1
    <3>2. CASE Free(live)
      <4>1. PICK e \in disk : (d.dirs = e.dirs /\ ~ ordered) \/ d.dirs = live.dirs
        BY DEF TypeOK
      <4>2. CASE d.dirs = live.dirs
        BY <3>2, <4>2 DEF Free, Shows
      <4>3. CASE d.dirs # live.dirs
        <5>1. d.dirs = e.dirs /\ ~ ordered
          BY <4>1, <4>3
        <5>2. Free(e)
          BY <1>15, <3>2, <5>1 DEF LooseInv, Seen, Certain, LooseAll
        <5> QED BY <5>1, <5>2 DEF Free, Shows
      <4> QED BY <4>2, <4>3
    <3> QED BY <3>1, <3>2
  <2> QED BY <1>1, <1>2, <1>4, <1>11, <1>15, <2>1, <2>2 DEF FitsJournal, Firm
<1> QED BY <1>7, <1>8, <1>9, <1>10, <1>12, <1>13, <1>14, <1>15 DEF Phases

AllInv == FlowInv /\ SyncInv /\ KeepInv /\ FitInv /\ LooseInv

\* Order stays, and outside changes are never taken back.
LEMMA CertainBefore ==
    ASSUME FlowInv, [Next]_vars
    PROVE  ordered' = ordered /\ (outside' = 0 => outside = 0) /\ (Certain' => Certain)
<1>1. outside \in Nat
  BY BoundsAssumption DEF FlowInv, TypeOK
<1>2. ordered' = ordered /\ outside' \in {outside, outside + 1}
  BY DEF Next, Step, WriteJournal, SyncJournal, Rename, SyncRename, RenameRefused, Copy, Build,
         BuildRefused, VerifyTree, Match, Select, Prepare, Cancel, Commit, Recover, Review, Boot,
         Edit, Quit, Fail, KillProcess, PowerLoss, Outside, vars, fileSystem, budget
<1> QED BY <1>1, <1>2 DEF Certain

\* Steps that change no file.
LEMMA FilesStay ==
    ASSUME \/ RenameRefused \/ Copy \/ VerifyTree \/ Match \/ Select \/ Prepare \/ Cancel \/ Commit
           \/ Recover \/ Review \/ Boot \/ Quit \/ Fail \/ KillProcess \/ UNCHANGED vars
    PROVE  UNCHANGED <<live, disk>>
BY DEF RenameRefused, Copy, VerifyTree, Match, Select, Prepare, Cancel, Commit, Recover, Review,
       Boot, Quit, Fail, KillProcess, vars, fileSystem

LEMMA FitAllStep == ASSUME AllInv, Certain, FitAll, [Next]_vars, Certain' PROVE FitAll'
<1> USE DEF AllInv
<1>1. ordered' = ordered /\ TypeOK
  BY CertainBefore DEF FlowInv
<1>2. CASE WriteJournal
  <2>1. PICK j \in Journals : j = Record(step)
    BY <1>2, RecordFacts DEF WriteJournal, FlowInv
  <2>2. Touch("journal", j) /\ step \in Phases /\ ~ half
    BY <1>2, <2>1 DEF WriteJournal
  <2>3. ASSUME NEW d \in Seen' PROVE FitsJournal(d) /\ (ordered => Firm(d))
    <3>1. \/ d \in Seen
          \/ /\ d.journal = Record(step)
             /\ d.dirs = live.dirs \/ (~ ordered /\ \E e \in disk : d.dirs = e.dirs)
      BY <1>1, <2>1, <2>2, TouchJournalFacts DEF Seen
    <3> QED BY <2>2, <3>1, RecordFits DEF FitAll
  <2> QED BY <1>1, <2>3 DEF FitAll
<1>3. CASE SyncJournal
  <2>1. step \in Phases /\ half /\ PhaseNow = step /\ live' = live /\ SyncDirectory("journal")
    BY <1>3 DEF SyncJournal, PhaseInv, FlowInv
  <2>2. live.journal \in Journals
    BY <1>1, <2>1, OpFacts DEF PhaseNow, Phases, TypeOK
  <2>3. ASSUME NEW d \in Seen', d # live PROVE FitsJournal(d) /\ (ordered => Firm(d))
    <3>1. /\ d.journal = live.journal /\ ~ ordered
          /\ \E e \in disk : d.dirs = e.dirs
      BY <1>1, <2>1, <2>2, <2>3, SyncJournalFacts DEF Seen
    <3>2. FitsJournal(live)
      BY DEF FitAll, Seen
    <3>3. CASE ~ AtRest(live)
      BY <3>1, <3>2, <3>3, FitsAtWork
    <3>4. CASE AtRest(live)
      <4>1. PICK e \in disk : d.dirs = e.dirs
        BY <3>1
      <4>2. Shows(e, Promised(live))
        BY <3>1, <3>4, RestPromises DEF Certain, Seen
      <4>3. Phase(d) = Phase(live) /\ Promised(d) = Promised(live)
        BY <3>1 DEF Phase, Promised
      <4> QED BY <3>1, <3>2, <4>1, <4>2, <4>3 DEF FitsJournal, AtRest, Prepared, Shows
    <3> QED BY <3>3, <3>4
  <2> QED BY <1>1, <2>1, <2>3 DEF FitAll, Seen
<1>4. CASE Rename
  <2>1. step \in RenameSteps
    BY <1>4 DEF Rename
  <2>2. PICK x \in Dirs : x = Moved(Source, Destination)
    BY <2>1, MovedFacts
  <2>3. Touch("dirs", x)
    BY <1>4, <2>2 DEF Rename
  <2>4. ~ AtRest(live)
    BY <2>1, RenameFacts DEF AtRest, PhaseNow, BOOT_PHASES
  <2>5. ASSUME NEW d \in Seen' PROVE d \in Seen \/ d.journal = live.journal
    BY <1>1, <2>1, <2>3, TouchDirsFacts DEF Seen, SyncInv
  <2>6. FitsJournal(live) /\ (ordered => Firm(live))
    BY DEF FitAll, Seen
  <2>7. \A d \in Seen' : FitsJournal(d) /\ (ordered => Firm(d))
    BY <2>4, <2>5, <2>6, FitsAtWork DEF FitAll
  <2> QED BY <1>1, <2>7 DEF FitAll
<1>5. CASE SyncRename
  <2>1. step \in RenameSteps /\ live' = live /\ SyncDirectory("dirs")
    BY <1>5 DEF SyncRename
  <2>2. ASSUME NEW d \in Seen' PROVE d.journal = live.journal /\ d.dirs = live.dirs
    BY <1>1, <2>1, SyncDirsFacts DEF Seen, SyncInv
  <2>3. FitsJournal(live) /\ (ordered => Firm(live))
    BY DEF FitAll, Seen
  <2>4. \A d \in Seen' : FitsJournal(d) /\ (ordered => Firm(d))
    BY <2>2, <2>3, FitsCopy DEF Free
  <2> QED BY <1>1, <2>4 DEF FitAll
<1>6. CASE Build \/ BuildRefused
  <2>1. step = "build"
    BY <1>6 DEF Build, BuildRefused
  <2>2. PICK x \in Dirs : /\ x = [live.dirs EXCEPT ![Candidate] = [id |-> live.journal.op, edit |-> 0]]
                          /\ x[Profile] = live.dirs[Profile]
    <3>1. Profile # Candidate
      BY <2>1, BuildFacts, PlaceFacts
    <3> QED BY <2>1, <3>1, BuildFacts, PlaceFacts
  <2>3. Touch("dirs", x)
    BY <1>6, <2>2 DEF Build, BuildRefused
  <2>4. ASSUME NEW d \in Seen' PROVE d \in Seen \/ (d.journal = live.journal /\ d.dirs = x)
    BY <1>1, <2>1, <2>3, TouchDirsFacts DEF Seen, SyncInv
  <2>5. FitsJournal(live) /\ (ordered => Firm(live))
    BY DEF FitAll, Seen
  <2>6. \A d \in Seen' : FitsJournal(d) /\ (ordered => Firm(d))
    BY <2>2, <2>4, <2>5, FitsCopy DEF FitAll, Free
  <2> QED BY <1>1, <2>6 DEF FitAll
<1>7. CASE PowerLoss
  BY <1>1, <1>7 DEF PowerLoss, FitAll, Seen
<1>8. CASE UNCHANGED <<live, disk>>
  BY <1>1, <1>8 DEF FitAll, Seen
<1>9. ASSUME RewrittenStep PROVE FitAll'
  <2>1. ASSUME NEW d \in Seen' PROVE FitsJournal(d) /\ (ordered => Firm(d))
    <3>1. PICK e \in Seen : d.journal = e.journal /\ Alike(d, e)
      BY <1>9 DEF RewrittenStep, Seen
    <3>2. (Free(d) <=> Free(e)) /\ (~ Free(e) => d.dirs[Profile].id = e.dirs[Profile].id)
      BY <3>1, PlaceFacts DEF Alike, Free
    <3> QED BY <3>1, <3>2, FitsCopy DEF FitAll
  <2> QED BY <1>1, <2>1 DEF FitAll
<1>10. ASSUME CreatedStep PROVE FitAll'
  <2>1. ordered
    BY <1>1, <1>10, BoundsAssumption DEF CreatedStep, Certain, TypeOK
  <2>2. PICK m : m = live' /\ disk' = {m} /\ m.journal = live.journal
    BY <1>10, <2>1 DEF CreatedStep
  <2>3. FitsJournal(live) /\ Firm(live) /\ Free(live)
    BY <1>10, <2>1 DEF FitAll, Seen, CreatedStep, Free
  <2>4. ~ AtRest(live)
    BY <2>3 DEF Firm
  <2>5. FitsJournal(m) /\ Firm(m)
    BY <2>2, <2>3, <2>4, FitsAtWork
  <2> QED BY <2>2, <2>5 DEF FitAll, Seen
<1>11. CASE Edit
  BY <1>9, <1>11, EditFacts
<1>12. CASE Outside
  BY <1>8, <1>9, <1>10, <1>12, OutsideFacts
<1> QED BY <1>2, <1>3, <1>4, <1>5, <1>6, <1>7, <1>8, <1>11, <1>12, FilesStay DEF Next, Step

LEMMA FitStepsStep == ASSUME AllInv, Certain, FitAll, FitSteps, [Next]_vars, Certain' PROVE FitSteps'
<1> USE DEF AllInv
<1>1. ordered' = ordered /\ TypeOK
  BY CertainBefore DEF FlowInv
<1>2. FitsJournal(live) /\ (ordered => Firm(live)) /\ Phase(live) = PhaseNow
  BY DEF FitAll, Seen, PhaseNow
<1>3. PhaseNow \in RecoverPhases =>
         /\ live.journal.old # NoGen => live.journal.old.id = live.journal.base
         /\ live.journal.new # NoGen /\ live.journal.new.id = live.journal.op
         /\ ordered => live.journal.old # NoGen
  <2>1. PhaseNow \in RecoverPhases => PhaseNow # "NONE"
    BY DEF RecoverPhases
  <2> QED BY <1>2, <2>1 DEF FitsJournal, Firm, Prepared
<1>4. CASE WriteJournal
  <2>1. step' = step /\ half' /\ step \in Phases /\ ~ half
    BY <1>4 DEF WriteJournal
  <2>2. CASE step \notin {"ROLLING_BACK", "ROLLED_BACK", "APPLIED_AWAITING_REVIEW"}
    BY <2>1, <2>2 DEF FitSteps, Phases
  <2>3. CASE step \in {"ROLLING_BACK", "ROLLED_BACK", "APPLIED_AWAITING_REVIEW"}
    <3>1. PICK j \in Journals : /\ j = Record(step) /\ j # NoJournal
                                /\ live.journal \in Journals /\ live.journal # NoJournal
                                /\ j.op = live.journal.op /\ j.base = live.journal.base
      BY <2>1, <2>3, RecordFacts, JournalFacts DEF FlowInv
    <3>2. Touch("journal", j)
      BY <1>4, <3>1 DEF WriteJournal
    <3>3. live'.journal = j /\ live'.dirs = live.dirs
      BY <1>1, <3>2, TouchJournalFacts
    <3>4. Original' = Original
      BY <3>1, <3>3 DEF Original, Op
    <3>5. live'.journal.base = live.journal.base /\ live'.journal.op = live.journal.op
      BY <3>1, <3>3
    <3>6. live'.dirs[Original'] = live.dirs[Original] /\ live'.dirs[Profile] = live.dirs[Profile]
      BY <3>3, <3>4
    <3>7. CASE step = "ROLLING_BACK"
      BY <2>1, <3>5, <3>6, <3>7 DEF FitSteps
    <3>8. CASE step = "ROLLED_BACK"
      BY <1>1, <2>1, <3>5, <3>6, <3>8 DEF FitSteps
    <3>9. CASE step = "APPLIED_AWAITING_REVIEW"
      BY <2>1, <3>5, <3>6, <3>9 DEF FitSteps
    <3> QED BY <2>3, <3>7, <3>8, <3>9
  <2> QED BY <2>2, <2>3
<1>5. CASE SyncJournal
  <2>1. live' = live /\ Succeed /\ step \in Phases /\ half
    BY <1>5 DEF SyncJournal
  <2>2. step' \in {"ROLLING_BACK", "restore", "ROLLED_BACK", "APPLIED_AWAITING_REVIEW"} =>
           step' = "restore" /\ step = "ROLLING_BACK" /\ ~ half'
    BY <2>1, SucceedFacts DEF Phases
  <2>3. Original' = Original
    BY <2>1, SameJournal
  <2> QED BY <2>1, <2>2, <2>3 DEF FitSteps
<1>6. CASE Rename
  <2>1. step \in RenameSteps /\ step' = step /\ ~ half /\ half'
    BY <1>6 DEF Rename
  <2>2. CASE step # "restore"
    BY <2>1, <2>2 DEF FitSteps, RenameSteps
  <2>3. CASE step = "restore"
    <3>1. Source = Original /\ Destination = Profile /\ live.dirs[Original] # NoGen
      BY <1>6, <2>3 DEF Source, Destination, Rename, MayRename
    <3>2. PICK x \in Dirs : x = Moved(Source, Destination) /\ x[Profile] = live.dirs[Original]
      BY <2>1, <3>1, MovedFacts, PlaceFacts
    <3>3. Touch("dirs", x)
      BY <1>6, <3>2 DEF Rename
    <3>4. live'.dirs = x /\ live'.journal = live.journal
      BY <1>1, <3>3, TouchDirsFacts
    <3> QED BY <2>1, <2>3, <3>1, <3>2, <3>4 DEF FitSteps
  <2> QED BY <2>2, <2>3
<1>7. CASE SyncRename
  <2>1. live' = live /\ Succeed /\ step \in RenameSteps /\ half
    BY <1>7 DEF SyncRename
  <2>2. step' \in {"ROLLING_BACK", "restore", "ROLLED_BACK", "APPLIED_AWAITING_REVIEW"} =>
           step' = "ROLLED_BACK" /\ step = "restore"
    BY <2>1, SucceedFacts DEF RenameSteps
  <2> QED BY <1>1, <2>1, <2>2 DEF FitSteps
<1>8. CASE VerifyTree
  <2>1. live' = live /\ step = "verify"
    BY <1>8 DEF VerifyTree, fileSystem
  <2>2. CASE live.dirs[Profile] = live.journal.new /\ Succeed
    <3>1. step' = "APPLIED_AWAITING_REVIEW"
      BY <2>1, <2>2, SucceedFacts DEF Works
    <3>2. PhaseNow \in RecoverPhases
      BY <2>1 DEF FlowInv, PhaseInv, RecoverPhases
    <3> QED BY <1>3, <2>1, <2>2, <3>1, <3>2 DEF FitSteps
  <2>3. CASE Except
    BY <2>3, ExceptFacts DEF FitSteps
  <2> QED BY <1>8, <2>2, <2>3 DEF VerifyTree
<1>9. CASE Match
  <2>1. live' = live /\ step = "match" /\ PhaseNow \in RecoverPhases
    BY <1>9 DEF Match, fileSystem, FlowInv, PhaseInv
  <2>2. Original' = Original
    BY <2>1, SameJournal
  <2> QED BY <1>1, <1>3, <1>9, <2>1, <2>2, MatchFacts DEF FitSteps
<1>10. CASE Build \/ BuildRefused \/ RenameRefused \/ Fail \/ Copy
  <2>1. Except \/ (Succeed /\ step \in {"build", "copy"})
    BY <1>10 DEF Build, BuildRefused, RenameRefused, Fail, Copy
  <2>2. step' \notin {"ROLLING_BACK", "restore", "ROLLED_BACK", "APPLIED_AWAITING_REVIEW"}
    BY <2>1, SucceedFacts, ExceptFacts DEF Works
  <2> QED BY <2>2 DEF FitSteps
<1>11. CASE \/ Select \/ Prepare \/ Cancel \/ Commit \/ Recover \/ Review \/ Boot \/ Quit
            \/ KillProcess \/ PowerLoss
  <2>1. step' \notin {"ROLLING_BACK", "restore", "ROLLED_BACK", "APPLIED_AWAITING_REVIEW"}
    BY <1>11 DEF Select, Prepare, Cancel, Commit, Recover, Review, Boot, Quit, KillProcess,
                 PowerLoss, BeginCall, FlowInv, StepInv
  <2> QED BY <2>1 DEF FitSteps
<1>12. step \in {"ROLLING_BACK", "restore"} => Original \in Places /\ Original # Profile
  <2>1. step \in {"ROLLING_BACK", "restore"} => PhaseNow \in RecoverPhases
    BY DEF FlowInv, PhaseInv, StepInv, RecoverPhases, Phases
  <2>2. step \in {"ROLLING_BACK", "restore"} => PhaseNow # "NONE"
    BY <2>1 DEF RecoverPhases
  <2> QED BY <1>1, <2>2, OpFacts, PlaceFacts DEF TypeOK, PhaseNow, Original
<1>13. ASSUME RewrittenStep PROVE FitSteps'
  <2>1. /\ live'.journal = live.journal /\ Alike(live', live) /\ step' = step /\ half' = half
        /\ ordered' = ordered
    BY <1>13 DEF RewrittenStep
  <2>2. Original' = Original
    BY <2>1, SameJournal
  <2> QED BY <1>12, <2>1, <2>2, PlaceFacts DEF FitSteps, Alike
<1>14. ASSUME CreatedStep PROVE FitSteps'
  <2>1. /\ live'.journal = live.journal /\ step' = step /\ half' = half /\ ordered' = ordered
        /\ live.dirs[Profile] = NoGen
        /\ \A p \in Places : p # Profile => live'.dirs[p] = live.dirs[p]
    BY <1>14 DEF CreatedStep
  <2>2. ordered
    BY <1>1, <1>14, BoundsAssumption DEF CreatedStep, Certain, TypeOK
  <2>3. Original' = Original
    BY <2>1, SameJournal
  <2> QED BY <1>12, <2>1, <2>2, <2>3 DEF FitSteps
<1>15. CASE Edit
  BY <1>13, <1>15, EditFacts
<1>16. CASE UNCHANGED <<live, disk, ordered, step, half>>
  <2>1. Original' = Original
    BY <1>16, SameJournal
  <2> QED BY <1>16, <2>1 DEF FitSteps
<1>17. CASE Outside
  BY <1>13, <1>14, <1>16, <1>17, OutsideFacts
<1>18. CASE UNCHANGED vars
  BY <1>16, <1>18 DEF vars
<1> QED BY <1>4, <1>5, <1>6, <1>7, <1>8, <1>9, <1>10, <1>11, <1>15, <1>17, <1>18 DEF Next, Step

\* Two snapshots that show the same profile.
ShowsAs(d, e) == /\ Free(d) <=> Free(e)
                 /\ ~ Free(e) => d.dirs[Profile].id = e.dirs[Profile].id

\* Rules for what does not bring other profiles: every snapshot shows what one
\* showed before, and the live one is as it was.
LEMMA LooseAlike ==
    ASSUME LooseAll, NEW m, m = live',
           \A d \in Seen' : \E e \in Seen : ShowsAs(d, e),
           Free(m) <=> Free(live),
           \A d \in Seen : Free(live) /\ ~ Free(d) => /\ ~ AtRest(m) /\ step' # "ROLLED_BACK"
                                                      /\ OriginalOf(m) # NoGen
                                                      /\ OriginalOf(m).id = OriginalOf(live).id
    PROVE  LooseAll'
<1>1. ASSUME NEW d \in Seen', NEW e \in Seen' PROVE SameProfile(d, e)
  <2>1. PICK c \in Seen, f \in Seen : ShowsAs(d, c) /\ ShowsAs(e, f)
    OBVIOUS
  <2>2. SameProfile(c, f)
    BY DEF LooseAll
  <2> QED BY <2>1, <2>2 DEF SameProfile, ShowsAs
<1>2. ASSUME NEW d \in Seen', NEW e \in Seen', e = m, Free(e), ~ Free(d)
      PROVE  /\ ~ AtRest(e) /\ step' # "ROLLED_BACK"
             /\ OriginalOf(e) # NoGen /\ d.dirs[Profile].id = OriginalOf(e).id
  <2>1. PICK c \in Seen : ShowsAs(d, c)
    OBVIOUS
  <2>2. Free(live) /\ ~ Free(c) /\ live \in Seen
    BY <1>2, <2>1 DEF Seen, ShowsAs
  <2>3. c.dirs[Profile].id = OriginalOf(live).id
    BY <2>2 DEF LooseAll
  <2> QED BY <1>2, <2>1, <2>2, <2>3 DEF ShowsAs
<1> QED BY <1>1, <1>2 DEF LooseAll

LEMMA LooseStep ==
    ASSUME AllInv, FitAll, FitSteps, LooseAll, ~ ordered, outside = 0, [Next]_vars, outside' = 0
    PROVE  LooseAll'
<1> USE DEF AllInv
<1>1. TypeOK /\ Certain
  BY DEF FlowInv, Certain
<1>2. PICK m : m = live'
  OBVIOUS
<1>3. live \in Seen /\ Phase(live) = PhaseNow /\ OriginalOf(live) = live.dirs[Original]
  BY DEF Seen, PhaseNow, OriginalOf, Original
<1>4. ASSUME UNCHANGED <<live, disk>>,
             step' = "ROLLED_BACK" => step = "ROLLED_BACK" \/ live.dirs[Original] = NoGen
      PROVE  LooseAll'
  <2>1. Seen' = Seen
    BY <1>4 DEF Seen
  <2> QED BY <1>3, <1>4, <2>1 DEF LooseAll
<1>5. CASE WriteJournal
  <2>1. PICK j \in Journals : /\ j = Record(step) /\ j.phase = step /\ j # NoJournal
                              /\ step # "INTENT" => j.op = live.journal.op /\ live.journal \in Journals
    BY <1>5, RecordFacts, JournalFacts DEF WriteJournal, FlowInv
  <2>2. Touch("journal", j) /\ step \in Phases /\ ~ half /\ step' = step
    BY <1>5, <2>1 DEF WriteJournal
  <2>3. /\ m.journal = j /\ m.dirs = live.dirs
        /\ \A d \in Seen' : \E e \in Seen : d.dirs = e.dirs
    BY <1>1, <1>2, <2>2, TouchJournalFacts DEF Seen
  <2>4. ASSUME NEW d \in Seen, Free(live), ~ Free(d)
        PROVE  /\ ~ AtRest(m) /\ step' # "ROLLED_BACK"
               /\ OriginalOf(m) # NoGen /\ OriginalOf(m).id = OriginalOf(live).id
    <3>1. ~ AtRest(live) /\ step # "ROLLED_BACK" /\ OriginalOf(live) # NoGen
      BY <1>3, <2>4 DEF LooseAll
    <3>2. step # "APPLIED_AWAITING_REVIEW" /\ step # "INTENT"
      BY <2>2, <2>4 DEF FitSteps, Free, FlowInv, PlaceInv
    <3>3. step \in {"ORIGINAL_MOVED", "PROMOTING", "VERIFYING", "ROLLING_BACK", "RECOVERY_REQUIRED"}
      BY <1>3, <2>2, <3>1, <3>2 DEF FlowInv, PhaseInv, AtRest, Phases, BOOT_PHASES
    <3>4. Phase(m) = step
      BY <2>1, <2>3 DEF Phase
    <3>5. OriginalOf(m) = OriginalOf(live)
      BY <2>1, <2>3, <3>2, JournalFacts DEF OriginalOf, Op
    <3> QED BY <2>2, <3>1, <3>3, <3>4, <3>5 DEF AtRest, BOOT_PHASES
  <2> QED BY <1>2, <2>3, <2>4, LooseAlike DEF Free, ShowsAs
<1>6. CASE SyncJournal
  <2>1. step \in Phases /\ half /\ PhaseNow = step /\ live' = live /\ Succeed /\ SyncDirectory("journal")
    BY <1>6 DEF SyncJournal, PhaseInv, FlowInv
  <2>2. live.journal \in Journals
    BY <1>1, <2>1, OpFacts DEF PhaseNow, Phases, TypeOK
  <2>3. \A d \in Seen' : \E e \in Seen : d.dirs = e.dirs
    BY <1>1, <2>1, <2>2, SyncJournalFacts DEF Seen
  <2>4. step' # "ROLLED_BACK"
    BY <2>1, SucceedFacts DEF Phases
  <2>5. \A d \in Seen : Free(live) /\ ~ Free(d) => ~ AtRest(live) /\ OriginalOf(live) # NoGen
    BY <1>3 DEF LooseAll
  <2> QED BY <1>2, <2>1, <2>3, <2>4, <2>5, LooseAlike DEF Free, ShowsAs
<1>7. CASE Rename
  <2>1. step \in RenameSteps /\ ~ half /\ step' = step /\ MayRename(Source, Destination)
    BY <1>7 DEF Rename
  <2>2. PICK x \in Dirs : x = Moved(Source, Destination)
    BY <2>1, MovedFacts
  <2>3. Touch("dirs", x)
    BY <1>7, <2>2 DEF Rename
  <2>4. /\ m.dirs = x /\ m.journal = live.journal
        /\ \A d \in Seen' : d \in disk \/ d.dirs = x
    BY <1>1, <1>2, <2>3, TouchDirsFacts DEF Seen
  <2>5. ~ AtRest(m)
    BY <2>1, <2>4, RenameFacts DEF AtRest, PhaseNow, Phase, BOOT_PHASES
  <2>6. CASE step = "moveOriginal"
    <3>1. /\ x[Profile] = NoGen /\ x[Original] = live.dirs[Profile] /\ live.dirs[Profile] # NoGen
      BY <2>1, <2>2, <2>6, MovedFacts, RenameFacts, PlaceFacts DEF MayRename, RenameSteps
    <3>2. OriginalOf(m) = live.dirs[Profile]
      BY <2>4, <3>1 DEF OriginalOf, Original, Op
    <3>3. \A d \in Seen' : Free(d) \/ d \in disk
      BY <2>4, <3>1 DEF Free
    <3>4. \A d, e \in Seen' : SameProfile(d, e)
      BY <3>3 DEF LooseAll, Seen, SameProfile
    <3>5. \A d \in disk : ~ Free(d) => d.dirs[Profile].id = live.dirs[Profile].id
      BY <3>1 DEF LooseAll, Seen, SameProfile, Free
    <3> QED BY <1>2, <2>1, <2>5, <2>6, <3>1, <3>2, <3>3, <3>4, <3>5 DEF LooseAll
  <2>7. CASE step = "promote"
    <3>1. live.dirs[Profile] = NoGen /\ x[Profile] # NoGen
      BY <2>1, <2>2, <2>7, MovedFacts, RenameFacts, PlaceFacts DEF MayRename, RenameSteps
    <3>2. \A d \in disk : Free(d)
      BY <2>1, <2>7, <3>1 DEF SyncInv, Free
    <3>3. \A d \in Seen' : Free(d) \/ d.dirs = x
      BY <2>4, <3>2
    <3> QED BY <1>2, <2>4, <3>1, <3>3 DEF LooseAll, SameProfile, Free
  <2>8. CASE step = "restore"
    <3>1. live.dirs[Profile] = NoGen /\ x[Profile] = live.dirs[Original] /\ x[Profile] # NoGen
      BY <2>1, <2>2, <2>8, MovedFacts, RenameFacts, PlaceFacts DEF MayRename, RenameSteps
    <3>2. \A d \in disk : Free(d) \/ d.dirs[Profile].id = x[Profile].id
      BY <1>3, <3>1 DEF LooseAll, Seen, Free
    <3>3. \A d \in Seen' : Free(d) \/ d.dirs[Profile].id = x[Profile].id
      BY <2>4, <3>2
    <3> QED BY <1>2, <2>4, <3>1, <3>3 DEF LooseAll, SameProfile, Free
  <2> QED BY <2>1, <2>6, <2>7, <2>8 DEF RenameSteps
<1>8. CASE SyncRename
  <2>1. step \in RenameSteps /\ live' = live /\ SyncDirectory("dirs")
    BY <1>8 DEF SyncRename
  <2>2. \A d \in Seen' : d.dirs = live.dirs
    BY <1>1, <2>1, SyncDirsFacts DEF Seen
  <2> QED BY <2>2 DEF LooseAll, SameProfile, Free
<1>9. CASE Build \/ BuildRefused
  <2>1. step = "build"
    BY <1>9 DEF Build, BuildRefused
  <2>2. PICK x \in Dirs : /\ x = [live.dirs EXCEPT ![Candidate] = [id |-> live.journal.op, edit |-> 0]]
                          /\ x[Profile] = live.dirs[Profile]
    <3>1. Profile # Candidate
      BY <2>1, BuildFacts, PlaceFacts
    <3> QED BY <2>1, <3>1, BuildFacts, PlaceFacts
  <2>3. Touch("dirs", x)
    BY <1>9, <2>2 DEF Build, BuildRefused
  <2>4. /\ m.dirs = x /\ \A d \in Seen' : d \in Seen \/ d.dirs = x
    BY <1>1, <1>2, <2>3, TouchDirsFacts DEF Seen
  <2>5. AtRest(live)
    BY <1>3, <2>1 DEF FlowInv, PhaseInv, AtRest
  <2>6. \A d \in Seen : Free(live) => Free(d)
    BY <1>3, <2>5 DEF LooseAll
  <2>7. \A d \in Seen' : \E e \in Seen : ShowsAs(d, e)
    BY <1>3, <2>2, <2>4 DEF Free, ShowsAs
  <2>8. Free(m) <=> Free(live)
    BY <2>2, <2>4 DEF Free
  <2> QED BY <1>2, <2>6, <2>7, <2>8, LooseAlike
<1>10. CASE PowerLoss
  <2>1. PICK s \in disk : Seen' = {s}
    BY <1>10 DEF PowerLoss, Seen
  <2> QED BY <2>1 DEF LooseAll, SameProfile
<1>11. CASE Match
  BY <1>4, <1>11, MatchFacts DEF Match, fileSystem
<1>12. CASE RenameRefused \/ Copy \/ VerifyTree \/ Fail
  <2>1. step' # "ROLLED_BACK"
    <3>1. Except \/ (Succeed /\ step \in {"copy", "verify"})
      BY <1>12 DEF RenameRefused, Copy, VerifyTree, Fail
    <3> QED BY <3>1, SucceedFacts, ExceptFacts DEF Works
  <2> QED BY <1>4, <1>12, <2>1, FilesStay
<1>13. CASE \/ Select \/ Prepare \/ Cancel \/ Commit \/ Recover \/ Review \/ Boot \/ Quit
            \/ KillProcess \/ UNCHANGED vars
  <2>1. step' = "ROLLED_BACK" => step = "ROLLED_BACK"
    BY <1>13 DEF Select, Prepare, Cancel, Commit, Recover, Review, Boot, Quit, KillProcess,
                 BeginCall, vars
  <2> QED BY <1>4, <1>13, <2>1, FilesStay
<1>14. CASE Edit
  <2>1. RewrittenStep /\ call = "app" /\ step' = step
    BY <1>14, EditFacts DEF Edit
  <2>2. \A d \in Seen' : \E e \in Seen : Alike(d, e)
    BY <2>1 DEF RewrittenStep, Seen
  <2>3. \A d \in Seen' : \E e \in Seen : ShowsAs(d, e)
    BY <2>2, PlaceFacts DEF Alike, Free, ShowsAs
  <2>4. ~ Free(live) /\ ~ Free(m)
    BY <1>2, <2>1, PlaceFacts DEF FlowInv, PlaceInv, Free, RewrittenStep, Alike
  <2>5. Free(m) <=> Free(live)
    BY <2>4
  <2>6. \A d \in Seen : Free(live) /\ ~ Free(d) => /\ ~ AtRest(m) /\ step' # "ROLLED_BACK"
                                                  /\ OriginalOf(m) # NoGen
                                                  /\ OriginalOf(m).id = OriginalOf(live).id
    BY <2>4
  <2> QED BY <1>2, <2>3, <2>5, <2>6, LooseAlike
<1>15. ~ Outside
  BY BoundsAssumption DEF Outside
<1> QED BY <1>5, <1>6, <1>7, <1>8, <1>9, <1>10, <1>11, <1>12, <1>13, <1>14, <1>15 DEF Next, Step

-----------------------------------------------------------------------------
(* The invariant and what follows from it *)

LEMMA RestoreInit == Init => RestoreInv
<1> SUFFICES ASSUME Init PROVE RestoreInv
  OBVIOUS
<1>1. FlowInv /\ KeepInv
  BY FlowInit, KeepInit
<1>2. PICK s : /\ s = [journal |-> NoJournal,
                       dirs |-> [p \in Places |-> IF p = Profile THEN [id |-> 0, edit |-> 0] ELSE NoGen]]
               /\ live = s /\ disk = {s} /\ step = "done"
  BY DEF Init
<1>3. [id |-> 0, edit |-> 0] # NoGen /\ s.dirs[Profile] = [id |-> 0, edit |-> 0]
  BY <1>2, GenFacts, PlaceFacts, BoundsAssumption DEF Foreign
<1>4. Phase(s) = "NONE" /\ Promised(s) = 0
  BY <1>2 DEF Phase, Promised
<1>5. FitsJournal(s) /\ Firm(s)
  BY <1>3, <1>4 DEF FitsJournal, Firm, AtRest, Prepared, RecoverPhases, Shows, Free
<1>6. SyncInv /\ FitInv /\ LooseInv
  BY <1>2, <1>3, <1>5 DEF SyncInv, FitInv, LooseInv, Seen, SameProfile, Free, RenameSteps, Certain, FitAll, FitSteps, LooseAll
<1> QED BY <1>1, <1>6 DEF RestoreInv, FlowInv

LEMMA RestoreStep == RestoreInv /\ [Next]_vars => RestoreInv'
<1> SUFFICES ASSUME RestoreInv, [Next]_vars PROVE RestoreInv'
  OBVIOUS
<1>1. AllInv
  BY DEF RestoreInv, AllInv, FlowInv
<1>2. FlowInv' /\ SyncInv' /\ KeepInv'
  BY <1>1, FlowStep, SyncStep, KeepStep DEF AllInv
<1>3. FitInv'
  <2>1. ASSUME Certain' PROVE FitAll' /\ FitSteps'
    <3>1. Certain /\ FitAll /\ FitSteps
      BY <1>1, <2>1, CertainBefore DEF AllInv, FitInv
    <3> QED BY <1>1, <2>1, <3>1, FitAllStep, FitStepsStep
  <2> QED BY <2>1 DEF FitInv, FitAll, FitSteps, Certain
<1>4. LooseInv'
  <2>1. ASSUME ~ ordered', outside' = 0 PROVE LooseAll'
    <3>1. ~ ordered /\ outside = 0
      BY <1>1, <2>1, CertainBefore DEF AllInv
    <3>2. FitAll /\ FitSteps /\ LooseAll
      BY <1>1, <3>1 DEF AllInv, Certain, FitInv, LooseInv
    <3> QED BY <1>1, <2>1, <3>1, <3>2, LooseStep
  <2> QED BY <2>1 DEF LooseInv, LooseAll
<1> QED BY <1>2, <1>3, <1>4 DEF RestoreInv, FlowInv

LEMMA InvSound == RestoreInv => RestoreSound
<1> SUFFICES ASSUME RestoreInv PROVE RestoreSound
  OBVIOUS
<1>1. NothingLost
  <2>1. ASSUME NEW d \in disk \cup {live}, NEW id \in lived
        PROVE  id \in {g.id : g \in {d.dirs[p] : p \in Places} \ {NoGen}}
    <3>1. Holds(d, id)
      BY DEF RestoreInv, KeepInv, Seen
    <3> QED BY <3>1 DEF Holds
  <2> QED BY <2>1 DEF NothingLost
<1>2. EndedIsDurable
  <2>1. ASSUME ordered, NEW d \in disk \cup {live},
               Phase(d) \in BOOT_PHASES \cup {"APPLIED_AWAITING_REVIEW"}
        PROVE  d.dirs[Profile] # NoGen /\ d.dirs[Profile].id = Promised(d)
    <3>1. FitsJournal(d) /\ Firm(d) /\ AtRest(d)
      BY <2>1 DEF RestoreInv, FitInv, Seen, AtRest, Certain, FitAll, FitSteps
    <3> QED BY <3>1 DEF FitsJournal, Firm, Shows, Free
  <2> QED BY <2>1 DEF EndedIsDurable
<1>3. RunsOnPromised
  <2>1. ASSUME call = "app", ordered \/ outside = 0
        PROVE  live.dirs[Profile] # NoGen /\ live.dirs[Profile].id = Promised(live)
    <3>1. FitsJournal(live) /\ live.dirs[Profile] # NoGen /\ AtRest(live)
      BY <2>1 DEF RestoreInv, FitInv, Seen, AtRest, PlaceInv, PhaseInv, PhaseNow, Certain, FitAll, FitSteps
    <3> QED BY <3>1 DEF FitsJournal, Shows
  <2> QED BY <2>1 DEF RunsOnPromised
<1> QED BY <1>1, <1>2, <1>3 DEF RestoreSound

\* In every behaviour of restores, edits, crashes and power losses the invariant
\* holds, and the state keeps its type.
THEOREM RestoreInvariant == Spec => []RestoreInv
BY RestoreInit, RestoreStep, PTL DEF Spec

THEOREM RestoreTyped == Spec => []TypeOK
<1>1. RestoreInv => TypeOK
  BY DEF RestoreInv
<1> QED BY <1>1, RestoreInvariant, PTL

\* The application runs only on the profile it was promised, an operation that
\* ended stays so over a power loss, and no profile is ever lost: the phases of
\* desktop_restore_commit.py and the boot guard of core/profile_safety.py.
THEOREM RestoreIsSound == Spec => []RestoreSound
BY RestoreInvariant, InvSound, PTL

-----------------------------------------------------------------------------
(* An end that is on the disk *)

\* What every process reads in the journal is something a power loss may leave.
OnDisk == \E d \in disk : d.journal = live.journal

LEMMA ReachFacts ==
    ASSUME TypeOK, OnDisk, NEW new \in Snapshots,
           NEW field \in {"journal", "dirs"}, field = "dirs" => new.journal = live.journal
    PROVE  \E d \in Reach(new, field) : d.journal = new.journal
<1>1. CASE ordered
  BY <1>1 DEF Reach
<1>2. CASE ~ ordered
  <2>1. PICK e \in disk : e.journal = live.journal
    BY DEF OnDisk
  <2>2. PICK d : d = [e EXCEPT ![field] = new[field]]
    OBVIOUS
  <2>3. d \in Reach(new, field)
    BY <1>2, <2>2 DEF Reach
  <2>4. new.journal \in Journals \cup {NoJournal} /\ new.dirs \in Dirs /\ e \in Snapshots
    BY SnapshotFacts DEF TypeOK
  <2>5. CASE field = "journal"
    BY <2>2, <2>3, <2>4, <2>5 DEF Snapshots
  <2>6. CASE field = "dirs"
    BY <2>1, <2>2, <2>3, <2>4, <2>6 DEF Snapshots
  <2> QED BY <2>5, <2>6
<1> QED BY <1>1, <1>2

LEMMA RewriteOnDisk ==
    ASSUME TypeOK, OnDisk, NEW g, NEW h, Rewrite(g, h)
    PROVE  OnDisk'
<1> DEFINE In(s) == [s EXCEPT !.dirs = [p \in Places |-> IF s.dirs[p] = g THEN h ELSE s.dirs[p]]]
<1>1. \A s \in Snapshots : In(s).journal = s.journal
  BY DEF Snapshots
<1>2. live' = In(live) /\ disk' = IF ordered THEN {In(live)} ELSE {In(d) : d \in disk}
  BY DEF Rewrite
<1>3. live \in Snapshots /\ \A d \in disk : d \in Snapshots
  BY DEF TypeOK
<1> HIDE DEF In
<1>4. live'.journal = live.journal
  BY <1>1, <1>2, <1>3
<1>5. CASE ordered
  BY <1>2, <1>5 DEF OnDisk
<1>6. CASE ~ ordered
  <2>1. PICK e \in disk : e.journal = live.journal
    BY DEF OnDisk
  <2>2. In(e) \in disk' /\ In(e).journal = live.journal
    BY <1>1, <1>2, <1>3, <1>6, <2>1
  <2> QED BY <1>4, <2>2 DEF OnDisk
<1> QED BY <1>5, <1>6

LEMMA OnDiskStep == ASSUME FlowInv, OnDisk, [Next]_vars PROVE OnDisk'
<1> USE DEF FlowInv
<1>1. ASSUME UNCHANGED <<live, disk>> PROVE OnDisk'
  BY <1>1 DEF OnDisk
<1>2. ASSUME NEW field \in {"journal", "dirs"}, NEW value, Touch(field, value), live' \in Snapshots,
             field = "dirs" => live'.journal = live.journal
      PROVE  OnDisk'
  <2>1. disk' = disk \cup Reach(live', field)
    BY <1>2 DEF Touch
  <2>2. PICK new \in Snapshots : new = live'
    BY <1>2
  <2>3. \E d \in Reach(new, field) : d.journal = new.journal
    BY <1>2, <2>2, ReachFacts
  <2> QED BY <2>1, <2>2, <2>3 DEF OnDisk
<1>3. ASSUME NEW field \in {"journal", "dirs"}, SyncDirectory(field), UNCHANGED live PROVE OnDisk'
  <2>1. \E d \in Reach(live, field) : d.journal = live.journal
    BY ReachFacts DEF TypeOK
  <2> QED BY <1>3, <2>1 DEF SyncDirectory, OnDisk
<1>4. CASE WriteJournal
  <2>1. PICK j \in Journals : j = Record(step)
    BY <1>4, RecordFacts DEF WriteJournal
  <2>2. Touch("journal", j)
    BY <1>4, <2>1 DEF WriteJournal
  <2>3. live' \in Snapshots
    BY <2>2, TouchJournalFacts
  <2> QED BY <1>2, <2>2, <2>3
<1>5. CASE SyncJournal \/ SyncRename
  BY <1>3, <1>5 DEF SyncJournal, SyncRename
<1>6. CASE Rename
  <2>1. step \in RenameSteps
    BY <1>6 DEF Rename
  <2>2. PICK x \in Dirs : x = Moved(Source, Destination)
    BY <2>1, MovedFacts
  <2>3. Touch("dirs", x)
    BY <1>6, <2>2 DEF Rename
  <2>4. live' \in Snapshots /\ live'.journal = live.journal
    BY <2>3, TouchDirsFacts
  <2> QED BY <1>2, <2>3, <2>4
<1>7. CASE Build \/ BuildRefused
  <2>1. step = "build"
    BY <1>7 DEF Build, BuildRefused
  <2>2. PICK x \in Dirs : x = [live.dirs EXCEPT ![Candidate] = [id |-> live.journal.op, edit |-> 0]]
    BY <2>1, BuildFacts
  <2>3. Touch("dirs", x)
    BY <1>7, <2>2 DEF Build, BuildRefused
  <2>4. live' \in Snapshots /\ live'.journal = live.journal
    BY <2>3, TouchDirsFacts
  <2> QED BY <1>2, <2>3, <2>4
<1>8. CASE Edit \/ Outside
  <2>1. CASE \E g, h : Rewrite(g, h)
    BY <2>1, RewriteOnDisk
  <2>2. CASE live' = [live EXCEPT !.dirs[Profile] = [id |-> Foreign, edit |-> 0]] /\ disk' = Reach(live', "dirs")
    <3>1. PICK new : new = [live EXCEPT !.dirs[Profile] = [id |-> Foreign, edit |-> 0]]
      OBVIOUS
    <3>2. new \in Snapshots /\ new.journal = live.journal
      <4>1. [id |-> Foreign, edit |-> 0] \in Gens /\ live \in Snapshots
        BY BoundsAssumption DEF Gens, Foreign, TypeOK
      <4> QED BY <3>1, <4>1 DEF Snapshots
    <3>3. \E d \in Reach(new, "dirs") : d.journal = new.journal
      BY <3>2, ReachFacts
    <3> QED BY <2>2, <3>1, <3>3 DEF OnDisk
  <2>3. CASE UNCHANGED <<live, disk>>
    BY <1>1, <2>3
  <2> QED BY <1>8, <2>1, <2>2, <2>3 DEF Edit, Outside
<1>9. CASE PowerLoss
  BY <1>9 DEF PowerLoss, OnDisk
<1>10. CASE \/ RenameRefused \/ Fail \/ Copy \/ VerifyTree \/ Match \/ UNCHANGED vars
            \/ Select \/ Prepare \/ Cancel \/ Commit \/ Recover \/ Review \/ Boot \/ Quit \/ KillProcess
  BY <1>1, <1>10 DEF RenameRefused, Fail, Copy, VerifyTree, Match, vars, Select, Prepare, Cancel, Commit,
                     Recover, Review, Boot, Quit, KillProcess, fileSystem, budget
<1> QED BY <1>4, <1>5, <1>6, <1>7, <1>8, <1>9, <1>10 DEF Next, Step

\* What stays once an operation has ended on the disk: every journal a power
\* loss may leave is that end or one of a later operation, and no call is
\* running that could still write to the operation.
Late(s, o, p) == Op(s) > o \/ (Op(s) = o /\ Phase(s) = p)
Over(o, p) ==
    /\ \A d \in Seen : Late(d, o, p)
    /\ Op(live) = o => call \in {"none", "app", "select"}

Ends == BOOT_PHASES \ {"FAILED"}

LEMMA LateAlike ==
    ASSUME NEW s, NEW t, NEW o, NEW p, s.journal = t.journal, Late(t, o, p)
    PROVE  Late(s, o, p)
BY DEF Late, Op, Phase

\* Only a journal that is written brings one that was not there.
LEMMA JournalsStay ==
    ASSUME FlowInv, [Next]_vars, ~ WriteJournal
    PROVE  \A d \in disk' \cup {live'} : \E e \in Seen : d.journal = e.journal
<1> USE DEF FlowInv, Seen
<1>1. CASE UNCHANGED <<live, disk>>
  BY <1>1
<1>2. CASE SyncJournal
  <2>1. live.journal \in Journals
    <3>1. Phase(live) # "NONE"
      BY <1>2 DEF SyncJournal, PhaseInv, PhaseNow, Phases
    <3> QED BY <3>1, OpFacts DEF TypeOK
  <2> QED BY <1>2, <2>1, SyncJournalFacts DEF SyncJournal
<1>3. CASE SyncRename
  BY <1>3, SyncDirsFacts DEF SyncRename
<1>4. ASSUME NEW x \in Dirs, Touch("dirs", x)
      PROVE  \A d \in disk' \cup {live'} : \E e \in Seen : d.journal = e.journal
  BY <1>4, TouchDirsFacts
<1>5. CASE Rename
  <2>1. PICK x \in Dirs : x = Moved(Source, Destination)
    BY <1>5, MovedFacts DEF Rename
  <2>2. Touch("dirs", x)
    BY <1>5, <2>1 DEF Rename
  <2> QED BY <1>4, <2>2
<1>6. CASE Build \/ BuildRefused
  <2>1. step = "build"
    BY <1>6 DEF Build, BuildRefused
  <2>2. PICK x \in Dirs : x = [live.dirs EXCEPT ![Candidate] = [id |-> live.journal.op, edit |-> 0]]
    BY <2>1, BuildFacts
  <2>3. Touch("dirs", x)
    BY <1>6, <2>2 DEF Build, BuildRefused
  <2> QED BY <1>4, <2>3
<1>7. CASE RewrittenStep \/ CreatedStep
  BY <1>7 DEF RewrittenStep, CreatedStep
<1>8. CASE PowerLoss
  BY <1>8 DEF PowerLoss
<1>9. CASE \/ RenameRefused \/ Fail \/ Copy \/ VerifyTree \/ Match \/ UNCHANGED vars
           \/ Select \/ Prepare \/ Cancel \/ Commit \/ Recover \/ Review \/ Boot \/ Quit \/ KillProcess
  BY <1>1, <1>9 DEF RenameRefused, Fail, Copy, VerifyTree, Match, vars, Select, Prepare, Cancel, Commit,
                    Recover, Review, Boot, Quit, KillProcess, fileSystem, budget
<1>10. CASE Edit \/ Outside
  BY <1>1, <1>7, <1>10, EditFacts, OutsideFacts
<1> QED BY <1>2, <1>3, <1>5, <1>6, <1>8, <1>9, <1>10 DEF Next, Step

\* The journal every process reads changes only when one is written and when
\* the machine loses power.
LEMMA JournalStays ==
    ASSUME FlowInv, [Next]_vars, ~ WriteJournal, ~ PowerLoss
    PROVE  live'.journal = live.journal
<1> USE DEF FlowInv
<1>1. ASSUME NEW x \in Dirs, Touch("dirs", x) PROVE live'.journal = live.journal
  BY <1>1, TouchDirsFacts
<1>2. CASE Rename
  <2>1. PICK x \in Dirs : x = Moved(Source, Destination)
    BY <1>2, MovedFacts DEF Rename
  <2> QED BY <1>1, <1>2, <2>1 DEF Rename
<1>3. CASE Build \/ BuildRefused
  <2>1. step = "build"
    BY <1>3 DEF Build, BuildRefused
  <2>2. PICK x \in Dirs : x = [live.dirs EXCEPT ![Candidate] = [id |-> live.journal.op, edit |-> 0]]
    BY <2>1, BuildFacts
  <2> QED BY <1>1, <1>3, <2>2 DEF Build, BuildRefused
<1>4. CASE Edit \/ Outside
  BY <1>4, EditFacts, OutsideFacts DEF RewrittenStep, CreatedStep
<1>5. CASE \/ RenameRefused \/ Fail \/ Copy \/ VerifyTree \/ Match \/ SyncJournal \/ SyncRename \/ UNCHANGED vars
           \/ Select \/ Prepare \/ Cancel \/ Commit \/ Recover \/ Review \/ Boot \/ Quit \/ KillProcess
  BY <1>5 DEF RenameRefused, Fail, Copy, VerifyTree, Match, SyncJournal, SyncRename, vars, Select, Prepare,
              Cancel, Commit, Recover, Review, Boot, Quit, KillProcess, fileSystem, budget
<1> QED BY <1>2, <1>3, <1>4, <1>5 DEF Next, Step

\* A call that may write to an operation does not begin on one that has ended.
LEMMA CallsStay ==
    ASSUME FlowInv, [Next]_vars, ~ WriteJournal, PhaseNow \in Ends, call \in {"none", "app", "select"}
    PROVE  call' \in {"none", "app", "select"}
<1> USE DEF FlowInv
<1>1. CASE SyncJournal \/ SyncRename \/ Copy \/ Build \/ VerifyTree
  <2>1. Succeed
    <3>1. VerifyTree => step = "verify"
      BY DEF VerifyTree
    <3>2. ~ VerifyTree
      BY <3>1 DEF StepInv
    <3> QED BY <1>1, <3>2 DEF SyncJournal, SyncRename, Copy, Build
  <2> QED BY <2>1 DEF Succeed, GoTo, Then, StepInv
<1>2. CASE RenameRefused \/ BuildRefused \/ Fail
  <2>1. Except
    BY <1>2 DEF RenameRefused, BuildRefused, Fail
  <2> QED BY <2>1 DEF Except, GoTo, Handler
<1>3. CASE Match
  BY <1>3 DEF Match, StepInv
<1>4. CASE Select \/ Prepare \/ Cancel \/ Commit \/ Recover \/ Review \/ Boot \/ Quit
  BY <1>4 DEF Select, Prepare, Cancel, Commit, Recover, Review, Boot, Quit, BeginCall, PhaseNow, Ends, BOOT_PHASES
<1>5. CASE Rename \/ Edit \/ KillProcess \/ PowerLoss \/ Outside \/ UNCHANGED vars
  BY <1>5 DEF Rename, Edit, KillProcess, PowerLoss, Outside, vars
<1> QED BY <1>1, <1>2, <1>3, <1>4, <1>5 DEF Next, Step

LEMMA OverStep ==
    ASSUME FlowInv, NEW o \in 1 .. MaxOps, NEW p \in Ends, Over(o, p), [Next]_vars
    PROVE  Over(o, p)'
<1> USE DEF FlowInv
<1>1. Op(live) \in 0 .. MaxOps
  BY SnapshotFacts, JournalFacts, BoundsAssumption DEF Op, TypeOK
<1>2. Op(live) > o \/ (Op(live) = o /\ PhaseNow = p)
  BY DEF Over, Late, Seen, PhaseNow
<1>3. CASE WriteJournal
  <2>1. PICK j \in Journals : j = Record(step)
    BY <1>3, RecordFacts DEF WriteJournal
  <2>2. Touch("journal", j)
    BY <1>3, <2>1 DEF WriteJournal
  <2>3. /\ live'.journal = j
        /\ \A d \in disk' : d.journal = j \/ d \in disk
    BY <2>2, TouchJournalFacts
  <2>4. j.op > o
    <3>1. CASE step = "INTENT"
      <4>1. j.op = Op(live) + 1
        BY <1>3, <2>1, <3>1, RecordFacts DEF WriteJournal
      <4> QED BY <1>1, <1>2, <4>1
    <3>2. CASE step # "INTENT"
      <4>1. live.journal \in Journals /\ j.op = live.journal.op
        BY <1>3, <2>1, <3>2, RecordFacts DEF WriteJournal
      <4>2. j.op = Op(live)
        BY <4>1, JournalFacts DEF Op
      <4>3. ~ (Op(live) = o /\ PhaseNow = p)
        <5>1. SUFFICES ASSUME Op(live) = o, PhaseNow = p PROVE FALSE
          OBVIOUS
        <5>2. call \in {"none", "app", "select"}
          BY <5>1 DEF Over
        <5>3. step \in {"FAILED", "done", "copy"} /\ step \in Phases /\ ~ half
          BY <1>3, <3>2, <5>2 DEF StepInv, WriteJournal
        <5>4. PhaseNow \in {"INTENT", "PREPARING", "PREPARED"}
          BY <5>3 DEF PhaseInv, Phases
        <5> QED BY <5>1, <5>4 DEF Ends, BOOT_PHASES
      <4> QED BY <1>2, <4>2, <4>3
    <3> QED BY <3>1, <3>2
  <2>5. \A s : s.journal = j => Op(s) = j.op
    BY <2>1, JournalFacts DEF Op
  <2>6. \A s : s.journal = j => Late(s, o, p)
    BY <2>4, <2>5 DEF Late
  <2>7. \A d \in disk' \cup {live'} : Late(d, o, p)
    BY <2>3, <2>6 DEF Over, Seen
  <2>8. Op(live') # o
    BY <2>3, <2>4, <2>5
  <2> QED BY <2>7, <2>8 DEF Over, Seen
<1>4. CASE ~ WriteJournal
  <2>1. \A d \in disk' \cup {live'} : Late(d, o, p)
    BY <1>4, JournalsStay, LateAlike DEF Over
  <2>2. Op(live') = o => call' \in {"none", "app", "select"}
    <3>1. CASE PowerLoss
      BY <3>1 DEF PowerLoss
    <3>2. CASE ~ PowerLoss
      <4>1. live'.journal = live.journal
        BY <1>4, <3>2, JournalStays
      <4>2. Op(live') = Op(live)
        BY <4>1 DEF Op
      <4>3. CASE Op(live) = o
        <5>1. PhaseNow \in Ends /\ call \in {"none", "app", "select"}
          BY <1>1, <1>2, <4>3 DEF Over
        <5> QED BY <1>4, <5>1, CallsStay
      <4> QED BY <4>2, <4>3
    <3> QED BY <3>1, <3>2
  <2> QED BY <2>1, <2>2 DEF Over, Seen
<1> QED BY <1>3, <1>4

LEMMA EndIsOver ==
    ASSUME OnDisk, NEW o, NEW p, Ended(o, p)
    PROVE  Over(o, p)
<1>1. PICK e \in disk : e.journal = live.journal
  BY DEF OnDisk
<1>2. \A d \in disk : Late(d, o, p)
  BY DEF Ended, Late
<1>3. Late(live, o, p)
  BY <1>1, <1>2, LateAlike
<1> QED BY <1>2, <1>3 DEF Over, Seen, Ended

LEMMA OnDiskInit == Init => OnDisk
BY DEF Init, OnDisk

\* An operation that ended durably, its call having returned, does not move
\* again: whatever calls, faults and power losses follow, the journal every
\* process reads keeps its phase or is that of a later operation.
THEOREM EndsAreFinal == Spec => EndsOnce
<1>1. Spec => [](RestoreInv /\ OnDisk)
  <2>1. Init => RestoreInv /\ OnDisk
    BY RestoreInit, OnDiskInit
  <2>2. RestoreInv /\ OnDisk /\ [Next]_vars => (RestoreInv /\ OnDisk)'
    BY RestoreStep, OnDiskStep DEF RestoreInv, FlowInv
  <2> QED BY <2>1, <2>2, PTL DEF Spec
<1>2. ASSUME NEW o \in 1 .. MaxOps, NEW p \in BOOT_PHASES \ {"FAILED"}
      PROVE  Spec => [](Ended(o, p) => [](Op(live) > o \/ (Op(live) = o /\ Phase(live) = p)))
  <2>1. RestoreInv /\ OnDisk /\ Over(o, p) /\ [Next]_vars => Over(o, p)'
    BY <1>2, OverStep DEF RestoreInv, FlowInv, Ends
  <2>2. OnDisk /\ Ended(o, p) => Over(o, p)
    BY EndIsOver
  <2>3. Over(o, p) => Op(live) > o \/ (Op(live) = o /\ Phase(live) = p)
    BY DEF Over, Late, Seen
  <2> QED BY <1>1, <2>1, <2>2, <2>3, PTL DEF Spec
<1> QED BY <1>2 DEF EndsOnce
=============================================================================
