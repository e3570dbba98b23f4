----------------------------- MODULE DepthEvidence -----------------------------
(***************************************************************************)
(* The evidence root of the depth observations: reports                    *)
(* (binance_depth_report_archive.py), operator attestations                *)
(* (binance_depth_attestation.py), signed reviews                          *)
(* (binance_depth_review_record.py) and the registry of operator keys      *)
(* (binance_depth_key_registry.py), with the review gate, the key policy   *)
(* and the portable bundle (binance_depth_evidence_bundle.py), all under   *)
(* app/services/market_data; scripts/*binance_depth*.py run them.          *)
(*                                                                         *)
(* Each store is a directory of hash-named files and a manifest of lines;  *)
(* the registry is lines only.  A command opens the stores it needs one    *)
(* after another, strictly, and goes on with what it read then.  Nothing   *)
(* locks the root: two commands may run at once, and any may be killed.    *)
(* A command is the list of steps it has left.                             *)
(***************************************************************************)
EXTENDS Naturals, Sequences, SequencesExt

CONSTANTS
    Reports, Keys,
    Commands,     \* command lines in use
    Prepared,     \* reports archived and attested by Operator before
    Operator,     \* the key that is registered already
    MaxRuns       \* bound: commands started

ASSUME EvidenceAssumption ==
    Prepared \subseteq Reports /\ IsFiniteSet(Prepared) /\ Operator \in Keys /\ MaxRuns \in Nat

VARIABLES
    files,     \* the files of each store
    lines,     \* the lines of each manifest, and of the registry
    acked,     \* what a command that returned 0 has recorded, by store
    run,       \* the commands that are running
    started,   \* commands started so far
    bundles,   \* bundles that create has returned
    restored   \* roots restored from a bundle

rootVars == <<files, lines, acked, run, started, bundles, restored>>

Stores == {"report", "attestation", "review"}
Kinds  == Stores \cup {"key"}

\* A line is a record (<<r>>, <<r, k>>, <<"register", k>> or <<"revoke", k>>); the
\* last may lack its newline, and text that is no record is Torn.
Torn == [item |-> <<>>, ended |-> FALSE]
Line(item) == [item |-> item, ended |-> TRUE]
Items(log) == {log[n].item : n \in DOMAIN log}
Nowhere == [k \in Kinds |-> {}]

\* What a record says: of a report, its hash; of an attestation and a review, the
\* report and the key that signed it; of a key, what became of it.
ReportRecord(r)         == <<r>>
AttestationRecord(r, k) == <<r, k>>
ReviewRecord(r, k)      == <<r, k>>
KeyEvent(op, k)         == <<op, k>>

KnownIn(seen)   == {k \in Keys : KeyEvent("register", k) \in seen}
RevokedIn(seen) == {k \in Keys : KeyEvent("revoke", k) \in seen}
ActiveIn(seen)  == KnownIn(seen) \ RevokedIn(seen)

-----------------------------------------------------------------------------
(* Opening a store *)

\* A line must be a whole record of its schema, under its own hash.
IsRecord(line) == line.item # <<>>
Parses(log) == \A n \in DOMAIN log : IsRecord(log[n])
NoTwice(log) == \A m, n \in DOMAIN log : log[m].item = log[n].item => m = n

\* An attestation and a review name a report, which the archive must have.
Refers(kind, item, reports) == kind \in {"attestation", "review"} => ReportRecord(item[1]) \in reports

\* A key is revoked once and after it was registered.
InOrder(log) ==
    \A n \in DOMAIN log : log[n].item[1] = "revoke" =>
        \E m \in 1..(n - 1) : log[m].item = KeyEvent("register", log[n].item[2])

\* Faulty variant: reading ends at a line that does not parse, without an error.
FaultyOpens(kind, dir, log, reports) == TRUE

\* _load_existing with strict: every line and every file, or an exception.
Opens(kind, dir, log, reports) ==
    /\ Parses(log) /\ NoTwice(log)
    /\ kind = "key" => InOrder(log)
    /\ kind # "key" => Items(log) = dir
    /\ \A item \in Items(log) : Refers(kind, item, reports)

\* What is read: the lines up to the first that does not parse.
Read(log) == {log[n].item : n \in {m \in DOMAIN log : Parses(SubSeq(log, 1, m))}}

-----------------------------------------------------------------------------
(* Commands *)

Idle == [op |-> "none", item |-> <<>>, todo |-> <<>>, seen |-> Nowhere,
         listed |-> Nowhere, hashed |-> Nowhere, copied |-> Nowhere, began |-> Nowhere]

Open(k) == <<"open", k>>
Write(k) == <<<<"file", k>>, <<"line", k>>>>
ForStores(verb) == <<<<verb, "report">>, <<verb, "attestation">>, <<verb, "review">>>>

Todo(op) ==
    CASE op = "archive"  -> <<Open("report")>> \o Write("report")
      [] op = "attest"   -> <<Open("report"), Open("attestation")>> \o Write("attestation")
      [] op = "review"   -> <<Open("report"), Open("attestation"), Open("key"), <<"gate", "review">>,
                              Open("review")>> \o Write("review")
      [] op \in {"register", "revoke"} -> <<Open("key"), <<"line", "key">>>>
      [] op = "bundle"   -> ForStores("open") \o ForStores("list") \o ForStores("hash")
                              \o ForStores("copy") \o <<<<"save", "bundle">>>>

\* The record a command means to make.
Aims(op) ==
    CASE op = "archive"  -> {ReportRecord(r) : r \in Reports}
      [] op = "attest"   -> {AttestationRecord(r, k) : r \in Reports, k \in Keys}
      [] op = "review"   -> {ReviewRecord(r, k) : r \in Reports, k \in Keys}
      [] op \in {"register", "revoke"} -> {KeyEvent(op, k) : k \in Keys}
      [] op = "bundle"   -> {<<>>}

Does(c, verb, kind) == run[c].todo # <<>> /\ Head(run[c].todo) = <<verb, kind>>
Done(c) == run' = [run EXCEPT ![c] = Idle]
On(c) == [run[c] EXCEPT !.todo = Tail(@)]

Start(c) ==
    /\ run[c].op = "none" /\ started < MaxRuns
    /\ \E op \in {"archive", "attest", "review", "register", "revoke", "bundle"} :
          \E aim \in Aims(op) :
             run' = [run EXCEPT ![c] = [Idle EXCEPT !.op = op, !.item = aim, !.todo = Todo(op),
                                                    !.began = IF op = "bundle" THEN acked ELSE Nowhere]]
    /\ started' = started + 1
    /\ UNCHANGED <<files, lines, acked, bundles, restored>>

OpenStore(c) ==
    /\ \E k \in Kinds :
          /\ Does(c, "open", k)
          /\ IF Opens(k, IF k = "key" THEN {} ELSE files[k], lines[k], run[c].seen["report"])
             THEN run' = [run EXCEPT ![c] = [On(c) EXCEPT !.seen[k] = Read(lines[k])]]
             ELSE Done(c)
    /\ UNCHANGED <<files, lines, acked, started, bundles, restored>>

\* audit: the key of an attestation is registered and not revoked.
AttestedBy(seen, r, k) == AttestationRecord(r, k) \in seen["attestation"] /\ k \in ActiveIn(seen["key"])

\* The key policy: one active key, which the reviewer must hold; the gate: the
\* report has an attestation by an active key (named, or the only one).
Eligible(seen, r, k) ==
    /\ ActiveIn(seen["key"]) = {k}
    /\ ReportRecord(r) \in seen["report"] /\ AttestedBy(seen, r, k)

\* The times of the key, of the attestation and of the retention may refuse as
\* well, and so may several attestations of one report.
Gate(c) ==
    /\ Does(c, "gate", "review")
    /\ \/ Eligible(run[c].seen, run[c].item[1], run[c].item[2]) /\ run' = [run EXCEPT ![c] = On(c)]
       \/ Done(c)
    /\ UNCHANGED <<files, lines, acked, started, bundles, restored>>

\* A record that is known is returned as it is.
Known(c, k) == run[c].item \in run[c].seen[k]

\* attest needs the archived report, revoke a key that is registered.
May(c, k) ==
    CASE k = "report" -> TRUE
      [] k \in {"attestation", "review"} -> ReportRecord(run[c].item[1]) \in run[c].seen["report"]
      [] k = "key" -> run[c].item[1] = "revoke" => run[c].item[2] \in KnownIn(run[c].seen["key"])

\* _write_new_report: by a temporary file and os.replace, so whole or not at all.
WriteFile(c) ==
    /\ \E k \in Stores :
          /\ Does(c, "file", k)
          /\ IF ~ May(c, k) \/ Known(c, k)
             THEN Done(c) /\ UNCHANGED files
             ELSE run' = [run EXCEPT ![c] = On(c)] /\ files' = [files EXCEPT ![k] = @ \cup {run[c].item}]
    /\ UNCHANGED <<lines, acked, started, bundles, restored>>

\* A line written after text without a newline becomes part of that line.
Appended(log, line) ==
    IF log # <<>> /\ ~ Last(log).ended
    THEN [log EXCEPT ![Len(log)] = [Torn EXCEPT !.ended = line.ended]]
    ELSE Append(log, line)

\* Opened for append, written, flushed and synced; then the command has succeeded.
AppendLine(c) ==
    /\ \E k \in Kinds :
          /\ Does(c, "line", k)
          /\ IF ~ May(c, k) \/ Known(c, k)
             THEN UNCHANGED <<lines, acked>>
             ELSE /\ lines' = [lines EXCEPT ![k] = Appended(@, Line(run[c].item))]
                  /\ acked' = [acked EXCEPT ![k] = @ \cup {run[c].item}]
    /\ Done(c)
    /\ UNCHANGED <<files, started, bundles, restored>>

\* The command is killed; in the middle of a line, a part of it may stay.
Kill(c) ==
    /\ run[c].op # "none"
    /\ \/ UNCHANGED lines
       \/ \E k \in Kinds : /\ Does(c, "line", k) /\ May(c, k) /\ ~ Known(c, k)
                           /\ \E part \in {Torn, [item |-> run[c].item, ended |-> FALSE]} :
                                 lines' = [lines EXCEPT ![k] = Appended(@, part)]
    /\ Done(c)
    /\ UNCHANGED <<files, acked, started, bundles, restored>>

-----------------------------------------------------------------------------
(* Bundles *)

ListFiles(c) ==
    /\ \E k \in Stores : /\ Does(c, "list", k)
                         /\ run' = [run EXCEPT ![c] = [On(c) EXCEPT !.listed[k] = files[k]]]
    /\ UNCHANGED <<files, lines, acked, started, bundles, restored>>

\* _build_entries reads each manifest for its hash, _write_bundle again for its
\* bytes; the files never change.
ReadManifest(c) ==
    /\ \E k \in Stores :
          \/ /\ Does(c, "hash", k)
             /\ run' = [run EXCEPT ![c] = [On(c) EXCEPT !.hashed[k] = lines[k]]]
          \/ /\ Does(c, "copy", k)
             /\ run' = [run EXCEPT ![c] = [On(c) EXCEPT !.copied[k] = lines[k]]]
    /\ UNCHANGED <<files, lines, acked, started, bundles, restored>>

SaveBundle(c) ==
    /\ Does(c, "save", "bundle")
    /\ bundles' = bundles \cup {[listed |-> run[c].listed, hashed |-> run[c].hashed,
                                 copied |-> run[c].copied, began |-> run[c].began]}
    /\ Done(c)
    /\ UNCHANGED <<files, lines, acked, started, restored>>

\* verify_evidence_bundle
Verifies(b) == \A k \in Stores : b.hashed[k] = b.copied[k]

\* Faulty variant: the stores of the restored root are not opened again.
FaultyReopens(b) == TRUE

Reopens(b) == \A k \in Stores : Opens(k, b.listed[k], b.copied[k], Read(b.copied["report"]))

\* restore_evidence_bundle, into an empty directory
RestoreEvidence ==
    /\ \E b \in bundles \ restored : Verifies(b) /\ Reopens(b) /\ restored' = restored \cup {b}
    /\ UNCHANGED <<files, lines, acked, run, started, bundles>>

-----------------------------------------------------------------------------
PreparedRoot ==
    [k \in Kinds |-> CASE k = "report" -> {ReportRecord(r) : r \in Prepared}
                       [] k = "attestation" -> {AttestationRecord(r, Operator) : r \in Prepared}
                       [] k = "review" -> {}
                       [] k = "key" -> {KeyEvent("register", Operator)}]

EvidenceInit ==
    /\ files = [k \in Stores |-> PreparedRoot[k]]
    /\ lines = [k \in Kinds |-> SetToSeq({Line(item) : item \in PreparedRoot[k]})]
    /\ acked = PreparedRoot
    /\ run = [c \in Commands |-> Idle] /\ started = 0
    /\ bundles = {} /\ restored = {}

EvidenceNext ==
    \/ \E c \in Commands : \/ Start(c) \/ OpenStore(c) \/ Gate(c) \/ WriteFile(c) \/ AppendLine(c) \/ Kill(c)
                           \/ ListFiles(c) \/ ReadManifest(c) \/ SaveBundle(c)
    \/ RestoreEvidence

EvidenceSpec == EvidenceInit /\ [][EvidenceNext]_rootVars

-----------------------------------------------------------------------------
(* Properties *)

Rests(reports, attestations, reviews) ==
    \A v \in reviews : /\ ReportRecord(v[1]) \in reports
                         /\ \E k \in Keys : AttestationRecord(v[1], k) \in attestations

\* Whatever ran at once and was killed: a store that opens has every record
\* that a command acknowledged, and the reviews rest on stored attestations.
OpenedIsComplete ==
    /\ \A k \in Kinds : Opens(k, IF k = "key" THEN {} ELSE files[k], lines[k], Read(lines["report"]))
                           => acked[k] \subseteq Read(lines[k])
    /\ (\A k \in Stores : Opens(k, files[k], lines[k], Read(lines["report"])))
          => Rests(Read(lines["report"]), Read(lines["attestation"]), Read(lines["review"]))

\* A root that was restored has all that was acknowledged before its bundle was
\* begun, and its reviews rest on what is in it.
RestoredIsWhole ==
    \A b \in restored :
        /\ \A k \in Stores : b.began[k] \subseteq Read(b.copied[k]) /\ Read(b.copied[k]) \subseteq b.listed[k]
        /\ Rests(Read(b.copied["report"]), Read(b.copied["attestation"]), Read(b.copied["review"]))

\* A bundle that create returned can be verified and restored
\* (create_evidence_bundle returns the manifest of the file it has written).
CreatedVerifies == \A b \in bundles : Verifies(b)

\* "Archive reopen sonrasi ... recovery" (P2-WP16): what was acknowledged can
\* be opened again.
AckedIsReadable == \A k \in Kinds : acked[k] \subseteq Read(lines[k])

\* What a store answers it opened is complete, and so is what a restored bundle
\* holds, whatever commands ran and were killed meanwhile.
RootsSound == OpenedIsComplete /\ RestoredIsWhole
===============================================================================
