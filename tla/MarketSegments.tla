---------------------------- MODULE MarketSegments ----------------------------
(***************************************************************************)
(* The durable sink of the canonical market events                         *)
(* (backend/app/services/market_data): the in-memory chain                 *)
(* (market_event_envelope.py), the JSONL segments that are synced line by  *)
(* line (market_event_segment.py), and the set of rotated segments with    *)
(* its manifest (market_event_segments.py), replaced after every append.   *)
(* The process may die, and a write may fail, between any two of them.     *)
(*                                                                         *)
(* An event is its source identity, its payload and its provenance.  An    *)
(* envelope is the sequence of the events up to its own: that is what its  *)
(* event hash commits to, so its Front is its prev_hash and its length its *)
(* chain_sequence.                                                         *)
(***************************************************************************)
EXTENDS Integers, Sequences, FiniteSets, SequencesExt

CONSTANTS
    SegmentSize,    \* max_events_per_segment
    Identities,     \* source identities
    Payloads,       \* normalized payloads
    Provenances,    \* sequence decisions and reasons
    MaxSequence,    \* bound: envelopes in the chain
    NoManifest      \* manifest.json does not exist

ASSUME SegmentsAssumption ==
    /\ SegmentSize \in Nat \ {0}
    /\ MaxSequence \in Nat

VARIABLES
    segmentFiles,      \* the segment files: their complete lines, and a torn last line
    manifest,   \* the lines of each segment the manifest describes
    status,     \* of the process: closed, ready, written, failed, refused
    writers,    \* _writers: the envelopes of each segment in memory
    known,      \* _by_source_identity of the set
    made,       \* the in-memory chain that produces the envelopes
    ackedEvents       \* the envelopes an append returned, ever

segmentVars == <<segmentFiles, manifest, status, writers, known, made, ackedEvents>>

Contents    == [id : Identities, payload : Payloads, provenance : Provenances]

ASSUME NoManifestAssumption == NoManifest \notin Seq(Seq(Seq(Contents)))

File(lines) == [lines |-> lines, torn |-> FALSE]
Chained(lines, base) ==
    \A n \in DOMAIN lines : Front(lines[n]) = IF n = 1 THEN base ELSE lines[n - 1]

Flat(segments) == FlattenSeq(segments)
Head_(segments) == IF segments = <<>> THEN <<>> ELSE Last(Last(segments))
LinesOf(fs)     == [n \in DOMAIN fs |-> fs[n].lines]
IdOf(envelope)  == Last(envelope).id

NoIdentityTwice(lines) ==
    \A m, n \in DOMAIN lines : IdOf(lines[m]) = IdOf(lines[n]) => m = n

-----------------------------------------------------------------------------
(* Opening *)

\* A segment writer that loads a file continues the chain at base, or refuses.
Loads(file, base) ==
    ~ file.torn /\ Chained(file.lines, base) /\ NoIdentityTwice(file.lines)

\* Faulty variant: the descriptors are not compared with the files.
FaultyDescribed(n) ==
    /\ n <= Len(segmentFiles)
    /\ Loads(segmentFiles[n], IF n = 1 THEN <<>> ELSE Last(manifest[n - 1]))
    /\ segmentFiles[n].lines # <<>>

Described(n) ==
    /\ n <= Len(segmentFiles)
    /\ Loads(segmentFiles[n], IF n = 1 THEN <<>> ELSE Last(manifest[n - 1]))
    /\ segmentFiles[n].lines # <<>>
    /\ segmentFiles[n].lines = manifest[n]

\* _load_manifest: files the manifest does not name are not looked at.
Recovers ==
    IF manifest = NoManifest
    THEN segmentFiles = <<>>
    ELSE /\ \A n \in DOMAIN manifest : Described(n)
         /\ NoIdentityTwice(Flat(manifest))

\* MarketEventSegmentSet, then MarketEventChain.from_events of its events.
OpenSet ==
    /\ status = "closed"
    /\ IF Recovers
       THEN LET segments == IF manifest = NoManifest THEN <<>>
                            ELSE SubSeq(LinesOf(segmentFiles), 1, Len(manifest))
            IN  /\ status' = "ready"
                /\ writers' = segments
                /\ known' = Range(Flat(segments))
                /\ made' = Flat(segments)
       ELSE status' = "refused" /\ UNCHANGED <<writers, known, made>>
    /\ UNCHANGED <<segmentFiles, manifest, ackedEvents>>

-----------------------------------------------------------------------------
(* Appending *)

SameIdentity(set, id) == {envelope \in set : IdOf(envelope) = id}

\* MarketEventChain._append refuses an identity with another payload.
MadeConflict(event) ==
    \E envelope \in SameIdentity(Range(made), event.id) : Last(envelope).payload # event.payload

\* The envelope of the chain, made now or before.
EnvelopeFor(event) ==
    IF SameIdentity(Range(made), event.id) = {}
    THEN Append(IF made = <<>> THEN <<>> ELSE Last(made), event)
    ELSE CHOOSE envelope \in Range(made) : IdOf(envelope) = event.id

MadeWith(envelope) == IF envelope \in Range(made) THEN made ELSE Append(made, envelope)

\* Faulty variant: a full segment takes one envelope more.
FaultyRotates == writers = <<>> \/ Len(Last(writers)) > SegmentSize

Rotates == writers = <<>> \/ Len(Last(writers)) >= SegmentSize

\* The segment the next envelope goes to.  A new writer loads the file of its
\* number when a former process left one.
Index == IF Rotates THEN Len(writers) + 1 ELSE Len(writers)
OnDisk == IF Index <= Len(segmentFiles) THEN segmentFiles[Index] ELSE File(<<>>)
Current == IF Rotates THEN OnDisk.lines ELSE Last(writers)
WritersWith(lines) ==
    IF Rotates THEN Append(writers, lines) ELSE [writers EXCEPT ![Index] = lines]

WriterOpens == Rotates => Loads(OnDisk, Head_(writers))

\* The set knows the identity: the append returns without looking further.
IsKnown(envelope) == SameIdentity(known, IdOf(envelope)) # {}

InSegment(envelope) == SameIdentity(Range(Current), IdOf(envelope))

\* Faulty variant: a segment takes whatever envelope comes.
FaultyFits(envelope) == TRUE

Fits(envelope) == Front(envelope) = IF Current = <<>> THEN Head_(writers) ELSE Last(Current)

SegmentConflict(envelope) ==
    \E other \in InSegment(envelope) : Last(other).payload # Last(envelope).payload

Refuses(envelope) ==
    \/ ~ WriterOpens
    \/ SegmentConflict(envelope)
    \/ InSegment(envelope) = {} /\ ~ Fits(envelope)

WriteSegment(line) == segmentFiles' = IF Index <= Len(segmentFiles) THEN [segmentFiles EXCEPT ![Index] = line]
                        ELSE Append(segmentFiles, line)

MayAppend(event) ==
    /\ status = "ready"
    /\ Len(made) < MaxSequence
    /\ ~ MadeConflict(event)

\* An event the set knows is returned as it is.
AppendKnown(event) ==
    /\ MayAppend(event)
    /\ IsKnown(EnvelopeFor(event))
    /\ made' = MadeWith(EnvelopeFor(event))
    /\ UNCHANGED <<segmentFiles, manifest, status, writers, known, ackedEvents>>

\* The segment refuses; the ingestor then stops for good.  A writer that was
\* created for the envelope stays when its file held events.
AppendRefused(event) ==
    LET envelope == EnvelopeFor(event)
    IN  /\ MayAppend(event)
        /\ ~ IsKnown(envelope)
        /\ Refuses(envelope)
        /\ status' = "failed"
        /\ made' = MadeWith(envelope)
        /\ writers' = IF WriterOpens /\ Current # <<>> THEN WritersWith(Current) ELSE writers
        /\ UNCHANGED <<segmentFiles, manifest, known, ackedEvents>>

\* The line is synced and in memory; the manifest is still the old one.
AppendEventLine(event) ==
    LET envelope == EnvelopeFor(event)
        already  == InSegment(envelope)
        lines    == IF already = {} THEN Append(Current, envelope) ELSE Current
    IN  /\ MayAppend(event)
        /\ ~ IsKnown(envelope)
        /\ ~ Refuses(envelope)
        /\ status' = "written"
        /\ made' = MadeWith(envelope)
        /\ writers' = WritersWith(lines)
        /\ known' = known \cup {IF already = {} THEN envelope ELSE CHOOSE o \in already : TRUE}
        /\ IF already = {} THEN WriteSegment(File(lines)) ELSE UNCHANGED segmentFiles
        /\ UNCHANGED <<manifest, ackedEvents>>

\* The write stops half way: the process dies or the disk refuses.
TearLine(event) ==
    /\ MayAppend(event)
    /\ ~ IsKnown(EnvelopeFor(event))
    /\ ~ Refuses(EnvelopeFor(event))
    /\ InSegment(EnvelopeFor(event)) = {}
    /\ status' = "failed"
    /\ made' = MadeWith(EnvelopeFor(event))
    /\ \E torn \in BOOLEAN : WriteSegment([lines |-> Current, torn |-> torn])
    /\ writers' = IF Rotates /\ Current # <<>> THEN WritersWith(Current) ELSE writers
    /\ UNCHANGED <<manifest, known, ackedEvents>>

\* _write_manifest: synced to a temporary file that replaces the manifest.
WriteManifest ==
    /\ status = "written"
    /\ \/ /\ manifest' = writers
          /\ ackedEvents' = Flat(writers)
          /\ status' = "ready"
       \/ status' = "failed" /\ UNCHANGED <<manifest, ackedEvents>>
    /\ UNCHANGED <<segmentFiles, writers, known, made>>

\* The process ends, at any point.
Exit ==
    /\ status # "closed"
    /\ status' = "closed"
    /\ writers' = <<>> /\ known' = {} /\ made' = <<>>
    /\ UNCHANGED <<segmentFiles, manifest, ackedEvents>>

-----------------------------------------------------------------------------
SegmentsInit ==
    /\ segmentFiles = <<>> /\ manifest = NoManifest
    /\ status = "closed"
    /\ writers = <<>> /\ known = {} /\ made = <<>> /\ ackedEvents = <<>>

SegmentsNext ==
    \/ OpenSet \/ WriteManifest \/ Exit
    \/ \E event \in Contents :
          AppendKnown(event) \/ AppendRefused(event) \/ AppendEventLine(event) \/ TearLine(event)

SegmentsSpec == SegmentsInit /\ [][SegmentsNext]_segmentVars

-----------------------------------------------------------------------------
(* The batch an analytical sink would take: MarketEventBatchProjector *)

Projects(lines) == \A n \in DOMAIN lines \ {1} : Front(lines[n]) = lines[n - 1]

(* Properties *)

\* Whatever stops the process between a segment and the manifest, an append
\* that returned is on disk, in its place, and memory, manifest and file agree
\* whenever the set is ready: what it serves is one contiguous chain.
AckedIsStored ==
    /\ IsPrefix(ackedEvents, Flat(LinesOf(segmentFiles)))
    /\ status = "ready" =>
          /\ Flat(writers) = ackedEvents
          /\ manifest = IF writers = <<>> THEN NoManifest ELSE writers
          /\ Projects(Flat(writers))
          /\ \A n \in DOMAIN writers : Len(writers[n]) <= SegmentSize

\* A set that holds a line whose append did not return does not open: that is
\* what the work package says of a crash between a segment and the manifest.
CrashIsNotHidden ==
    status = "ready" => Flat(writers) = Flat(LinesOf(segmentFiles))
=============================================================================
