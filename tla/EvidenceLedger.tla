---------------------------- MODULE EvidenceLedger ----------------------------
(***************************************************************************)
(* The append-only evidence ledger of Kuantra                              *)
(* (backend/app/db/repositories/evidence_ledger_repo.py, with the schema   *)
(* of backend/app/db/evidence_schema.py).                                  *)
(*                                                                         *)
(* Writers are threads or processes, each with a SQLite connection of its  *)
(* own.  A writer opens a transaction with BEGIN IMMEDIATE, which takes    *)
(* the one write lock of the database, appends one command (append_event)  *)
(* or several (append_events, the grouped batch of the journal) and        *)
(* commits; only then does its caller learn which rows its commands        *)
(* resolved to.  A command names an event id, an account, an identity key  *)
(* within the account (the venue, event type and idempotency key), the UTC *)
(* day of its occurrence and a content; the two timestamps, the payload    *)
(* and the provenance are the content.                                     *)
(*                                                                         *)
(* SHA-256 is taken to be free of collisions: a digest is represented by   *)
(* the tuple of fields it commits to, the previous digest included.        *)
(***************************************************************************)
EXTENDS Integers, Sequences, FiniteSets

CONSTANTS
    Writers,        \* threads and processes that write the ledger
    EventIds,       \* the ids commands carry, generated or explicit
    Accounts,       \* account_id
    Keys,           \* (venue, event_type, idempotency_key)
    Dates,          \* UTC day of occurred_at: chain_date_utc
    Contents,       \* the other fields the request fingerprint covers
    Genesis,        \* GENESIS_HASH, the prev_hash of the first row of a chain
    NoWriter,       \* the write lock is free
    MaxBatch        \* bound: commands of one transaction

ASSUME WriterAssumption == NoWriter \notin Writers
ASSUME BatchAssumption  == MaxBatch \in Nat \ {0}

VARIABLES
    events,         \* the committed rows of evidence_events, in commit order
    lock,           \* the writer inside a transaction
    work,           \* the rows it sees inside: events and its own inserts
    replies,        \* per writer, what its appends returned: command and row
    pc,             \* where each writer is
    acked           \* history: the rows callers were told are recorded

vars == <<events, lock, work, replies, pc, acked>>

-----------------------------------------------------------------------------
(* Commands and rows *)

\* A validated command, as _build_candidate prepares it.
Commands == [id: EventIds, account: Accounts, key: Keys, date: Dates, content: Contents]

\* A row of evidence_events without its two digests.
RowBodies == [id: EventIds, account: Accounts, key: Keys, date: Dates,
              content: Contents, seq: Nat \ {0}]

BodyOf(row) == [id |-> row.id, account |-> row.account, key |-> row.key,
                date |-> row.date, content |-> row.content, seq |-> row.seq]

\* What event_hash commits to: every column but itself, prev_hash included.
EventHash(body, prev) == <<body, prev>>

SameChain(r, s) == r.account = s.account /\ r.date = s.date

\* The unique index on account, venue, event type and idempotency key.
SameIdentity(r, s) == r.account = s.account /\ r.key = s.key

\* Faulty variant: a retry is recognised by its identity alone.
FaultySameIdentityOnly(r, s) == SameIdentity(r, s)

\* _same_semantic_event: event id and receipt time are acceptance details.
SameSemantics(r, s) == SameIdentity(r, s) /\ r.date = s.date /\ r.content = s.content

-----------------------------------------------------------------------------
(* Appending one command to the rows the transaction sees *)

Chain(rows, cmd) == {i \in DOMAIN rows : SameChain(rows[i], cmd)}

\* The row ORDER BY chain_sequence DESC LIMIT 1 selects.
LastOf(rows, cmd) ==
    CHOOSE i \in Chain(rows, cmd) :
        \A j \in Chain(rows, cmd) : rows[j].seq <= rows[i].seq

NextSeq(rows, cmd) ==
    IF Chain(rows, cmd) = {} THEN 1 ELSE rows[LastOf(rows, cmd)].seq + 1

PrevHash(rows, cmd) ==
    IF Chain(rows, cmd) = {} THEN Genesis ELSE rows[LastOf(rows, cmd)].hash

NewRow(rows, cmd) ==
    LET body == [id |-> cmd.id, account |-> cmd.account, key |-> cmd.key,
                 date |-> cmd.date, content |-> cmd.content,
                 seq |-> NextSeq(rows, cmd)]
        prev == PrevHash(rows, cmd)
    IN  [id |-> cmd.id, account |-> cmd.account, key |-> cmd.key,
         date |-> cmd.date, content |-> cmd.content, seq |-> body.seq,
         prev |-> prev, hash |-> EventHash(body, prev)]

ById(rows, cmd)       == {i \in DOMAIN rows : rows[i].id = cmd.id}
ByIdentity(rows, cmd) == {i \in DOMAIN rows : SameIdentity(rows[i], cmd)}

\* Faulty variant: only the event id is looked up.
FaultyExistingById(rows, cmd) == ById(rows, cmd)

\* existing_by_id or existing_by_identity: the id is looked up first.
Existing(rows, cmd) ==
    IF ById(rows, cmd) # {} THEN ById(rows, cmd) ELSE ByIdentity(rows, cmd)

-----------------------------------------------------------------------------
Init ==
    /\ events = <<>>
    /\ lock = NoWriter
    /\ work = <<>>
    /\ replies = [w \in Writers |-> {}]
    /\ pc = [w \in Writers |-> "idle"]
    /\ acked = {}

\* BEGIN IMMEDIATE.  Another writer waits for the busy timeout and then fails
\* without having changed anything.
Begin(w) ==
    /\ pc[w] = "idle"
    /\ lock = NoWriter
    /\ lock' = w
    /\ work' = events
    /\ pc' = [pc EXCEPT ![w] = "open"]
    /\ UNCHANGED <<events, replies, acked>>

CanAppend(w) ==
    /\ lock = w
    /\ Cardinality(replies[w]) < MaxBatch

Answer(w, cmd, row) ==
    replies' = [replies EXCEPT ![w] = @ \cup {[cmd |-> cmd, row |-> row]}]

\* The command names no known event: it becomes the next row of its chain.
AppendNew(w, cmd) ==
    /\ CanAppend(w)
    /\ Existing(work, cmd) = {}
    /\ work' = Append(work, NewRow(work, cmd))
    /\ Answer(w, cmd, NewRow(work, cmd))
    /\ UNCHANGED <<events, lock, pc, acked>>

\* A retry of a command that was already accepted returns the first event.
AppendExisting(w, cmd) ==
    /\ CanAppend(w)
    /\ \E i \in Existing(work, cmd) :
          /\ SameSemantics(work[i], cmd)
          /\ Answer(w, cmd, work[i])
    /\ UNCHANGED <<events, lock, work, pc, acked>>

Rollback(w) ==
    /\ lock' = NoWriter
    /\ work' = <<>>
    /\ replies' = [replies EXCEPT ![w] = {}]
    /\ pc' = [pc EXCEPT ![w] = "idle"]
    /\ UNCHANGED <<events, acked>>

\* Faulty variant: the conflicting command replaces the row, as an upsert would.
FaultyUpsert(w, cmd) ==
    /\ CanAppend(w)
    /\ \E i \in Existing(work, cmd) :
          /\ ~ SameSemantics(work[i], cmd)
          /\ work' = [work EXCEPT ![i].content = cmd.content]
          /\ Answer(w, cmd, work'[i])
    /\ UNCHANGED <<events, lock, pc, acked>>

\* EvidenceIdentityConflict: the whole transaction is rolled back.
AppendConflict(w, cmd) ==
    /\ CanAppend(w)
    /\ \E i \in Existing(work, cmd) : ~ SameSemantics(work[i], cmd)
    /\ Rollback(w)

\* Any other exception before the commit, a cancelled batch, or the death of
\* the process: SQLite discards the uncommitted rows.
Abort(w) ==
    /\ lock = w
    /\ Rollback(w)

\* Faulty variant: the connection is closed without a commit.
FaultyNoCommit(w) ==
    /\ lock = w
    /\ replies[w] # {}
    /\ lock' = NoWriter
    /\ work' = <<>>
    /\ pc' = [pc EXCEPT ![w] = "committed"]
    /\ UNCHANGED <<events, replies, acked>>

\* The commit also gives the write lock back, before the caller has its answer.
Commit(w) ==
    /\ lock = w
    /\ replies[w] # {}
    /\ events' = work
    /\ lock' = NoWriter
    /\ work' = <<>>
    /\ pc' = [pc EXCEPT ![w] = "committed"]
    /\ UNCHANGED <<replies, acked>>

\* The call returns: the caller holds the stored rows.
Acknowledge(w) ==
    /\ pc[w] = "committed"
    /\ acked' = acked \cup {r.row : r \in replies[w]}
    /\ replies' = [replies EXCEPT ![w] = {}]
    /\ pc' = [pc EXCEPT ![w] = "idle"]
    /\ UNCHANGED <<events, lock, work>>

\* The process dies between the commit and the answer: the rows stay, the
\* caller does not know, and may send the same commands again.
LoseReply(w) ==
    /\ pc[w] = "committed"
    /\ replies' = [replies EXCEPT ![w] = {}]
    /\ pc' = [pc EXCEPT ![w] = "idle"]
    /\ UNCHANGED <<events, lock, work, acked>>

Next ==
    \E w \in Writers :
        \/ Begin(w)
        \/ \E cmd \in Commands : \/ AppendNew(w, cmd)
                                 \/ AppendExisting(w, cmd)
                                 \/ AppendConflict(w, cmd)
        \/ Abort(w)
        \/ Commit(w)
        \/ Acknowledge(w)
        \/ LoseReply(w)

Spec == Init /\ [][Next]_vars

-----------------------------------------------------------------------------
(* What the ledger promises *)

IsSequence(rows) == rows \in Seq({rows[i] : i \in DOMAIN rows})

WellFormed(rows) ==
    /\ IsSequence(rows)
    /\ \A i \in DOMAIN rows : BodyOf(rows[i]) \in RowBodies

\* Every row the database or a transaction holds is well formed, and the write
\* lock, the control points and the private rows of the writers fit together.
TypeOK ==
    /\ lock \in Writers \cup {NoWriter}
    /\ pc \in [Writers -> {"idle", "open", "committed"}]
    /\ DOMAIN replies = Writers
    /\ WellFormed(events)
    /\ WellFormed(work)
    /\ \A w \in Writers : pc[w] = "open" <=> lock = w

\* No two rows have one identity or one id.
Unambiguous(rows) ==
    \A i, j \in DOMAIN rows :
        (SameIdentity(rows[i], rows[j]) \/ rows[i].id = rows[j].id) => i = j

\* Each row opens its chain or continues the row before it, number and digest.
Linked(rows) ==
    \A i \in DOMAIN rows :
        \/ rows[i].seq = 1 /\ rows[i].prev = Genesis
        \/ \E j \in 1 .. (i - 1) : /\ SameChain(rows[i], rows[j])
                                   /\ rows[i].seq = rows[j].seq + 1
                                   /\ rows[i].prev = rows[j].hash

\* A number is given once in a chain, so that no chain forks.
Unforked(rows) ==
    \A i, j \in DOMAIN rows :
        SameChain(rows[i], rows[j]) /\ rows[i].seq = rows[j].seq => i = j

Sealed(rows) ==
    \A i \in DOMAIN rows : rows[i].hash = EventHash(BodyOf(rows[i]), rows[i].prev)

\* The committed ledger is at every moment, between the transactions of any
\* writers and after any crash, a set of unforked hash chains without two
\* events of one identity: what verify_chain accepts.
LedgerIntact ==
    /\ Unambiguous(events)
    /\ Linked(events)
    /\ Unforked(events)
    /\ Sealed(events)

\* A caller that was told its event is recorded finds that same row in the
\* ledger ever after, whatever crashes and conflicts follow.
AckedDurable == acked \subseteq {events[i] : i \in DOMAIN events}

AnswerTo(row, cmd) ==
    /\ row.account = cmd.account
    /\ row.key = cmd.key
    /\ row.date = cmd.date
    /\ row.content = cmd.content

\* An answer a caller gets after the commit is the stored row of its command:
\* never a row with other immutable content, never a row that was rolled back.
AnswersTrue ==
    \A w \in Writers : pc[w] = "committed" =>
        \A r \in replies[w] :
            /\ AnswerTo(r.row, r.cmd)
            /\ \E i \in DOMAIN events : events[i] = r.row

\* The triggers of evidence_schema.py and the code agree: a step never
\* changes, removes or reorders a committed row, it only adds rows behind.
AppendOnly ==
    [][/\ Len(events) <= Len(events')
       /\ \A i \in DOMAIN events : events'[i] = events[i]]_vars
=============================================================================
