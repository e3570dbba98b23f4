------------------------- MODULE EvidenceLedgerProofs -------------------------
(***************************************************************************)
(* Proofs about the evidence ledger, for any number of writers, commands,  *)
(* chains and rows.                                                        *)
(*                                                                         *)
(* A transaction appends to a private copy of the ledger, so the argument  *)
(* is about one sequence of rows: appending a command none of whose names  *)
(* is known keeps the sequence intact (AppendKeepsIntact).  The inductive  *)
(* invariant says that of the committed rows and of the rows of the one    *)
(* open transaction, that the latter extend the former, and where each row *)
(* in an answer may be found.                                              *)
(***************************************************************************)
EXTENDS EvidenceLedger, TLAPS

\* Every chain that has rows has one with the greatest number: LastOf is defined.
Headed(rows) ==
    \A i \in DOMAIN rows :
        \E m \in DOMAIN rows :
            /\ SameChain(rows[m], rows[i])
            /\ \A j \in DOMAIN rows : SameChain(rows[j], rows[i]) => rows[j].seq <= rows[m].seq

Intact(rows) ==
    /\ WellFormed(rows)
    /\ Unambiguous(rows)
    /\ Linked(rows)
    /\ Unforked(rows)
    /\ Sealed(rows)
    /\ Headed(rows)

Extends(longer, shorter) ==
    /\ Len(shorter) <= Len(longer)
    /\ \A i \in DOMAIN shorter : longer[i] = shorter[i]

Rows(rows) == {rows[i] : i \in DOMAIN rows}

TruthfulIn(answers, rows) ==
    \A r \in answers : SameSemantics(r.row, r.cmd) /\ r.row \in Rows(rows)

LockInv ==
    /\ lock \in Writers \cup {NoWriter}
    /\ pc \in [Writers -> {"idle", "open", "committed"}]
    /\ DOMAIN replies = Writers
    /\ replies = [w \in Writers |-> replies[w]]
    /\ \A w \in Writers : pc[w] = "open" <=> lock = w

RowsInv ==
    /\ Intact(events)
    /\ Intact(work)
    /\ lock # NoWriter => Extends(work, events)

AnswerInv ==
    /\ acked \subseteq Rows(events)
    /\ \A w \in Writers :
          /\ pc[w] = "idle" => replies[w] = {}
          /\ pc[w] = "open" => TruthfulIn(replies[w], work)
          /\ pc[w] = "committed" => TruthfulIn(replies[w], events)

IndInv == LockInv /\ RowsInv /\ AnswerInv

-----------------------------------------------------------------------------
(* Sequences of rows *)

LEMMA EmptyIntact == Intact(<<>>)
BY DEF Intact, WellFormed, IsSequence, Unambiguous, Linked, Unforked, Sealed, Headed

LEMMA SequenceAppend ==
    ASSUME NEW rows, IsSequence(rows), NEW row
    PROVE  /\ IsSequence(Append(rows, row))
           /\ Len(rows) \in Nat
           /\ DOMAIN rows = 1 .. Len(rows)
           /\ Len(Append(rows, row)) = Len(rows) + 1
           /\ DOMAIN Append(rows, row) = 1 .. (Len(rows) + 1)
           /\ \A i \in DOMAIN rows : Append(rows, row)[i] = rows[i]
           /\ Append(rows, row)[Len(rows) + 1] = row
<1> DEFINE S == {rows[i] : i \in DOMAIN rows} \cup {row}
           long == Append(rows, row)
<1>1. rows \in Seq(S)
  BY DEF IsSequence
<1>2. long \in Seq(S)
  BY <1>1
<1>3. /\ Len(rows) \in Nat
      /\ DOMAIN rows = 1 .. Len(rows)
      /\ Len(long) = Len(rows) + 1
      /\ DOMAIN long = 1 .. (Len(rows) + 1)
      /\ \A i \in DOMAIN rows : long[i] = rows[i]
      /\ long[Len(rows) + 1] = row
  BY <1>1, <1>2
<1>4. long \in Seq({long[i] : i \in DOMAIN long})
  BY <1>2, <1>3
<1> QED
  BY <1>3, <1>4 DEF IsSequence

-----------------------------------------------------------------------------
(* Appending a command to an intact sequence of rows *)

\* Whatever chain a command goes to, the row of LastOf has its greatest number.
LEMMA LastIsGreatest ==
    ASSUME NEW rows, Intact(rows), NEW cmd \in Commands, Chain(rows, cmd) # {}
    PROVE  /\ LastOf(rows, cmd) \in Chain(rows, cmd)
           /\ \A j \in Chain(rows, cmd) : rows[j].seq <= rows[LastOf(rows, cmd)].seq
<1>1. PICK i \in Chain(rows, cmd) : TRUE
  OBVIOUS
<1>2. i \in DOMAIN rows /\ SameChain(rows[i], cmd)
  BY <1>1 DEF Chain
<1>3. PICK k \in DOMAIN rows :
          /\ SameChain(rows[k], rows[i])
          /\ \A j \in DOMAIN rows : SameChain(rows[j], rows[i]) => rows[j].seq <= rows[k].seq
  BY <1>2 DEF Intact, Headed
<1>4. k \in Chain(rows, cmd) /\ \A j \in Chain(rows, cmd) : rows[j].seq <= rows[k].seq
  BY <1>2, <1>3 DEF Chain, SameChain
<1> QED
  BY <1>4 DEF LastOf

\* The new row: its fields are the command's, its number is the next one.
LEMMA NewRowFacts ==
    ASSUME NEW rows, Intact(rows), NEW cmd \in Commands
    PROVE  LET row == NewRow(rows, cmd)
           IN  /\ SameSemantics(row, cmd)
               /\ row.id = cmd.id
               /\ SameChain(row, cmd)
               /\ BodyOf(row) \in RowBodies
               /\ row.hash = EventHash(BodyOf(row), row.prev)
               /\ \A j \in Chain(rows, cmd) : rows[j].seq < row.seq
               /\ \/ row.seq = 1 /\ row.prev = Genesis
                  \/ \E j \in Chain(rows, cmd) :
                        row.seq = rows[j].seq + 1 /\ row.prev = rows[j].hash
<1> DEFINE row == NewRow(rows, cmd)
<1>1. /\ row.id = cmd.id /\ row.account = cmd.account /\ row.key = cmd.key
      /\ row.date = cmd.date /\ row.content = cmd.content
      /\ row.seq = NextSeq(rows, cmd) /\ row.prev = PrevHash(rows, cmd)
      /\ row.hash = EventHash(BodyOf(row), row.prev)
  BY DEF NewRow, BodyOf
<1>2. SameSemantics(row, cmd) /\ SameChain(row, cmd)
  BY <1>1 DEF SameSemantics, SameIdentity, SameChain
<1>3. \A j \in DOMAIN rows : rows[j].seq \in Nat \ {0}
  BY DEF Intact, WellFormed, BodyOf, RowBodies
<1>4. /\ row.seq \in Nat \ {0}
      /\ \A j \in Chain(rows, cmd) : rows[j].seq < row.seq
      /\ \/ row.seq = 1 /\ row.prev = Genesis
         \/ \E j \in Chain(rows, cmd) :
               row.seq = rows[j].seq + 1 /\ row.prev = rows[j].hash
  <2>1. CASE Chain(rows, cmd) = {}
    BY <2>1, <1>1 DEF NextSeq, PrevHash
  <2>2. CASE Chain(rows, cmd) # {}
    <3> DEFINE last == LastOf(rows, cmd)
    <3>1. last \in Chain(rows, cmd) /\ \A j \in Chain(rows, cmd) : rows[j].seq <= rows[last].seq
      BY <2>2, LastIsGreatest
    <3>2. row.seq = rows[last].seq + 1 /\ row.prev = rows[last].hash
      BY <2>2, <1>1 DEF NextSeq, PrevHash
    <3>3. \A j \in Chain(rows, cmd) : rows[j].seq \in Nat \ {0}
      BY <1>3 DEF Chain
    <3> HIDE DEF last, row
    <3> QED
      BY <3>1, <3>2, <3>3
  <2> QED
    BY <2>1, <2>2
<1>5. BodyOf(row) \in RowBodies
  BY <1>1, <1>4 DEF BodyOf, RowBodies, Commands
<1> HIDE DEF row
<1> QED
  BY <1>1, <1>2, <1>4, <1>5 DEF row

\* A command that names no known event extends an intact ledger to an intact one.
LEMMA AppendKeepsIntact ==
    ASSUME NEW rows, Intact(rows), NEW cmd \in Commands, Existing(rows, cmd) = {}
    PROVE  Intact(Append(rows, NewRow(rows, cmd)))
<1> DEFINE row  == NewRow(rows, cmd)
           n    == Len(rows) + 1
           long == Append(rows, row)
<1>1. IsSequence(rows)
  BY DEF Intact, WellFormed
<1>2. /\ IsSequence(long)
      /\ Len(rows) \in Nat
      /\ DOMAIN rows = 1 .. Len(rows)
      /\ DOMAIN long = 1 .. n
      /\ \A i \in DOMAIN rows : long[i] = rows[i]
      /\ long[n] = row
  BY <1>1, SequenceAppend
<1>3. /\ SameSemantics(row, cmd)
      /\ row.id = cmd.id
      /\ SameChain(row, cmd)
      /\ BodyOf(row) \in RowBodies
      /\ row.hash = EventHash(BodyOf(row), row.prev)
      /\ \A j \in Chain(rows, cmd) : rows[j].seq < row.seq
      /\ \/ row.seq = 1 /\ row.prev = Genesis
         \/ \E j \in Chain(rows, cmd) : row.seq = rows[j].seq + 1 /\ row.prev = rows[j].hash
  BY NewRowFacts
<1>4. \A i \in DOMAIN rows : rows[i].seq \in Nat \ {0}
  BY DEF Intact, WellFormed, BodyOf, RowBodies
<1>5. \A i \in DOMAIN rows : ~ SameIdentity(rows[i], row) /\ rows[i].id # row.id
  BY <1>3 DEF Existing, ById, ByIdentity, SameSemantics, SameIdentity
<1>6. \A i \in DOMAIN rows : SameChain(rows[i], row) => i \in Chain(rows, cmd)
  BY <1>3 DEF Chain, SameChain
<1>7. row.seq \in Nat \ {0}
  BY <1>3 DEF BodyOf, RowBodies
<1> HIDE DEF row, long
<1>8. \A i \in 1 .. n : i # n => i \in DOMAIN rows /\ long[i] = rows[i]
  BY <1>2
<1>a. WellFormed(long)
  BY <1>2, <1>3, <1>8 DEF WellFormed, Intact
<1>b. Unambiguous(long)
  BY <1>2, <1>5, <1>8 DEF Unambiguous, Intact, SameIdentity
<1>c. Linked(long)
  <2> SUFFICES ASSUME NEW i \in 1 .. n
               PROVE  \/ long[i].seq = 1 /\ long[i].prev = Genesis
                      \/ \E j \in 1 .. (i - 1) : /\ SameChain(long[i], long[j])
                                                 /\ long[i].seq = long[j].seq + 1
                                                 /\ long[i].prev = long[j].hash
    BY <1>2 DEF Linked
  <2>1. CASE i = n
    <3>1. CASE row.seq = 1 /\ row.prev = Genesis
      BY <2>1, <3>1, <1>2
    <3>2. CASE \E j \in Chain(rows, cmd) : row.seq = rows[j].seq + 1 /\ row.prev = rows[j].hash
      <4>1. PICK j \in Chain(rows, cmd) : row.seq = rows[j].seq + 1 /\ row.prev = rows[j].hash
        BY <3>2
      <4>2. j \in DOMAIN rows /\ SameChain(row, rows[j])
        BY <1>3, <4>1 DEF Chain, SameChain
      <4>3. j \in 1 .. (i - 1) /\ long[j] = rows[j]
        BY <4>2, <2>1, <1>2
      <4> QED
        BY <4>1, <4>2, <4>3, <2>1, <1>2
    <3> QED
      BY <3>1, <3>2, <1>3
  <2>2. CASE i # n
    <3>1. i \in DOMAIN rows /\ long[i] = rows[i]
      BY <2>2, <1>8
    <3>2. \A j \in 1 .. (i - 1) : long[j] = rows[j]
      BY <3>1, <1>2
    <3> QED
      BY <3>1, <3>2 DEF Intact, Linked
  <2> QED
    BY <2>1, <2>2
<1>d. Unforked(long)
  <2>1. \A i \in DOMAIN rows : SameChain(rows[i], row) => rows[i].seq < row.seq
    BY <1>3, <1>6
  <2> SUFFICES ASSUME NEW i \in 1 .. n, NEW j \in 1 .. n,
                      SameChain(long[i], long[j]), long[i].seq = long[j].seq
               PROVE  i = j
    BY <1>2 DEF Unforked
  <2>2. CASE i # n /\ j # n
    BY <2>2, <1>8 DEF Intact, Unforked
  <2>3. CASE i = n /\ j # n
    <3>1. j \in DOMAIN rows /\ long[j] = rows[j] /\ SameChain(rows[j], row)
      BY <2>3, <1>2, <1>8 DEF SameChain
    <3> QED
      BY <3>1, <2>1, <2>3, <1>2, <1>4, <1>7
  <2>4. CASE i # n /\ j = n
    <3>1. i \in DOMAIN rows /\ long[i] = rows[i] /\ SameChain(rows[i], row)
      BY <2>4, <1>2, <1>8 DEF SameChain
    <3> QED
      BY <3>1, <2>1, <2>4, <1>2, <1>4, <1>7
  <2> QED
    BY <2>2, <2>3, <2>4
<1>e. Sealed(long)
  BY <1>2, <1>3, <1>8 DEF Sealed, Intact
<1>f. Headed(long)
  <2> SUFFICES ASSUME NEW i \in 1 .. n
               PROVE  \E m \in 1 .. n :
                         /\ SameChain(long[m], long[i])
                         /\ \A j \in 1 .. n : SameChain(long[j], long[i]) => long[j].seq <= long[m].seq
    BY <1>2 DEF Headed
  <2>1. CASE SameChain(row, long[i])
    <3>1. \A j \in 1 .. n : SameChain(long[j], long[i]) => long[j].seq <= row.seq
      <4> SUFFICES ASSUME NEW j \in 1 .. n, SameChain(long[j], long[i])
                   PROVE  long[j].seq <= row.seq
        OBVIOUS
      <4>1. CASE j = n
        BY <4>1, <1>2, <1>7
      <4>2. CASE j # n
        <5>1. j \in DOMAIN rows /\ long[j] = rows[j] /\ SameChain(rows[j], row)
          BY <4>2, <2>1, <1>8 DEF SameChain
        <5>2. rows[j].seq < row.seq
          BY <5>1, <1>3, <1>6
        <5> QED
          BY <5>1, <5>2, <1>4, <1>7
      <4> QED
        BY <4>1, <4>2
    <3>2. n \in 1 .. n
      BY <1>2
    <3> QED
      BY <3>1, <3>2, <2>1, <1>2
  <2>2. CASE ~ SameChain(row, long[i])
    <3>1. i \in DOMAIN rows /\ long[i] = rows[i]
      BY <2>2, <1>2, <1>8 DEF SameChain
    <3>2. PICK m \in DOMAIN rows :
              /\ SameChain(rows[m], rows[i])
              /\ \A j \in DOMAIN rows : SameChain(rows[j], rows[i]) => rows[j].seq <= rows[m].seq
      BY <3>1 DEF Intact, Headed
    <3>3. m \in 1 .. n /\ long[m] = rows[m]
      BY <3>2, <1>2
    <3>4. \A j \in 1 .. n : SameChain(long[j], long[i]) => j \in DOMAIN rows /\ long[j] = rows[j]
      BY <2>2, <1>2, <1>8
    <3> QED
      BY <3>1, <3>2, <3>3, <3>4
  <2> QED
    BY <2>1, <2>2
<1> QED
  BY <1>a, <1>b, <1>c, <1>d, <1>e, <1>f DEF Intact, row, long

LEMMA ExtendsReflexive ==
    ASSUME NEW rows, IsSequence(rows)
    PROVE  Extends(rows, rows)
BY SequenceAppend DEF Extends

LEMMA ExtendsAppend ==
    ASSUME NEW rows, NEW shorter, IsSequence(rows), IsSequence(shorter),
           Extends(rows, shorter), NEW row
    PROVE  /\ Extends(Append(rows, row), shorter)
           /\ Rows(rows) \subseteq Rows(Append(rows, row))
           /\ row \in Rows(Append(rows, row))
<1>1. /\ Len(rows) \in Nat
      /\ Len(shorter) \in Nat
      /\ DOMAIN shorter = 1 .. Len(shorter)
      /\ DOMAIN rows = 1 .. Len(rows)
      /\ Len(Append(rows, row)) = Len(rows) + 1
      /\ DOMAIN Append(rows, row) = 1 .. (Len(rows) + 1)
      /\ \A i \in DOMAIN rows : Append(rows, row)[i] = rows[i]
      /\ Append(rows, row)[Len(rows) + 1] = row
  BY SequenceAppend
<1>2. Extends(Append(rows, row), shorter)
  BY <1>1 DEF Extends
<1>3. \A i \in DOMAIN rows : i \in DOMAIN Append(rows, row)
  BY <1>1
<1>4. Len(rows) + 1 \in DOMAIN Append(rows, row)
  BY <1>1
<1> QED
  BY <1>1, <1>2, <1>3, <1>4 DEF Rows

LEMMA ExtendsRows ==
    ASSUME NEW longer, NEW shorter, IsSequence(longer), IsSequence(shorter),
           Extends(longer, shorter)
    PROVE  Rows(shorter) \subseteq Rows(longer)
<1>1. /\ Len(longer) \in Nat /\ DOMAIN longer = 1 .. Len(longer)
      /\ Len(shorter) \in Nat /\ DOMAIN shorter = 1 .. Len(shorter)
  BY SequenceAppend
<1>2. \A i \in DOMAIN shorter : i \in DOMAIN longer
  BY <1>1 DEF Extends
<1> QED
  BY <1>2 DEF Extends, Rows

-----------------------------------------------------------------------------
(* The invariant *)

LEMMA InitIndInv == Init => IndInv
<1> SUFFICES ASSUME Init PROVE IndInv
  OBVIOUS
<1>1. LockInv
  BY WriterAssumption DEF Init, LockInv
<1>2. RowsInv
  BY EmptyIntact DEF Init, RowsInv
<1>3. AnswerInv
  BY DEF Init, AnswerInv, Rows
<1> QED
  BY <1>1, <1>2, <1>3 DEF IndInv

LEMMA RollbackKeepsIndInv ==
    ASSUME IndInv, NEW w \in Writers, lock = w, Rollback(w)
    PROVE  IndInv'
<1>1. LockInv'
  BY WriterAssumption DEF IndInv, LockInv, Rollback
<1>2. RowsInv'
  BY EmptyIntact DEF IndInv, RowsInv, Rollback
<1>3. AnswerInv'
  BY DEF IndInv, AnswerInv, LockInv, Rollback, TruthfulIn
<1> QED
  BY <1>1, <1>2, <1>3 DEF IndInv

LEMMA NextIndInv == IndInv /\ [Next]_vars => IndInv'
<1> SUFFICES ASSUME IndInv, [Next]_vars PROVE IndInv'
  OBVIOUS
<1> USE DEF IndInv
<1>0. IsSequence(events) /\ IsSequence(work)
  BY DEF RowsInv, Intact, WellFormed
<1>1. ASSUME NEW w \in Writers, Begin(w) PROVE IndInv'
  <2>1. LockInv'
    BY <1>1, WriterAssumption DEF LockInv, Begin
  <2>2. RowsInv'
    BY <1>0, <1>1, ExtendsReflexive DEF RowsInv, Begin
  <2>3. AnswerInv'
    BY <1>1, WriterAssumption DEF AnswerInv, LockInv, Begin, TruthfulIn
  <2> QED
    BY <2>1, <2>2, <2>3
<1>2. ASSUME NEW w \in Writers, NEW cmd \in Commands, AppendNew(w, cmd) PROVE IndInv'
  <2> DEFINE row == NewRow(work, cmd)
  <2>0. lock = w /\ lock # NoWriter /\ pc[w] = "open"
    BY <1>2, WriterAssumption DEF AppendNew, CanAppend, LockInv
  <2>1. LockInv'
    BY <1>2 DEF LockInv, AppendNew, Answer
  <2>2. RowsInv'
    <3>1. Intact(Append(work, row))
      BY <1>2, AppendKeepsIntact DEF RowsInv, AppendNew
    <3>2. Extends(Append(work, row), events)
      BY <1>0, <2>0, ExtendsAppend DEF RowsInv
    <3> QED
      BY <1>2, <3>1, <3>2 DEF RowsInv, AppendNew
  <2>3. AnswerInv'
    <3>1. Rows(work) \subseteq Rows(work') /\ row \in Rows(work')
      BY <1>0, <1>2, <2>0, ExtendsAppend DEF RowsInv, AppendNew
    <3>2. SameSemantics(row, cmd)
      BY <1>2, NewRowFacts DEF RowsInv
    <3>3. TruthfulIn(replies'[w], work')
      BY <1>2, <2>0, <3>1, <3>2 DEF TruthfulIn, AnswerInv, LockInv, AppendNew, Answer
    <3>4. \A v \in Writers \ {w} : replies'[v] = replies[v] /\ pc[v] # "open"
      BY <1>2, <2>0 DEF LockInv, AppendNew, Answer
    <3> QED
      BY <1>2, <2>0, <3>3, <3>4 DEF AnswerInv, AppendNew
  <2> QED
    BY <2>1, <2>2, <2>3
<1>3. ASSUME NEW w \in Writers, NEW cmd \in Commands, AppendExisting(w, cmd) PROVE IndInv'
  <2>0. lock = w /\ pc[w] = "open"
    BY <1>3 DEF AppendExisting, CanAppend, LockInv
  <2>1. LockInv'
    BY <1>3 DEF LockInv, AppendExisting, Answer
  <2>2. RowsInv'
    BY <1>3 DEF RowsInv, AppendExisting
  <2>3. AnswerInv'
    <3>1. PICK i \in Existing(work, cmd) :
              SameSemantics(work[i], cmd) /\ Answer(w, cmd, work[i])
      BY <1>3 DEF AppendExisting
    <3>2. work[i] \in Rows(work)
      BY DEF Existing, ById, ByIdentity, Rows
    <3>3. TruthfulIn(replies'[w], work)
      BY <2>0, <3>1, <3>2 DEF TruthfulIn, AnswerInv, LockInv, Answer
    <3>4. \A v \in Writers \ {w} : replies'[v] = replies[v]
      BY <3>1 DEF LockInv, Answer
    <3> QED
      BY <1>3, <2>0, <3>3, <3>4 DEF AnswerInv, AppendExisting
  <2> QED
    BY <2>1, <2>2, <2>3
<1>4. ASSUME NEW w \in Writers, NEW cmd \in Commands, AppendConflict(w, cmd) PROVE IndInv'
  BY <1>4, RollbackKeepsIndInv DEF AppendConflict, CanAppend
<1>5. ASSUME NEW w \in Writers, Abort(w) PROVE IndInv'
  BY <1>5, RollbackKeepsIndInv DEF Abort
<1>6. ASSUME NEW w \in Writers, Commit(w) PROVE IndInv'
  <2>0. lock = w /\ lock # NoWriter /\ pc[w] = "open"
    BY <1>6, WriterAssumption DEF Commit, LockInv
  <2>1. LockInv'
    BY <1>6, <2>0, WriterAssumption DEF LockInv, Commit
  <2>2. RowsInv'
    BY <1>6, EmptyIntact DEF RowsInv, Commit
  <2>3. AnswerInv'
    <3>1. Rows(events) \subseteq Rows(work)
      BY <1>0, <2>0, ExtendsRows DEF RowsInv
    <3>2. \A v \in Writers \ {w} : pc'[v] = pc[v] /\ pc[v] # "open"
      BY <1>6, <2>0 DEF LockInv, Commit
    <3>3. pc'[w] = "committed"
      BY <1>6 DEF LockInv, Commit
    <3>4. events' = work /\ replies' = replies /\ acked' = acked
      BY <1>6 DEF Commit
    <3> QED
      BY <2>0, <3>1, <3>2, <3>3, <3>4 DEF AnswerInv, TruthfulIn
  <2> QED
    BY <2>1, <2>2, <2>3
<1>7. ASSUME NEW w \in Writers, Acknowledge(w) PROVE IndInv'
  <2>1. LockInv'
    BY <1>7 DEF LockInv, Acknowledge
  <2>2. RowsInv'
    BY <1>7 DEF RowsInv, Acknowledge
  <2>3. AnswerInv'
    BY <1>7 DEF AnswerInv, LockInv, Acknowledge, TruthfulIn
  <2> QED
    BY <2>1, <2>2, <2>3
<1>8. ASSUME NEW w \in Writers, LoseReply(w) PROVE IndInv'
  <2>1. LockInv'
    BY <1>8 DEF LockInv, LoseReply
  <2>2. RowsInv'
    BY <1>8 DEF RowsInv, LoseReply
  <2>3. AnswerInv'
    BY <1>8 DEF AnswerInv, LockInv, LoseReply, TruthfulIn
  <2> QED
    BY <2>1, <2>2, <2>3
<1>9. CASE UNCHANGED vars
  BY <1>9 DEF vars, LockInv, RowsInv, AnswerInv, TruthfulIn
<1> QED
  BY <1>1, <1>2, <1>3, <1>4, <1>5, <1>6, <1>7, <1>8, <1>9 DEF Next

LEMMA AlwaysIndInv == Spec => []IndInv
BY InitIndInv, NextIndInv, PTL DEF Spec

-----------------------------------------------------------------------------
(* The results *)

\* The rows, the write lock and the control points of the writers keep their
\* types: the model never leaves the states the code's tables allow.
THEOREM TypeCorrect == Spec => []TypeOK
<1>1. IndInv => TypeOK
  BY DEF IndInv, LockInv, RowsInv, Intact, TypeOK
<1> QED
  BY <1>1, AlwaysIndInv, PTL

\* Whatever the writers do, the committed ledger stays a set of unforked hash
\* chains in which no identity and no id occurs twice (_append_candidate).
THEOREM LedgerStaysIntact == Spec => []LedgerIntact
<1>1. IndInv => LedgerIntact
  BY DEF IndInv, RowsInv, Intact, LedgerIntact
<1> QED
  BY <1>1, AlwaysIndInv, PTL

\* An acknowledged event survives every later step of every writer.
THEOREM AckedStaysRecorded == Spec => []AckedDurable
<1>1. IndInv => AckedDurable
  BY DEF IndInv, AnswerInv, AckedDurable, Rows
<1> QED
  BY <1>1, AlwaysIndInv, PTL

\* What a writer answers after its commit is the stored row of the command.
THEOREM AnswersStayTrue == Spec => []AnswersTrue
<1>1. IndInv => AnswersTrue
  BY DEF IndInv, AnswerInv, AnswersTrue, TruthfulIn, Rows, AnswerTo, SameSemantics, SameIdentity
<1> QED
  BY <1>1, AlwaysIndInv, PTL

\* No step rewrites the ledger: commits only extend it (append_event,
\* append_events and the journal's own transactions).
THEOREM LedgerIsAppendOnly == Spec => AppendOnly
<1> DEFINE Step == /\ Len(events) <= Len(events')
                   /\ \A i \in DOMAIN events : events'[i] = events[i]
<1>1. IndInv /\ [Next]_vars => [Step]_vars
  <2> SUFFICES ASSUME IndInv, [Next]_vars PROVE [Step]_vars
    OBVIOUS
  <2>0. IsSequence(events)
    BY DEF IndInv, RowsInv, Intact, WellFormed
  <2>1. CASE events' = events
    BY <2>0, <2>1, SequenceAppend
  <2>2. CASE \E w \in Writers : Commit(w)
    <3>1. lock # NoWriter /\ events' = work
      BY <2>2, WriterAssumption DEF Commit
    <3> QED
      BY <3>1 DEF IndInv, RowsInv, Extends
  <2>3. events' = events \/ \E w \in Writers : Commit(w)
    BY DEF Next, vars, Begin, AppendNew, AppendExisting, AppendConflict, Abort,
           Rollback, Acknowledge, LoseReply
  <2> QED
    BY <2>1, <2>2, <2>3
<1> QED
  BY <1>1, AlwaysIndInv, PTL DEF Spec, AppendOnly
=============================================================================
