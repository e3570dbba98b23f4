-------------------------- MODULE TradeJournalProofs --------------------------
(***************************************************************************)
(* Proofs about the trade journal, for any threads, trades, sizes and      *)
(* events.                                                                 *)
(*                                                                         *)
(* First for requests that name the revision they read or create their     *)
(* trade (Requests \subseteq Revisioned, the requests of the editor).  A   *)
(* request in flight holds what it read.  Revisions only grow, so a        *)
(* request whose revision still matches has read the row as it is          *)
(* (RequestInv); its event is therefore new, rightly named and computed    *)
(* from the present row, and the row is always the snapshot of the last    *)
(* event of its trade (LedgerInv).                                         *)
(*                                                                         *)
(* Then for every kind of request, whatever it has read: it writes some    *)
(* row (StoresInv) and the projection shows an event of that row           *)
(* (ShownInv), so coverage is not lost where no legacy snapshot comes      *)
(* between (NoLegacyInv); a thread that is alone copies each row it wrote  *)
(* to the replica before it rests (ReplicaInv).                            *)
(***************************************************************************)
EXTENDS TradeJournal, FiniteSetTheorems, TLAPS

Revisioned == {"create", "close", "cancel", "edit", "sync", "stop"}

\* The changes that are computed from the row that was read.
Closes(r)  == r.kind = "close" /\ r.read.status = "OPEN" /\ r.payload = ClosePayload(r.read)
Cancels(r) == r.kind = "cancel" /\ r.read.status # "CANCELED"
              /\ r.payload = [status |-> "CANCELED", rev |-> r.read.rev + 1]
Edits(r)   == /\ r.kind = "edit"
              /\ \E status \in Statuses, size \in Sizes :
                    /\ Editable(r.read, status, size)
                    /\ status = "CLOSED" => size = r.read.size
                    /\ r.payload = EditPayload(r.read, status, size)

Creates(r) ==
    /\ r.kind = "create" /\ r.stage = "classified" /\ r.type = "IntentRecorded"
    /\ r.expected = AnyRevision /\ rows[r.trade] = NoRow
    /\ \E size \in Sizes : r.payload \in {Opened(size, 1), Ended(size, 1)}

\* What was read is older than the row, or is the row.
Changes(r) ==
    /\ Closes(r) \/ Cancels(r) \/ Edits(r)
    /\ r.read \in Rows /\ r.expected = r.read.rev
    /\ rows[r.trade] \in Rows /\ r.read.rev <= rows[r.trade].rev
    /\ r.read.rev = rows[r.trade].rev => r.read = rows[r.trade]
    /\ r.read.rev = rows[r.trade].rev /\ r.stage = "classified" => r.type = EventType(r.read, r)

InFlight(r) == r.stage \in {"received", "classified"}

IsRequest(r) ==
    /\ {"stage", "kind", "trade", "read", "payload", "expected", "type"} \subseteq DOMAIN r
    /\ r.trade \in Trades

RequestInv ==
    /\ DOMAIN req = Threads
    /\ \A th \in Threads : InFlight(req[th]) => IsRequest(req[th]) /\ (Creates(req[th]) \/ Changes(req[th]))
    /\ \A th, other \in Threads :
          /\ th # other
          /\ InFlight(req[th]) /\ req[th].kind = "create"
          /\ InFlight(req[other]) /\ req[other].kind = "create"
          => req[th].trade # req[other].trade

RowInv == rows \in [Trades -> Rows \cup {NoRow}]

\* An event of the ledger, told apart by the venue it is filed under.
IsEvent(e) ==
    /\ e.venue \in Venues /\ e.trade \in Trades /\ e.snap \in Rows
    /\ e.venue = "legacy"  => e.type = "LegacyTradeImported" /\ e.key[1] = "legacy" /\ e.key = LegacyKey(e.trade)
    /\ e.venue = "journal" => /\ e.type # "LegacyTradeImported"
                              /\ e.key[1] = "journal" /\ e.key[2] = e.trade
                              /\ e.key[4].rev = e.snap.rev

IsLast(i) == \A j \in DOMAIN ledger : ledger[j].trade = ledger[i].trade => j <= i

LedgerInv ==
    /\ ledger \in Seq({ledger[i] : i \in DOMAIN ledger})
    /\ \A i \in DOMAIN ledger :
          /\ IsEvent(ledger[i])
          /\ rows[ledger[i].trade] \in Rows /\ ledger[i].snap.rev <= rows[ledger[i].trade].rev
          /\ IsLast(i) => ledger[i].snap = rows[ledger[i].trade]
          /\ Earlier(i) # {} => \E p \in Earlier(i) : \A k \in Earlier(i) : k <= p
          /\ \E l \in DOMAIN ledger : ledger[l].trade = ledger[i].trade /\ IsLast(l)

ProjectionInv ==
    /\ projection = [v \in Venues |-> [t \in Trades |-> projection[v][t]]]
    /\ \A t \in Trades : projection["journal"][t] = Winner("journal", t)

JournalInv == RowInv /\ RequestInv /\ LedgerInv /\ ProjectionInv /\ EventsNamedRight /\ OneLegacySnapshot

-----------------------------------------------------------------------------
(* Sequences, rows and payloads *)

LEMMA MaxUnique ==
    ASSUME NEW S, S \subseteq Int, NEW n \in S, \A j \in S : j <= n
    PROVE  (CHOOSE i \in S : \A j \in S : j <= i) = n
<1> DEFINE m == CHOOSE i \in S : \A j \in S : j <= i
<1>1. m \in S /\ \A j \in S : j <= m
  OBVIOUS
<1>2. m <= n /\ n <= m /\ m \in Int /\ n \in Int
  BY <1>1
<1> QED
  BY <1>2

\* The event received last of a set of them.
NewestOf(S) == IF S = {} THEN 0 ELSE CHOOSE i \in S : \A j \in S : j <= i

LEMMA WinnerIsNewest ==
    \A v, t : Winner(v, t) = NewestOf(EventsOf(v, t)) /\ Winner(v, t)' = NewestOf(EventsOf(v, t)')
<1> TAKE v, t
<1>1. Winner(v, t) = NewestOf(EventsOf(v, t))
  BY DEF Winner, NewestOf
<1>2. Winner(v, t)' = NewestOf(EventsOf(v, t)')
  BY DEF Winner, NewestOf
<1> QED
  BY <1>1, <1>2

LEMMA SeqOver ==
    ASSUME NEW S, NEW s \in Seq(S), NEW T, \A i \in DOMAIN s : s[i] \in T
    PROVE  s \in Seq(T)
<1>1. Len(s) \in Nat /\ DOMAIN s = 1 .. Len(s) /\ s \in [1 .. Len(s) -> S]
  OBVIOUS
<1>2. s \in [1 .. Len(s) -> T]
  BY <1>1
<1> QED
  BY <1>1, <1>2

LEMMA AppendFacts ==
    ASSUME NEW s, s \in Seq({s[i] : i \in DOMAIN s}), NEW e, NEW more, more = Append(s, e)
    PROVE  /\ Len(s) \in Nat /\ DOMAIN s = 1 .. Len(s) /\ DOMAIN more = 1 .. Len(s) + 1
           /\ \A i \in DOMAIN s : more[i] = s[i]
           /\ more[Len(s) + 1] = e
           /\ more \in Seq({more[i] : i \in DOMAIN more})
<1> DEFINE S == {s[i] : i \in DOMAIN s} \cup {e}
<1>1. s \in Seq(S) /\ e \in S
  OBVIOUS
<1>2. more \in Seq(S) /\ Len(more) = Len(s) + 1 /\ Len(s) \in Nat
  BY <1>1
<1>3. /\ DOMAIN s = 1 .. Len(s) /\ DOMAIN more = 1 .. Len(s) + 1
      /\ \A i \in DOMAIN s : more[i] = s[i]
      /\ more[Len(s) + 1] = e
  BY <1>1, <1>2
<1>4. \A i \in DOMAIN more : more[i] \in {more[j] : j \in DOMAIN more}
  OBVIOUS
<1>5. more \in Seq({more[i] : i \in DOMAIN more})
  <2> HIDE DEF S
  <2> QED
    BY ONLY <1>2, <1>4, SeqOver
<1> QED
  BY <1>2, <1>3, <1>5

Fields == {"size", "status", "basis", "rev"}

LEMMA MergeIs ==
    ASSUME NEW row \in Rows, NEW payload, DOMAIN payload \subseteq Fields
    PROVE  Merge(row, payload) =
             [size   |-> IF "size" \in DOMAIN payload THEN payload["size"] ELSE row.size,
              status |-> IF "status" \in DOMAIN payload THEN payload["status"] ELSE row.status,
              basis  |-> IF "basis" \in DOMAIN payload THEN payload["basis"] ELSE row.basis,
              rev    |-> IF "rev" \in DOMAIN payload THEN payload["rev"] ELSE row.rev]
<1>1. row # NoRow /\ DOMAIN row = Fields
  BY JournalAssumption DEF Rows, Fields
<1>2. Merge(row, payload) = [f \in Fields |-> IF f \in DOMAIN payload THEN payload[f] ELSE row[f]]
  BY <1>1 DEF Merge
<1> QED
  BY <1>2 DEF Fields

\* A change of a row is one of the promised ones (close_trade, delete_trade,
\* TradeEditService.edit).
LEMMA ChangeEffect ==
    ASSUME NEW r, r.read \in Rows, Closes(r) \/ Cancels(r) \/ Edits(r)
    PROVE  \E status \in Statuses, size \in Sizes :
             /\ size # r.read.size => status # "CLOSED" /\ (r.read.status = "CLOSED" => status = "OPEN")
             /\ Merge(r.read, r.payload) = Atomic!Revised(r.read, status, size)
             /\ Merge(r.read, r.payload) \in Rows
             /\ Merge(r.read, r.payload).status = status
             /\ Merge(r.read, r.payload).rev = r.read.rev + 1
             /\ RequestedStatus(r.read, r) = status
             /\ r.payload.rev = r.read.rev + 1
<1>0. /\ r.read.size \in Sizes /\ r.read.status \in Statuses /\ r.read.basis \in Sizes \cup {NoResult}
      /\ r.read.rev \in Nat
  BY DEF Rows
<1>1. CASE Closes(r)
  <2>1. /\ DOMAIN r.payload = {"status", "basis", "rev"} /\ r.payload["status"] = "CLOSED"
        /\ r.payload["basis"] = r.read.size /\ r.payload["rev"] = r.read.rev + 1
    BY <1>1 DEF Closes, ClosePayload
  <2>2. Merge(r.read, r.payload) =
          [size |-> r.read.size, status |-> "CLOSED", basis |-> r.read.size, rev |-> r.read.rev + 1]
    BY <2>1, MergeIs DEF Fields
  <2>3. Atomic!Revised(r.read, "CLOSED", r.read.size) = Merge(r.read, r.payload)
    BY <2>2 DEF Atomic!Revised, Atomic!ResultAfter
  <2>4. RequestedStatus(r.read, r) = "CLOSED"
    BY <2>1 DEF RequestedStatus
  <2>5. Merge(r.read, r.payload) \in Rows
    BY <1>0, <2>2 DEF Rows, Statuses
  <2> QED
    BY <1>0, <2>1, <2>2, <2>3, <2>4, <2>5 DEF Statuses
<1>2. CASE Cancels(r)
  <2>1. /\ DOMAIN r.payload = {"status", "rev"} /\ r.payload["status"] = "CANCELED"
        /\ r.payload["rev"] = r.read.rev + 1
    BY <1>2 DEF Cancels
  <2>2. Merge(r.read, r.payload) =
          [size |-> r.read.size, status |-> "CANCELED", basis |-> r.read.basis, rev |-> r.read.rev + 1]
    BY <2>1, MergeIs DEF Fields
  <2>3. Atomic!Revised(r.read, "CANCELED", r.read.size) = Merge(r.read, r.payload)
    BY <2>2 DEF Atomic!Revised, Atomic!ResultAfter
  <2>4. RequestedStatus(r.read, r) = "CANCELED"
    BY <2>1 DEF RequestedStatus
  <2>5. Merge(r.read, r.payload) \in Rows
    BY <1>0, <2>2 DEF Rows, Statuses
  <2> QED
    BY <1>0, <2>1, <2>2, <2>3, <2>4, <2>5 DEF Statuses
<1>3. CASE Edits(r)
  <2>1. PICK status \in Statuses, size \in Sizes :
            /\ Editable(r.read, status, size)
            /\ status = "CLOSED" => size = r.read.size
            /\ r.payload = EditPayload(r.read, status, size)
    BY <1>3 DEF Edits
  <2>2. DOMAIN r.payload \subseteq Fields
    BY <2>1 DEF EditPayload, Fields
  <2>3. "rev" \in DOMAIN r.payload /\ r.payload["rev"] = r.read.rev + 1
    BY <2>1 DEF EditPayload
  <2>4. IF "size" \in DOMAIN r.payload THEN r.payload["size"] = size ELSE size = r.read.size
    BY <2>1 DEF EditPayload
  <2>5. IF "status" \in DOMAIN r.payload THEN r.payload["status"] = status ELSE status = r.read.status
    BY <2>1 DEF EditPayload
  <2>6. IF GivesResult(r.read, status)
        THEN "basis" \in DOMAIN r.payload /\ r.payload["basis"] = IF status = "CLOSED" THEN r.read.size ELSE NoResult
        ELSE "basis" \notin DOMAIN r.payload
    BY <2>1 DEF EditPayload
  <2>7. Merge(r.read, r.payload) =
          [size |-> size, status |-> status,
           basis |-> IF GivesResult(r.read, status) THEN IF status = "CLOSED" THEN r.read.size ELSE NoResult
                     ELSE r.read.basis,
           rev |-> r.read.rev + 1]
    BY <2>2, <2>3, <2>4, <2>5, <2>6, MergeIs
  <2>8. Atomic!Revised(r.read, status, size) = Merge(r.read, r.payload)
    BY <2>7 DEF Atomic!Revised, Atomic!ResultAfter, GivesResult
  <2>9. RequestedStatus(r.read, r) = status
    BY <2>5 DEF RequestedStatus
  <2>10. Merge(r.read, r.payload) \in Rows
    BY <1>0, <2>7 DEF Rows
  <2>11. size # r.read.size => status # "CLOSED" /\ (r.read.status = "CLOSED" => status = "OPEN")
    BY <2>1 DEF Editable
  <2> QED
    BY <2>3, <2>7, <2>8, <2>9, <2>10, <2>11
<1> QED
  BY <1>1, <1>2, <1>3

\* A new trade is the row it was sent as (create_trade).
LEMMA CreateEffect ==
    ASSUME NEW size \in Sizes, NEW payload \in {Opened(size, 1), Ended(size, 1)}
    PROVE  /\ Merge(NoRow, payload) \in Rows /\ Merge(NoRow, payload).rev = 1 /\ payload.rev = 1
           /\ \E status \in {"OPEN", "CLOSED"} : Merge(NoRow, payload) = Atomic!NewRow(size, status)
<1>1. PICK status \in {"OPEN", "CLOSED"} :
          payload = [size |-> size, status |-> status, basis |-> IF status = "CLOSED" THEN size ELSE NoResult, rev |-> 1]
  BY DEF Opened, Ended
<1>2. Merge(NoRow, payload) = payload
  BY <1>1 DEF Merge
<1>3. payload = Atomic!NewRow(size, status)
  BY <1>1 DEF Atomic!NewRow
<1>4. payload \in Rows
  BY <1>1 DEF Rows, Statuses
<1> QED
  BY <1>1, <1>2, <1>3, <1>4

-----------------------------------------------------------------------------
LEMMA InvInit == Init => JournalInv
<1> SUFFICES ASSUME Init PROVE JournalInv
  OBVIOUS
<1>1. ledger = <<>> /\ DOMAIN ledger = {}
  BY DEF Init
<1>2. RowInv
  <2>1. \A size \in Sizes : Opened(size, 1) \in Rows
    BY DEF Opened, Rows, Statuses
  <2> QED
    BY <2>1 DEF Init, RowInv
<1>3. RequestInv
  BY DEF Init, RequestInv, Idle, InFlight
<1>4. LedgerInv
  BY <1>1 DEF LedgerInv
<1>5. ProjectionInv
  <2>1. \A v \in Venues, t \in Trades : Winner(v, t) = 0
    BY <1>1 DEF Winner, EventsOf
  <2>2. projection = [v \in Venues |-> [t \in Trades |-> 0]] /\ "journal" \in Venues
    BY DEF Init, Venues
  <2> QED
    BY <2>1, <2>2 DEF ProjectionInv
<1>6. EventsNamedRight /\ OneLegacySnapshot
  BY <1>1 DEF EventsNamedRight, OneLegacySnapshot
<1> QED
  BY <1>2, <1>3, <1>4, <1>5, <1>6 DEF JournalInv

\* What does not touch the stores keeps all but the requests as they are.
LEMMA StoresKept ==
    ASSUME JournalInv, UNCHANGED <<rows, ledger, projection>>, RequestInv'
    PROVE  JournalInv'
<1> USE DEF JournalInv
<1>0. rows' = rows /\ ledger' = ledger /\ projection' = projection
  OBVIOUS
<1>1. RowInv'
  BY <1>0 DEF RowInv
<1>5. /\ \A i : Earlier(i)' = Earlier(i) /\ (IsLast(i)' <=> IsLast(i))
      /\ \A v, t : EventsOf(v, t)' = EventsOf(v, t)
  BY <1>0 DEF Earlier, IsLast, EventsOf
<1>6. (\A i : Previous(i)' = Previous(i)) /\ (\A v, t : Winner(v, t)' = Winner(v, t))
  <2>1. ASSUME NEW i PROVE Previous(i)' = Previous(i)
    BY <1>0, <1>5, Zenon DEF Previous
  <2>2. ASSUME NEW v, NEW t PROVE Winner(v, t)' = Winner(v, t)
    <3>1. EventsOf(v, t)' = EventsOf(v, t)
      BY <1>5
    <3> QED
      BY <3>1, WinnerIsNewest
  <2> QED
    BY <2>1, <2>2
<1>2. LedgerInv'
  <2>1. ledger' \in Seq({ledger'[i] : i \in DOMAIN ledger'})
    BY <1>0, Zenon DEF LedgerInv
  <2> QED
    BY <1>0, <1>5, <2>1 DEF LedgerInv
<1>3. ProjectionInv'
  BY <1>0, <1>6 DEF ProjectionInv
<1>4. EventsNamedRight' /\ OneLegacySnapshot'
  BY <1>0, <1>5, <1>6 DEF EventsNamedRight, OneLegacySnapshot
<1> QED
  BY <1>1, <1>2, <1>3, <1>4

\* A thread takes up a request, or has done with one.
LEMMA SendStep ==
    ASSUME JournalInv, NEW th \in Threads, NEW r, req' = [req EXCEPT ![th] = r],
           UNCHANGED <<rows, ledger, projection>>,
           InFlight(r) => IsRequest(r) /\ (Creates(r) \/ Changes(r)),
           InFlight(r) /\ r.kind = "create" =>
               \A other \in Threads \ {th} :
                   InFlight(req[other]) /\ req[other].kind = "create" => req[other].trade # r.trade
    PROVE  JournalInv'
<1>1. \A x : (Creates(x) => Creates(x)') /\ (Changes(x) => Changes(x)')
  BY DEF Creates, Changes
<1>2. RequestInv'
  BY <1>1 DEF JournalInv, RequestInv
<1> QED
  BY <1>2, StoresKept

\* An event is appended that shows the row of its trade as it is then.
LEMMA AppendStep ==
    ASSUME LedgerInv, EventsNamedRight, OneLegacySnapshot,
           NEW e, IsEvent(e), ledger' = Append(ledger, e),
           rows'[e.trade] \in Rows, e.snap = rows'[e.trade],
           \A t \in Trades \ {e.trade} : rows'[t] = rows[t],
           rows[e.trade] \in Rows => rows[e.trade].rev <= rows'[e.trade].rev,
           e.venue = "legacy" \/ e.type = "IntentRecorded" => \A i \in DOMAIN ledger : ledger[i].trade # e.trade,
           rows[e.trade] \in Rows =>
               (e.type = "FillRecorded" <=> e.snap.status = "CLOSED" /\ rows[e.trade].status # "CLOSED")
    PROVE  LedgerInv' /\ EventsNamedRight' /\ OneLegacySnapshot'
<1>0. PICK n : n = Len(ledger) + 1
  OBVIOUS
<1>1. /\ n \in Nat /\ n - 1 = Len(ledger) /\ DOMAIN ledger = 1 .. n - 1 /\ DOMAIN ledger' = 1 .. n
      /\ \A i \in DOMAIN ledger : ledger'[i] = ledger[i]
      /\ ledger'[n] = e
  <2>1. ledger \in Seq({ledger[i] : i \in DOMAIN ledger})
    BY DEF LedgerInv
  <2>2. /\ Len(ledger) \in Nat /\ DOMAIN ledger = 1 .. Len(ledger) /\ DOMAIN ledger' = 1 .. Len(ledger) + 1
        /\ \A i \in DOMAIN ledger : ledger'[i] = ledger[i]
        /\ ledger'[Len(ledger) + 1] = e
    BY <2>1, AppendFacts
  <2> QED
    BY <1>0, <2>2
<1>14. ledger' \in Seq({ledger'[i] : i \in DOMAIN ledger'})
  <2>1. ledger \in Seq({ledger[i] : i \in DOMAIN ledger})
    BY DEF LedgerInv
  <2> QED
    BY <2>1, AppendFacts
<1>2. DOMAIN ledger' = DOMAIN ledger \cup {n} /\ n \notin DOMAIN ledger /\ \A i \in DOMAIN ledger : i < n /\ i \in Nat
  BY <1>1
<1>3. \A i \in DOMAIN ledger : Earlier(i)' = Earlier(i) /\ Earlier(i) \subseteq DOMAIN ledger
  BY <1>1, <1>2 DEF Earlier
<1>4. Earlier(n)' = {j \in DOMAIN ledger : ledger[j].trade = e.trade}
  BY <1>1, <1>2 DEF Earlier
<1>5. \A i \in DOMAIN ledger : Earlier(i) # {} => Previous(i)' = Previous(i)
  <2> SUFFICES ASSUME NEW i \in DOMAIN ledger, Earlier(i) # {} PROVE Previous(i)' = Previous(i)
    OBVIOUS
  <2>1. PICK p \in Earlier(i) : \A k \in Earlier(i) : k <= p
    BY DEF LedgerInv
  <2>2. (CHOOSE j \in Earlier(i) : \A k \in Earlier(i) : k <= j) \in DOMAIN ledger
    BY <1>3, <2>1
  <2> QED
    BY <1>1, <1>3, <2>2 DEF Previous
<1>6. ASSUME Earlier(n)' # {}
      PROVE  \E p \in DOMAIN ledger :
                /\ p \in Earlier(n)' /\ \A k \in Earlier(n)' : k <= p
                /\ ledger[p].snap = rows[e.trade] /\ rows[e.trade] \in Rows
                /\ Previous(n)' = ledger[p]
  <2>1. PICK i \in DOMAIN ledger : ledger[i].trade = e.trade
    BY <1>4, <1>6
  <2>2. PICK p \in DOMAIN ledger : ledger[p].trade = e.trade /\ IsLast(p)
    BY <2>1 DEF LedgerInv
  <2>3. p \in Earlier(n)' /\ \A k \in Earlier(n)' : k <= p
    BY <1>4, <2>2 DEF IsLast
  <2>4. Earlier(n)' \subseteq Int
    BY <1>2, <1>4
  <2>5. (CHOOSE j \in Earlier(n)' : \A k \in Earlier(n)' : k <= j) = p
    BY <2>3, <2>4, MaxUnique
  <2>6. Previous(n)' = ledger[p]
    BY <1>1, <2>5 DEF Previous
  <2> QED
    BY <2>2, <2>3, <2>6 DEF LedgerInv
<1>7. \A i \in DOMAIN ledger : rows'[ledger[i].trade] \in Rows /\ ledger[i].snap.rev <= rows'[ledger[i].trade].rev
  <2> SUFFICES ASSUME NEW i \in DOMAIN ledger
               PROVE  rows'[ledger[i].trade] \in Rows /\ ledger[i].snap.rev <= rows'[ledger[i].trade].rev
    OBVIOUS
  <2>1. /\ rows[ledger[i].trade] \in Rows /\ ledger[i].snap.rev <= rows[ledger[i].trade].rev
        /\ ledger[i].trade \in Trades /\ ledger[i].snap \in Rows
    BY DEF LedgerInv, IsEvent
  <2>2. CASE ledger[i].trade = e.trade
    <3>1. ledger[i].snap.rev \in Nat /\ rows[e.trade].rev \in Nat /\ rows'[e.trade].rev \in Nat
      BY <2>1, <2>2 DEF Rows
    <3> QED
      BY <2>1, <2>2, <3>1
  <2>3. CASE ledger[i].trade # e.trade
    BY <2>1, <2>3
  <2> QED
    BY <2>2, <2>3
<1>8. IsLast(n)'
  BY <1>1, <1>2 DEF IsLast
<1>9. \A i \in DOMAIN ledger : IsLast(i)' => ledger[i].trade # e.trade /\ IsLast(i)
  BY <1>1, <1>2 DEF IsLast
<1>10. \A i \in DOMAIN ledger : ledger[i].trade # e.trade /\ IsLast(i) => IsLast(i)'
  BY <1>1, <1>2 DEF IsLast
<1>11. LedgerInv'
  <2>1. ASSUME NEW i \in DOMAIN ledger
        PROVE  /\ IsEvent(ledger'[i])
               /\ rows'[ledger'[i].trade] \in Rows /\ ledger'[i].snap.rev <= rows'[ledger'[i].trade].rev
               /\ IsLast(i)' => ledger'[i].snap = rows'[ledger'[i].trade]
               /\ Earlier(i)' # {} => \E p \in Earlier(i)' : \A k \in Earlier(i)' : k <= p
               /\ \E l \in DOMAIN ledger' : ledger'[l].trade = ledger'[i].trade /\ IsLast(l)'
    <3>1. IsEvent(ledger'[i]) /\ ledger[i].trade \in Trades
      BY <1>1 DEF LedgerInv, IsEvent
    <3>2. rows'[ledger'[i].trade] \in Rows /\ ledger'[i].snap.rev <= rows'[ledger'[i].trade].rev
      BY <1>1, <1>7
    <3>3. IsLast(i)' => ledger'[i].snap = rows'[ledger'[i].trade]
      <4>1. IsLast(i) => ledger[i].snap = rows[ledger[i].trade]
        BY DEF LedgerInv
      <4> QED
        BY <1>1, <1>9, <3>1, <4>1
    <3>4. Earlier(i)' # {} => \E p \in Earlier(i)' : \A k \in Earlier(i)' : k <= p
      BY <1>3 DEF LedgerInv
    <3>5. \E l \in DOMAIN ledger' : ledger'[l].trade = ledger'[i].trade /\ IsLast(l)'
      <4>1. CASE ledger[i].trade = e.trade
        BY <1>1, <1>2, <1>8, <4>1
      <4>2. CASE ledger[i].trade # e.trade
        <5>1. PICK l \in DOMAIN ledger : ledger[l].trade = ledger[i].trade /\ IsLast(l)
          BY DEF LedgerInv
        <5> QED
          BY <1>1, <1>2, <1>10, <4>2, <5>1
      <4> QED
        BY <4>1, <4>2
    <3> QED
      BY <3>1, <3>2, <3>3, <3>4, <3>5
  <2>2. /\ IsEvent(ledger'[n])
        /\ rows'[ledger'[n].trade] \in Rows /\ ledger'[n].snap.rev <= rows'[ledger'[n].trade].rev
        /\ IsLast(n)' => ledger'[n].snap = rows'[ledger'[n].trade]
        /\ Earlier(n)' # {} => \E p \in Earlier(n)' : \A k \in Earlier(n)' : k <= p
        /\ \E l \in DOMAIN ledger' : ledger'[l].trade = ledger'[n].trade /\ IsLast(l)'
    <3>1. rows'[e.trade].rev \in Nat
      BY DEF Rows
    <3>2. Earlier(n)' # {} => \E p \in Earlier(n)' : \A k \in Earlier(n)' : k <= p
      BY <1>6
    <3> QED
      BY <1>1, <1>2, <1>8, <3>1, <3>2
  <2> QED
    BY <1>1, <1>2, <1>14, <2>1, <2>2 DEF LedgerInv
<1>12. EventsNamedRight'
  <2>1. ASSUME NEW i \in DOMAIN ledger
        PROVE  /\ ledger'[i].type = "IntentRecorded" => Earlier(i)' = {}
               /\ Earlier(i)' # {} =>
                     (ledger'[i].type = "FillRecorded" <=>
                         ledger'[i].snap.status = "CLOSED" /\ Previous(i)'.snap.status # "CLOSED")
    BY <1>1, <1>3, <1>5 DEF EventsNamedRight
  <2>2. /\ ledger'[n].type = "IntentRecorded" => Earlier(n)' = {}
        /\ Earlier(n)' # {} =>
              (ledger'[n].type = "FillRecorded" <=>
                  ledger'[n].snap.status = "CLOSED" /\ Previous(n)'.snap.status # "CLOSED")
    BY <1>1, <1>4, <1>6
  <2> QED
    BY <1>2, <2>1, <2>2 DEF EventsNamedRight
<1>13. OneLegacySnapshot'
  BY <1>1, <1>2, <1>3, <1>4 DEF OneLegacySnapshot
<1> QED
  BY <1>11, <1>12, <1>13

-----------------------------------------------------------------------------
(* The steps of a request *)

\* What the transaction does when the revision matches: the event is new, and
\* the row it leaves is a promised successor of the row as it is
\* (record_trade_with_evidence, sqlite_driver.py).
LEMMA RecordEffect ==
    ASSUME JournalInv, NEW th \in Threads, Record(th)
    PROVE  \E row, e :
             LET t == req[th].trade IN
             /\ row \in Rows /\ t \in Trades /\ IsEvent(e) /\ e.venue = "journal" /\ e.trade = t /\ e.snap = row
             /\ rows' = [rows EXCEPT ![t] = row] /\ ledger' = Append(ledger, e)
             /\ Project(t, Len(ledger) + 1)
             /\ \/ /\ Creates(req[th]) /\ rows[t] = NoRow /\ e.type = "IntentRecorded"
                   /\ \E size \in Sizes, status \in {"OPEN", "CLOSED"} : row = Atomic!NewRow(size, status)
                \/ /\ rows[t] \in Rows /\ row.rev = rows[t].rev + 1 /\ e.type # "IntentRecorded"
                   /\ e.type = "FillRecorded" <=> row.status = "CLOSED" /\ rows[t].status # "CLOSED"
                   /\ \E size \in Sizes, status \in Statuses :
                         /\ size # rows[t].size => status # "CLOSED" /\ (rows[t].status = "CLOSED" => status = "OPEN")
                         /\ row = Atomic!Revised(rows[t], status, size)
<1> DEFINE t == req[th].trade
<1>0. PICK r : r = req[th]
  OBVIOUS
<1>1. /\ r.stage = "classified" /\ IsRequest(r) /\ r.trade \in Trades /\ (Creates(r) \/ Changes(r))
      /\ RevisionMatches(r)
  BY <1>0 DEF Record, Ready, JournalInv, RequestInv, InFlight, IsRequest
<1>2. PICK row : row = Merge(rows[r.trade], r.payload)
  OBVIOUS
<1>3. PICK e : e = [venue |-> "journal", trade |-> r.trade, type |-> r.type, key |-> KeyOf(r), snap |-> row]
  OBVIOUS
<1>4. /\ rows' = [rows EXCEPT ![r.trade] = row]
      /\ \/ ledger' = Append(ledger, e) /\ Project(r.trade, Len(ledger) + 1)
         \/ WithKey(KeyOf(r)) # {}
  BY <1>0, <1>2, <1>3 DEF Record
<1>5. /\ r.kind # "correct" /\ r.payload.rev = row.rev /\ row \in Rows
      /\ \/ /\ Creates(r) /\ rows[r.trade] = NoRow /\ r.type = "IntentRecorded"
            /\ \E size \in Sizes, status \in {"OPEN", "CLOSED"} : row = Atomic!NewRow(size, status)
         \/ /\ rows[r.trade] \in Rows /\ row.rev = rows[r.trade].rev + 1
            /\ r.type \in {"FillRecorded", "TradeCorrected"}
            /\ r.type = "FillRecorded" <=> row.status = "CLOSED" /\ rows[r.trade].status # "CLOSED"
            /\ \E size \in Sizes, status \in Statuses :
                  /\ size # rows[r.trade].size =>
                        status # "CLOSED" /\ (rows[r.trade].status = "CLOSED" => status = "OPEN")
                  /\ row = Atomic!Revised(rows[r.trade], status, size)
  <2>1. CASE Creates(r)
    <3>1. PICK size \in Sizes : r.payload \in {Opened(size, 1), Ended(size, 1)}
      BY <2>1 DEF Creates
    <3>2. /\ Merge(NoRow, r.payload) \in Rows /\ Merge(NoRow, r.payload).rev = 1 /\ r.payload.rev = 1
          /\ \E status \in {"OPEN", "CLOSED"} : Merge(NoRow, r.payload) = Atomic!NewRow(size, status)
      BY <3>1, CreateEffect
    <3>3. rows[r.trade] = NoRow /\ r.type = "IntentRecorded" /\ r.kind = "create"
      BY <2>1 DEF Creates
    <3> QED
      BY <1>2, <2>1, <3>2, <3>3
  <2>2. CASE Changes(r)
    <3>1. /\ r.read \in Rows /\ r.expected = r.read.rev /\ rows[r.trade] \in Rows
          /\ r.read.rev = rows[r.trade].rev => r.read = rows[r.trade]
          /\ r.read.rev = rows[r.trade].rev => r.type = EventType(r.read, r)
          /\ Closes(r) \/ Cancels(r) \/ Edits(r)
      BY <1>1, <2>2 DEF Changes
    <3>2. r.expected # AnyRevision /\ rows[r.trade] # NoRow /\ r.read # NoRow /\ r.read.rev \in Nat
      BY <3>1, JournalAssumption DEF Rows
    <3>3. rows[r.trade].rev = r.read.rev
      BY <1>1, <3>1, <3>2 DEF RevisionMatches
    <3>4. r.read = rows[r.trade] /\ r.type = EventType(r.read, r)
      BY <3>1, <3>3
    <3>5. r.kind \in {"close", "cancel", "edit"}
      BY <3>1 DEF Closes, Cancels, Edits
    <3>6. PICK status \in Statuses, size \in Sizes :
             /\ size # r.read.size => status # "CLOSED" /\ (r.read.status = "CLOSED" => status = "OPEN")
             /\ row = Atomic!Revised(r.read, status, size)
             /\ row \in Rows /\ row.status = status /\ row.rev = r.read.rev + 1
             /\ RequestedStatus(r.read, r) = status
             /\ r.payload.rev = r.read.rev + 1
      BY <1>2, <3>1, <3>4, ChangeEffect
    <3>7. /\ r.type \in {"FillRecorded", "TradeCorrected"}
          /\ r.type = "FillRecorded" <=> row.status = "CLOSED" /\ r.read.status # "CLOSED"
      BY <3>2, <3>4, <3>6 DEF EventType
    <3> QED
      BY <3>1, <3>4, <3>5, <3>6, <3>7
  <2> QED
    BY <1>1, <2>1, <2>2
<1>6. KeyOf(r)[1] = "journal" /\ KeyOf(r)[2] = r.trade /\ KeyOf(r)[4].rev = row.rev
  BY <1>5 DEF KeyOf
<1>7. WithKey(KeyOf(r)) = {}
  <2> SUFFICES ASSUME NEW i \in DOMAIN ledger, ledger[i].key = KeyOf(r) PROVE FALSE
    BY DEF WithKey
  <2>1. /\ IsEvent(ledger[i]) /\ rows[ledger[i].trade] \in Rows
        /\ ledger[i].snap.rev <= rows[ledger[i].trade].rev
    BY DEF JournalInv, LedgerInv
  <2>2. ledger[i].venue = "journal"
    BY <1>6, <2>1 DEF IsEvent, Venues
  <2>3. ledger[i].trade = r.trade /\ ledger[i].snap.rev = row.rev /\ ledger[i].snap \in Rows
    BY <1>6, <2>1, <2>2 DEF IsEvent
  <2>4. rows[r.trade] # NoRow
    BY <2>1, <2>3, JournalAssumption
  <2>5. row.rev = rows[r.trade].rev + 1 /\ rows[r.trade].rev \in Nat
    BY <1>5, <2>1, <2>3, <2>4 DEF Rows
  <2> QED
    BY <2>1, <2>3, <2>5
<1>8. e.venue = "journal" /\ e.trade = r.trade /\ e.type = r.type /\ e.key = KeyOf(r) /\ e.snap = row
  BY <1>3
<1>9. IsEvent(e)
  BY <1>1, <1>5, <1>6, <1>8 DEF IsEvent, Venues
<1>10. ledger' = Append(ledger, e) /\ Project(r.trade, Len(ledger) + 1)
  BY <1>4, <1>7
<1>11. \/ /\ Creates(r) /\ rows[r.trade] = NoRow /\ e.type = "IntentRecorded"
         /\ \E size \in Sizes, status \in {"OPEN", "CLOSED"} : row = Atomic!NewRow(size, status)
      \/ /\ rows[r.trade] \in Rows /\ row.rev = rows[r.trade].rev + 1 /\ e.type # "IntentRecorded"
         /\ e.type = "FillRecorded" <=> row.status = "CLOSED" /\ rows[r.trade].status # "CLOSED"
         /\ \E size \in Sizes, status \in Statuses :
               /\ size # rows[r.trade].size =>
                     status # "CLOSED" /\ (rows[r.trade].status = "CLOSED" => status = "OPEN")
               /\ row = Atomic!Revised(rows[r.trade], status, size)
  BY <1>5, <1>8
<1>12. row \in Rows /\ r.trade \in Trades /\ rows' = [rows EXCEPT ![r.trade] = row]
  BY <1>1, <1>4, <1>5
<1> QED
  BY <1>0, <1>8, <1>9, <1>10, <1>11, <1>12, Zenon

LEMMA RecordStep ==
    ASSUME JournalInv, NEW th \in Threads, Record(th)
    PROVE  JournalInv'
<1>0. PICK t : t = req[th].trade
  OBVIOUS
<1>1. PICK row, e :
         /\ row \in Rows /\ t \in Trades /\ IsEvent(e) /\ e.venue = "journal" /\ e.trade = t /\ e.snap = row
         /\ rows' = [rows EXCEPT ![t] = row] /\ ledger' = Append(ledger, e)
         /\ Project(t, Len(ledger) + 1)
         /\ \/ Creates(req[th]) /\ rows[t] = NoRow /\ e.type = "IntentRecorded"
            \/ /\ rows[t] \in Rows /\ row.rev = rows[t].rev + 1 /\ e.type # "IntentRecorded"
               /\ e.type = "FillRecorded" <=> row.status = "CLOSED" /\ rows[t].status # "CLOSED"
  BY <1>0, RecordEffect
<1>2. /\ rows \in [Trades -> Rows \cup {NoRow}] /\ rows'[t] = row
      /\ \A x \in Trades \ {t} : rows'[x] = rows[x]
      /\ row.rev \in Nat
  BY <1>1 DEF JournalInv, RowInv, Rows
<1>3. RowInv'
  BY <1>1, <1>2 DEF RowInv
<1>4. rows[t] \in Rows => rows[t].rev \in Nat /\ rows[t].rev < row.rev
  BY <1>1, JournalAssumption DEF Rows
<1>5. rows[t] = NoRow => \A i \in DOMAIN ledger : ledger[i].trade # t
  BY JournalAssumption DEF JournalInv, LedgerInv
<1>6. LedgerInv' /\ EventsNamedRight' /\ OneLegacySnapshot'
  <2>1. rows[t] \in Rows => rows[t].rev <= rows'[t].rev
    BY <1>2, <1>4
  <2>2. e.venue = "legacy" \/ e.type = "IntentRecorded" => \A i \in DOMAIN ledger : ledger[i].trade # t
    BY <1>1, <1>5
  <2>3. rows[t] \in Rows => (e.type = "FillRecorded" <=> e.snap.status = "CLOSED" /\ rows[t].status # "CLOSED")
    BY <1>1, JournalAssumption
  <2> QED
    BY <1>1, <1>2, <2>1, <2>2, <2>3, AppendStep DEF JournalInv
<1>7. ProjectionInv'
  <2>0. PICK n : n = Len(ledger) + 1
    OBVIOUS
  <2>1. /\ n \in Nat /\ DOMAIN ledger = 1 .. n - 1 /\ DOMAIN ledger' = 1 .. n
        /\ \A i \in DOMAIN ledger : ledger'[i] = ledger[i]
        /\ ledger'[n] = e
    <3>1. ledger \in Seq({ledger[i] : i \in DOMAIN ledger})
      BY DEF JournalInv, LedgerInv
    <3>2. /\ Len(ledger) \in Nat /\ DOMAIN ledger = 1 .. Len(ledger) /\ DOMAIN ledger' = 1 .. Len(ledger) + 1
          /\ \A i \in DOMAIN ledger : ledger'[i] = ledger[i]
          /\ ledger'[Len(ledger) + 1] = e
      BY <1>1, <3>1, AppendFacts
    <3> QED
      BY <2>0, <3>2
  <2>2. EventsOf("journal", t)' = EventsOf("journal", t) \cup {n}
        /\ EventsOf("journal", t) \subseteq 1 .. n - 1
    BY <1>1, <2>1 DEF EventsOf
  <2>3. Winner("journal", t)' = n
    <3>1. n \in EventsOf("journal", t)' /\ EventsOf("journal", t)' \subseteq Int
          /\ \A j \in EventsOf("journal", t)' : j <= n
      BY <2>1, <2>2
    <3>2. (CHOOSE i \in EventsOf("journal", t)' : \A j \in EventsOf("journal", t)' : j <= i) = n
      BY <3>1, MaxUnique
    <3>3. NewestOf(EventsOf("journal", t)') = n
      BY <3>1, <3>2 DEF NewestOf
    <3> QED
      BY <3>3, WinnerIsNewest
  <2>4. \A x \in Trades \ {t} : Winner("journal", x)' = Winner("journal", x)
    <3> TAKE x \in Trades \ {t}
    <3>1. EventsOf("journal", x)' = EventsOf("journal", x)
      BY <1>1, <2>1 DEF EventsOf
    <3> QED
      BY <3>1, WinnerIsNewest
  <2>5. /\ projection = [v \in Venues |-> [x \in Trades |-> projection[v][x]]] /\ "journal" \in Venues
        /\ projection' = [projection EXCEPT !["journal"][t] = n]
        /\ \A x \in Trades : projection["journal"][x] = Winner("journal", x)
    BY <1>1, <2>0 DEF JournalInv, ProjectionInv, Project, Venues
  <2>6. /\ projection'["journal"][t] = n
        /\ \A x \in Trades \ {t} : projection'["journal"][x] = projection["journal"][x]
    BY <1>1, <2>5
  <2>7. projection' = [v \in Venues |-> [x \in Trades |-> projection'[v][x]]]
    BY <1>1, <2>5
  <2> QED
    BY <2>3, <2>4, <2>5, <2>6, <2>7 DEF ProjectionInv
<1>8. RequestInv'
  <2>1. PICK r : req' = [req EXCEPT ![th] = r] /\ ~ InFlight(r)
    <3>1. req' = [req EXCEPT ![th] = Idle] \/ \E p : req' = [req EXCEPT ![th] = Syncing(p)]
      BY DEF Record, Return, Do
    <3>2. ~ InFlight(Idle) /\ \A p : ~ InFlight(Syncing(p))
      BY DEF Idle, Syncing, InFlight
    <3> QED
      BY <3>1, <3>2
  <2>2. DOMAIN req = Threads /\ InFlight(req[th])
    BY DEF JournalInv, RequestInv, Record, Ready, InFlight
  <2>3. \A q : q \in {req[other] : other \in Threads \ {th}} /\ InFlight(q) =>
            IsRequest(q) /\ (Creates(q)' \/ Changes(q)')
    <3> SUFFICES ASSUME NEW q, NEW other \in Threads \ {th}, q = req[other], InFlight(q)
                 PROVE  IsRequest(q) /\ (Creates(q)' \/ Changes(q)')
      OBVIOUS
    <3>1. IsRequest(q) /\ (Creates(q) \/ Changes(q)) /\ q.trade \in Trades
      BY DEF JournalInv, RequestInv, IsRequest
    <3>2. CASE q.trade # t
      <4>1. rows'[q.trade] = rows[q.trade]
        BY <1>2, <3>1, <3>2
      <4>2. (Creates(q) => Creates(q)') /\ (Changes(q) => Changes(q)')
        BY <4>1 DEF Creates, Changes
      <4> QED
        BY <3>1, <4>2
    <3>3. CASE q.trade = t /\ rows[t] \in Rows
      <4>1. Changes(q)
        BY <3>1, <3>3, JournalAssumption DEF Creates
      <4>2. q.read.rev <= rows[t].rev /\ q.read \in Rows /\ q.read.rev \in Nat
        BY <3>3, <4>1 DEF Changes, Rows
      <4>3. q.read.rev <= rows'[t].rev /\ q.read.rev # rows'[t].rev
        BY <1>2, <1>4, <3>3, <4>2
      <4>4. Changes(q)'
        BY <1>1, <1>2, <3>3, <4>1, <4>2, <4>3 DEF Changes
      <4> QED
        BY <3>1, <4>4
    <3>4. CASE q.trade = t /\ rows[t] \notin Rows
      <4>1. Creates(req[th]) /\ Creates(q)
        BY <1>1, <3>1, <3>4 DEF Changes
      <4>2. req[th].kind = "create" /\ req[other].kind = "create"
        BY <4>1 DEF Creates
      <4> QED
        BY <1>0, <2>2, <3>4, <4>2 DEF JournalInv, RequestInv
    <3> QED
      BY <3>2, <3>3, <3>4
  <2>4. DOMAIN req' = Threads /\ ~ InFlight(req'[th]) /\ \A other \in Threads \ {th} : req'[other] = req[other]
    BY <2>1, <2>2
  <2>5. \A other \in Threads : InFlight(req'[other]) =>
            IsRequest(req'[other]) /\ (Creates(req[other])' \/ Changes(req[other])')
    BY <2>3, <2>4
  <2> QED
    BY <2>4, <2>5 DEF JournalInv, RequestInv
<1> QED
  BY <1>3, <1>6, <1>7, <1>8 DEF JournalInv

\* The handlers read the row they want to change (create_trade, close_trade,
\* delete_trade, TradeEditService.edit).
LEMMA AcceptStep ==
    ASSUME JournalInv, "resize" \notin Requests, NEW th \in Threads, Create(th) \/ Close(th) \/ Cancel(th) \/ Edit(th)
    PROVE  JournalInv'
<1>0. /\ UNCHANGED <<rows, ledger, projection>>
      /\ \A t \in Trades : rows[t] = NoRow \/ rows[t] \in Rows
  BY DEF Create, Close, Cancel, Edit, UnchangedStores, JournalInv, RowInv
<1>1. CASE Create(th)
  <2>1. PICK t \in Trades, size \in Sizes :
            /\ rows[t] = NoRow
            /\ \A other \in Threads : req[other] # Idle /\ "trade" \in DOMAIN req[other] => req[other].trade # t
            /\ \E payload \in {Opened(size, 1), Ended(size, 1)} :
                  Do(th, Classified(Received("create", t, NoRow, payload, AnyRevision), "IntentRecorded"))
    BY <1>1 DEF Create
  <2>2. PICK payload \in {Opened(size, 1), Ended(size, 1)} :
            Do(th, Classified(Received("create", t, NoRow, payload, AnyRevision), "IntentRecorded"))
    BY <2>1
  <2>3. PICK r : r = Classified(Received("create", t, NoRow, payload, AnyRevision), "IntentRecorded")
    OBVIOUS
  <2>4. /\ r.stage = "classified" /\ r.kind = "create" /\ r.trade = t /\ r.payload = payload
        /\ r.expected = AnyRevision /\ r.type = "IntentRecorded"
        /\ {"stage", "kind", "trade", "read", "payload", "expected", "type"} \subseteq DOMAIN r
    BY <2>3 DEF Classified, Received
  <2>5. IsRequest(r) /\ Creates(r)
    BY <2>1, <2>4 DEF IsRequest, Creates
  <2>6. \A other \in Threads \ {th} : InFlight(req[other]) => req[other].trade # r.trade
    BY <2>1, <2>4 DEF InFlight, Idle, JournalInv, RequestInv, IsRequest
  <2> QED
    BY <1>0, <2>2, <2>3, <2>5, <2>6, SendStep DEF Do
<1>2. ASSUME NEW t \in Trades, NEW kind, NEW payload, rows[t] # NoRow,
             Do(th, Received(kind, t, rows[t], payload, rows[t].rev)),
             \A r : (r.kind = kind /\ r.read = rows[t] /\ r.payload = payload) => Closes(r) \/ Cancels(r) \/ Edits(r)
      PROVE  JournalInv'
  <2>1. PICK r : r = Received(kind, t, rows[t], payload, rows[t].rev)
    OBVIOUS
  <2>2. /\ r.stage = "received" /\ r.kind = kind /\ r.trade = t /\ r.read = rows[t] /\ r.payload = payload
        /\ r.expected = rows[t].rev
        /\ {"stage", "kind", "trade", "read", "payload", "expected", "type"} \subseteq DOMAIN r
    BY <2>1 DEF Received
  <2>3. rows[t] \in Rows /\ rows[t].rev \in Nat
    BY <1>0, <1>2 DEF Rows
  <2>4. IsRequest(r) /\ Changes(r)
    BY <1>2, <2>2, <2>3 DEF IsRequest, Changes
  <2>5. r.kind # "create"
    BY <2>4 DEF Changes, Closes, Cancels, Edits
  <2> QED
    BY <1>0, <1>2, <2>1, <2>4, <2>5, SendStep DEF Do
<1>3. CASE Close(th)
  <2>1. PICK t \in Trades : /\ rows[t] # NoRow /\ rows[t].status = "OPEN"
                            /\ Do(th, Received("close", t, rows[t], ClosePayload(rows[t]), rows[t].rev))
    BY <1>3 DEF Close
  <2>2. \A r : (r.kind = "close" /\ r.read = rows[t] /\ r.payload = ClosePayload(rows[t])) => Closes(r)
    BY <2>1 DEF Closes
  <2> QED
    BY <1>2, <2>1, <2>2
<1>4. CASE Cancel(th)
  <2>1. PICK t \in Trades : /\ rows[t] # NoRow /\ rows[t].status # "CANCELED"
                            /\ Do(th, Received("cancel", t, rows[t],
                                              [status |-> "CANCELED", rev |-> rows[t].rev + 1], rows[t].rev))
    BY <1>4 DEF Cancel
  <2>2. \A r : (r.kind = "cancel" /\ r.read = rows[t] /\ r.payload = [status |-> "CANCELED", rev |-> rows[t].rev + 1])
              => Cancels(r)
    BY <2>1 DEF Cancels
  <2> QED
    BY <1>2, <2>1, <2>2
<1>5. CASE Edit(th)
  <2>1. PICK t \in Trades, status \in Statuses, size \in Sizes :
            /\ rows[t] # NoRow
            /\ Editable(rows[t], status, size)
            /\ status = "CLOSED" /\ size # rows[t].size => rows[t].status = "CLOSED"
            /\ Do(th, Received("edit", t, rows[t], EditPayload(rows[t], status, size), rows[t].rev))
    BY <1>5 DEF Edit
  <2>2. status = "CLOSED" => size = rows[t].size
    BY <2>1 DEF Editable
  <2>3. \A r : (r.kind = "edit" /\ r.read = rows[t] /\ r.payload = EditPayload(rows[t], status, size)) => Edits(r)
    BY <2>1, <2>2 DEF Edits
  <2> QED
    BY <1>2, <2>1, <2>3
<1> QED
  BY <1>1, <1>3, <1>4, <1>5

\* The event is named after a second read (record_and_sync_trade).
LEMMA ClassifyStep ==
    ASSUME JournalInv, NEW th \in Threads, Classify(th)
    PROVE  JournalInv'
<1>0. PICK q : q = req[th]
  OBVIOUS
<1>1. /\ UNCHANGED <<rows, ledger, projection>>
      /\ q.stage = "received" /\ IsRequest(q) /\ (Creates(q) \/ Changes(q))
  BY <1>0 DEF Classify, UnchangedStores, JournalInv, RequestInv, InFlight
<1>2. Changes(q)
  BY <1>1 DEF Creates
<1>3. PICK type, r : r = Classified(q, type) /\ type = EventType(rows[q.trade], q)
  OBVIOUS
<1>4. /\ r.stage = "classified" /\ r.kind = q.kind /\ r.trade = q.trade /\ r.read = q.read
      /\ r.payload = q.payload /\ r.expected = q.expected /\ r.type = type
      /\ {"stage", "kind", "trade", "read", "payload", "expected", "type"} \subseteq DOMAIN r
  BY <1>1, <1>3 DEF Classified, IsRequest
<1>5. EventType(r.read, r) = EventType(q.read, q)
  BY <1>4 DEF EventType, RequestedStatus
<1>6. Closes(r) \/ Cancels(r) \/ Edits(r)
  <2>1. (Closes(q) => Closes(r)) /\ (Cancels(q) => Cancels(r)) /\ (Edits(q) => Edits(r))
    BY <1>4 DEF Closes, Cancels, Edits
  <2> QED
    BY <1>2, <2>1 DEF Changes
<1>7. Changes(r) /\ IsRequest(r)
  BY <1>1, <1>2, <1>3, <1>4, <1>5, <1>6 DEF Changes, IsRequest
<1>8. r.kind # "create"
  BY <1>6 DEF Closes, Cancels, Edits
<1>9. req' = [req EXCEPT ![th] = r]
  BY <1>0, <1>3 DEF Classify, Do
<1> QED
  BY <1>1, <1>7, <1>8, <1>9, SendStep

\* What only copies rows to the replica, or answers, leaves the stores alone.
LEMMA CopyStep ==
    ASSUME JournalInv, NEW th \in Threads, FullSync(th) \/ Refuse(th) \/ OlapDelete(th) \/ OlapInsert(th)
    PROVE  JournalInv'
<1>1. UNCHANGED <<rows, ledger, projection>>
  BY DEF FullSync, Refuse, OlapDelete, OlapInsert, UnchangedStores
<1>2. PICK r : req' = [req EXCEPT ![th] = r] /\ ~ InFlight(r)
  <2>1. \/ req' = [req EXCEPT ![th] = Idle]
        \/ \E p : req' = [req EXCEPT ![th] = Syncing(p)]
        \/ \E q, t : req' = [req EXCEPT ![th] = Deleted(q, t)]
    BY DEF FullSync, Refuse, OlapDelete, OlapInsert, Do
  <2>2. ~ InFlight(Idle) /\ (\A p : ~ InFlight(Syncing(p))) /\ (\A q, t : ~ InFlight(Deleted(q, t)))
    BY DEF Idle, Syncing, Deleted, InFlight
  <2> QED
    BY <2>1, <2>2
<1> QED
  BY <1>1, <1>2, SendStep

\* backfill_legacy_trades files its snapshot before any other event of the trade.
LEMMA BackfillStep ==
    ASSUME JournalInv, NEW t \in Trades, Backfill(t)
    PROVE  JournalInv'
<1> USE DEF JournalInv
<1>1. PICK e : /\ e = [venue |-> "legacy", trade |-> t, type |-> "LegacyTradeImported",
                       key |-> LegacyKey(t), snap |-> rows[t]]
              /\ ledger' = Append(ledger, e)
  BY DEF Backfill
<1>2. /\ UNCHANGED <<rows, projection, req>> /\ rows[t] \in Rows /\ rows[t].rev \in Nat
      /\ e.venue = "legacy" /\ e.trade = t /\ e.snap = rows[t] /\ e.type = "LegacyTradeImported"
  BY <1>1 DEF Backfill, RowInv, Rows
<1>3. IsEvent(e)
  BY <1>1, <1>2 DEF IsEvent, Venues, LegacyKey
<1>4. \A i \in DOMAIN ledger : ledger[i].trade # t
  <2> SUFFICES ASSUME NEW i \in DOMAIN ledger, ledger[i].trade = t PROVE FALSE
    OBVIOUS
  <2>1. IsEvent(ledger[i]) /\ ledger[i].type = "LegacyTradeImported" /\ ledger[i].key # LegacyKey(t)
    BY DEF Backfill, Evidenced, WithKey, LedgerInv
  <2> QED
    BY <2>1 DEF IsEvent, Venues
<1>5. LedgerInv' /\ EventsNamedRight' /\ OneLegacySnapshot'
  <2>1. rows' = rows /\ rows'[e.trade] \in Rows /\ e.snap = rows'[e.trade] /\ rows[e.trade].rev <= rows'[e.trade].rev
    BY <1>2
  <2>2. rows[e.trade] \in Rows =>
            (e.type = "FillRecorded" <=> e.snap.status = "CLOSED" /\ rows[e.trade].status # "CLOSED")
    BY <1>2
  <2> QED
    BY <1>1, <1>2, <1>3, <1>4, <2>1, <2>2, AppendStep
<1>6. ProjectionInv'
  <2>1. \A x \in Trades : EventsOf("journal", x)' = EventsOf("journal", x)
    <3>1. ledger \in Seq({ledger[i] : i \in DOMAIN ledger})
      BY DEF LedgerInv
    <3>2. /\ Len(ledger) \in Nat /\ DOMAIN ledger = 1 .. Len(ledger) /\ DOMAIN ledger' = 1 .. Len(ledger) + 1
          /\ \A i \in DOMAIN ledger : ledger'[i] = ledger[i]
          /\ ledger'[Len(ledger) + 1] = e
      BY <1>1, <3>1, AppendFacts
    <3> QED
      BY <1>2, <3>2 DEF EventsOf
  <2>2. \A x \in Trades : Winner("journal", x)' = Winner("journal", x)
    BY <2>1, WinnerIsNewest
  <2> QED
    BY <1>2, <2>2 DEF ProjectionInv
<1>7. RowInv' /\ RequestInv'
  BY <1>2 DEF RowInv, RequestInv, Creates, Changes
<1> QED
  BY <1>5, <1>6, <1>7

LEMMA RebuildStep == JournalInv /\ Rebuild => JournalInv'
<1> SUFFICES ASSUME JournalInv, Rebuild PROVE JournalInv'
  OBVIOUS
<1> USE DEF JournalInv
<1>1. rows' = rows /\ ledger' = ledger /\ req' = req
  BY DEF Rebuild
<1>2. \A v, t : Winner(v, t)' = Winner(v, t)
  <2>1. \A v, t : EventsOf(v, t)' = EventsOf(v, t)
    BY <1>1 DEF EventsOf
  <2> QED
    BY <2>1, WinnerIsNewest
<1>3. ProjectionInv'
  BY <1>2 DEF ProjectionInv, Rebuild, Venues
<1>4. RowInv' /\ RequestInv'
  BY <1>1 DEF RowInv, RequestInv, Creates, Changes
<1>5. \A i : Earlier(i)' = Earlier(i) /\ (IsLast(i)' <=> IsLast(i))
  BY <1>1 DEF Earlier, IsLast
<1>6. LedgerInv'
  <2>1. ledger' \in Seq({ledger'[i] : i \in DOMAIN ledger'})
    BY <1>1, Zenon DEF LedgerInv
  <2> QED
    BY <1>1, <1>5, <2>1 DEF LedgerInv
<1>7. EventsNamedRight' /\ OneLegacySnapshot'
  <2>1. ASSUME NEW i PROVE Previous(i)' = Previous(i)
    BY <1>1, <1>5, Zenon DEF Previous
  <2> QED
    BY <1>1, <1>5, <2>1 DEF EventsNamedRight, OneLegacySnapshot
<1> QED
  BY <1>3, <1>4, <1>6, <1>7

LEMMA RestartStep == JournalInv /\ (Stop \/ Start) => JournalInv'
<1> SUFFICES ASSUME JournalInv, Stop \/ Start PROVE JournalInv'
  OBVIOUS
<1>1. UNCHANGED <<rows, ledger, projection>> /\ (req' = req \/ req' = [th \in Threads |-> Idle])
  BY DEF Stop, Start
<1>2. ~ InFlight(Idle)
  BY DEF InFlight, Idle
<1>3. RequestInv'
  BY <1>1, <1>2 DEF JournalInv, RequestInv, Creates, Changes
<1> QED
  BY <1>1, <1>3, StoresKept

-----------------------------------------------------------------------------
\* Where every request names the revision it read, what was read in time is the
\* row, and the row is the snapshot of the last event (record_and_sync_trade,
\* sync_pipeline.py; record_trade_with_evidence, sqlite_driver.py).
THEOREM JournalInvariant ==
    ASSUME Requests \subseteq Revisioned
    PROVE  Spec => []JournalInv
<1>1. JournalInv /\ [Next]_vars => JournalInv'
  <2> SUFFICES ASSUME JournalInv, [Next]_vars PROVE JournalInv'
    OBVIOUS
  <2>0. "resize" \notin Requests /\ {"correct", "confirm", "import"} \cap Requests = {}
    BY DEF Revisioned
  <2>1. CASE UNCHANGED vars
    BY <2>1, StoresKept DEF vars, JournalInv, RequestInv, Creates, Changes
  <2>2. ASSUME NEW th \in Threads, Correct(th) \/ Confirm(th) \/ Import(th) PROVE FALSE
    BY <2>0, <2>2 DEF Correct, Confirm, Import, Accept
  <2> QED
    BY <2>0, <2>1, <2>2, AcceptStep, ClassifyStep, RecordStep, CopyStep, BackfillStep, RebuildStep, RestartStep DEF Next
<1> QED
  BY InvInit, <1>1, PTL DEF Spec

\* Rows, ledger and projection agree after every commit, refusal, crash and
\* rebuild, and every event is named for what it did.
THEOREM JournalIsSound ==
    ASSUME Requests \subseteq Revisioned
    PROVE  Spec => []JournalSound
<1>1. JournalInv => JournalSound
  <2> SUFFICES ASSUME JournalInv PROVE RowsEvidenced
    BY DEF JournalInv, JournalSound
  <2>1. ASSUME NEW t \in Trades, Winner("journal", t) # 0 PROVE ledger[Winner("journal", t)].snap = rows[t]
    <3>1. PICK j \in EventsOf("journal", t) : TRUE
      BY <2>1 DEF Winner
    <3>2. PICK l \in DOMAIN ledger : ledger[l].trade = t /\ IsLast(l)
      BY <3>1 DEF JournalInv, LedgerInv, EventsOf
    <3>3. DOMAIN ledger \subseteq Int
      BY DEF JournalInv, LedgerInv
    <3>4. l \in EventsOf("journal", t)
      <4>1. ASSUME ledger[l].venue = "legacy" PROVE FALSE
        <5>1. Earlier(l) = {}
          BY <4>1 DEF JournalInv, OneLegacySnapshot
        <5>2. j \in DOMAIN ledger /\ ledger[j].trade = t /\ ledger[j].venue = "journal" /\ j <= l
          BY <3>1, <3>2 DEF EventsOf, IsLast
        <5>3. j # l
          BY <4>1, <5>2
        <5>4. ledger \in Seq({ledger[i] : i \in DOMAIN ledger})
          BY DEF JournalInv, LedgerInv
        <5>5. Len(ledger) \in Nat /\ DOMAIN ledger = 1 .. Len(ledger)
          BY <5>4
        <5>6. l \in 1 .. Len(ledger) /\ j \in 1 .. Len(ledger)
          BY <3>2, <5>2, <5>5
        <5>7. j \in 1 .. (l - 1)
          BY <5>2, <5>3, <5>5, <5>6
        <5> QED
          BY <3>2, <5>1, <5>2, <5>7 DEF Earlier
      <4> QED
        BY <3>2, <4>1 DEF EventsOf, JournalInv, LedgerInv, IsEvent, Venues
    <3>5. \A i \in EventsOf("journal", t) : i <= l
      BY <3>2 DEF EventsOf, IsLast
    <3>6. EventsOf("journal", t) \subseteq Int
      BY <3>3 DEF EventsOf
    <3>7. NewestOf(EventsOf("journal", t)) = l
      BY <3>4, <3>5, <3>6, MaxUnique DEF NewestOf
    <3>8. Winner("journal", t) = l
      BY <3>7, WinnerIsNewest
    <3> QED
      BY <3>2, <3>8 DEF JournalInv, LedgerInv
  <2> QED
    BY <2>1 DEF RowsEvidenced, JournalInv, ProjectionInv
<1> QED
  BY <1>1, JournalInvariant, PTL

\* The journal implements the one that changes in a single step: each commit is
\* a step of AtomicJournal on the row as it is, and nothing else moves a row.
THEOREM JournalIsAtomic ==
    ASSUME Requests \subseteq Revisioned
    PROVE  Spec => ImplementsAtomicJournal
<1>1. Init => Atomic!AtomicInit
  <2> SUFFICES ASSUME Init PROVE Atomic!AtomicInit
    OBVIOUS
  <2>1. \A size \in Sizes : Opened(size, 1) = Atomic!NewRow(size, "OPEN")
    BY DEF Opened, Atomic!NewRow
  <2> QED
    BY <2>1 DEF Init, Atomic!AtomicInit
<1>2. JournalInv /\ [Next]_vars => [Atomic!AtomicNext]_rows
  <2> SUFFICES ASSUME JournalInv, [Next]_vars PROVE [Atomic!AtomicNext]_rows
    OBVIOUS
  <2>1. ASSUME NEW th \in Threads, Record(th) PROVE Atomic!AtomicNext
    <3>0. PICK t : t = req[th].trade
      OBVIOUS
    <3>1. PICK row :
             /\ t \in Trades /\ rows' = [rows EXCEPT ![t] = row]
             /\ \/ /\ rows[t] = NoRow
                   /\ \E size \in Sizes, status \in {"OPEN", "CLOSED"} : row = Atomic!NewRow(size, status)
                \/ /\ rows[t] \in Rows
                   /\ \E size \in Sizes, status \in Statuses :
                         /\ size # rows[t].size => status # "CLOSED" /\ (rows[t].status = "CLOSED" => status = "OPEN")
                         /\ row = Atomic!Revised(rows[t], status, size)
      BY <2>1, <3>0, RecordEffect
    <3>2. CASE rows[t] = NoRow
      BY <3>1, <3>2, JournalAssumption DEF Atomic!AtomicNext, Atomic!RecordTrade
    <3>3. CASE rows[t] \in Rows
      <4>1. PICK size \in Sizes, status \in Statuses :
               /\ size # rows[t].size => status # "CLOSED" /\ (rows[t].status = "CLOSED" => status = "OPEN")
               /\ row = Atomic!Revised(rows[t], status, size)
        BY <3>1, <3>3, JournalAssumption
      <4>2. Atomic!EditTrade(t)
        BY <3>1, <3>3, <4>1, JournalAssumption DEF Atomic!EditTrade, Atomic!RowStatuses, Statuses
      <4> QED
        BY <3>1, <4>2 DEF Atomic!AtomicNext
    <3> QED
      BY <3>1, <3>2, <3>3
  <2>2. CASE UNCHANGED rows
    BY <2>2
  <2> QED
    BY <2>1, <2>2 DEF Next, vars, Create, Close, Cancel, Edit, Correct, Confirm, Import, FullSync, Classify, Refuse,
       OlapDelete, OlapInsert, Stop, Start, Backfill, Rebuild, UnchangedStores
<1> QED
  BY <1>1, <1>2, JournalInvariant, PTL DEF Spec, ImplementsAtomicJournal, Atomic!AtomicSpec

-----------------------------------------------------------------------------
(* Every kind of request *)

\* What a request may write over a row, whatever it has read.
PayloadOk(p) ==
    /\ DOMAIN p \subseteq Fields
    /\ "size" \in DOMAIN p => p["size"] \in Sizes
    /\ "status" \in DOMAIN p => p["status"] \in Statuses
    /\ "basis" \in DOMAIN p => p["basis"] \in Sizes \cup {NoResult}
    /\ "rev" \in DOMAIN p => p["rev"] \in Nat

\* A request that does not say all of a trade is about one that there is.
Sendable(r) ==
    /\ IsRequest(r) /\ PayloadOk(r.payload)
    /\ rows[r.trade] \in Rows \/ {"size", "status", "basis"} \subseteq DOMAIN r.payload
    /\ r.kind = "import" \/ r.type = "LegacyTradeImported" => "import" \in Requests

StoresInv ==
    /\ RowInv
    /\ ledger \in Seq({ledger[i] : i \in DOMAIN ledger})
    /\ projection = [v \in Venues |-> [t \in Trades |-> projection[v][t]]]
    /\ DOMAIN req = Threads
    /\ \A th \in Threads : InFlight(req[th]) => Sendable(req[th])

\* The journal has no legacy snapshot and gets none: the application is never
\* stopped, or every trade has evidence of its own.
SnapshotFree == "stop" \notin Requests \/ (LegacyTrades = {} /\ "import" \notin Requests)

NoLegacyInv ==
    /\ \A i \in DOMAIN ledger : ledger[i].venue = "journal" /\ ledger[i].key[2] = ledger[i].trade
    /\ \A t \in Trades : projection["legacy"][t] = 0
    /\ \/ "stop" \notin Requests /\ running
       \/ /\ "import" \notin Requests
          /\ \A i \in DOMAIN ledger : ledger[i].type # "LegacyTradeImported"
          /\ \A t \in Trades : rows[t] # NoRow => \E i \in DOMAIN ledger : ledger[i].trade = t

\* The projection shows the row of a trade, while nothing rebuilds it.
ShownInv ==
    /\ running
    /\ \A t \in Trades :
          projection["journal"][t] # 0 =>
              /\ projection["journal"][t] \in DOMAIN ledger
              /\ ledger[projection["journal"][t]].snap = rows[t]

\* The replica has the row of a trade, or the request is going to copy it.
CopiedBy(r, t) ==
    IF r.stage \in {"syncing", "deleted"} /\ t \in DOMAIN r.pending
    THEN r.pending[t] = rows[t] ELSE olap[t] = rows[t]

ReplicaInv ==
    /\ DOMAIN olap = Trades
    /\ \A th \in Threads :
          /\ \A t \in Trades : rows[t] # NoRow /\ ~ Reviewed(t) => CopiedBy(req[th], t)
          /\ req[th].stage \in {"syncing", "deleted"} => DOMAIN req[th].pending \subseteq Trades
          /\ req[th].stage = "deleted" => req[th].trade \in DOMAIN req[th].pending /\ olap[req[th].trade] = NoRow

\* What the commit of a request leaves: the row it wrote, an event of that row,
\* and a projection that shows the event.
Recorded(th, t, row, i) ==
    /\ t = req[th].trade /\ row # NoRow /\ Sendable(req[th])
    /\ rows' = [rows EXCEPT ![t] = row]
    /\ projection' = [projection EXCEPT !["journal"][t] = i]
    /\ i # 0 /\ ledger'[i].snap = row /\ ledger'[i].key = KeyOf(req[th])
    /\ ledger' \in Seq({ledger'[j] : j \in DOMAIN ledger'})
    /\ \A j \in DOMAIN ledger : j \in DOMAIN ledger' /\ ledger'[j] = ledger[j]
    /\ \A j \in DOMAIN ledger' \ DOMAIN ledger :
          ledger'[j] = [venue |-> "journal", trade |-> t, type |-> req[th].type,
                        key |-> KeyOf(req[th]), snap |-> row]
    /\ req[th].kind = "correct" => i \notin DOMAIN ledger
    /\ Return(th, t, row) /\ UNCHANGED <<olap, running>>

LEMMA MergeOk ==
    ASSUME NEW row, row \in Rows \cup {NoRow}, NEW p, PayloadOk(p),
           row \in Rows \/ {"size", "status", "basis"} \subseteq DOMAIN p
    PROVE  Merge(row, p) \in Rows /\ Merge(row, p) # NoRow
<1>1. CASE row \in Rows
  <2>1. /\ row.size \in Sizes /\ row.status \in Statuses /\ row.basis \in Sizes \cup {NoResult}
        /\ row.rev \in Nat
    BY <1>1 DEF Rows
  <2>2. Merge(row, p) =
          [size   |-> IF "size" \in DOMAIN p THEN p["size"] ELSE row.size,
           status |-> IF "status" \in DOMAIN p THEN p["status"] ELSE row.status,
           basis  |-> IF "basis" \in DOMAIN p THEN p["basis"] ELSE row.basis,
           rev    |-> IF "rev" \in DOMAIN p THEN p["rev"] ELSE row.rev]
    BY <1>1, MergeIs DEF PayloadOk
  <2>3. Merge(row, p) \in Rows
    BY <2>1, <2>2 DEF PayloadOk, Rows
  <2> QED BY <2>3, JournalAssumption
<1>2. CASE row \notin Rows
  <2>1. row = NoRow /\ {"size", "status", "basis"} \subseteq DOMAIN p
    BY <1>2
  <2>2. DOMAIN [rev |-> 1] \cup DOMAIN p = Fields
    BY <2>1 DEF PayloadOk, Fields
  <2>3. Merge(row, p) = [f \in Fields |-> IF f \in DOMAIN p THEN p[f] ELSE [rev |-> 1][f]]
    BY <2>1, <2>2 DEF Merge
  <2>4. Merge(row, p) = [size |-> p["size"], status |-> p["status"], basis |-> p["basis"],
                         rev |-> IF "rev" \in DOMAIN p THEN p["rev"] ELSE 1]
    BY <2>1, <2>3 DEF Fields
  <2>5. Merge(row, p) \in Rows
    BY <2>1, <2>4 DEF PayloadOk, Rows
  <2> QED BY <2>5, JournalAssumption
<1> QED BY <1>1, <1>2

LEMMA PayloadsOk ==
    /\ \A size \in Sizes : \A p \in {Opened(size, 1), Ended(size, 1)} :
          /\ PayloadOk(p) /\ PayloadOk(Without(p, "rev"))
          /\ {"size", "status", "basis"} \subseteq DOMAIN p
          /\ {"size", "status", "basis"} \subseteq DOMAIN Without(p, "rev")
    /\ \A row \in Rows :
          /\ PayloadOk(ClosePayload(row)) /\ PayloadOk([status |-> "CANCELED", rev |-> row.rev + 1])
          /\ \A status \in Statuses, size \in Sizes : PayloadOk(EditPayload(row, status, size))
    /\ \A size \in Sizes : PayloadOk([size |-> size])
<1>1. ASSUME NEW size \in Sizes, NEW p \in {Opened(size, 1), Ended(size, 1)}
      PROVE  /\ PayloadOk(p) /\ PayloadOk(Without(p, "rev"))
             /\ {"size", "status", "basis"} \subseteq DOMAIN p
             /\ {"size", "status", "basis"} \subseteq DOMAIN Without(p, "rev")
  <2>1. PICK status \in {"OPEN", "CLOSED"} :
            p = [size |-> size, status |-> status, basis |-> IF status = "CLOSED" THEN size ELSE NoResult, rev |-> 1]
    BY DEF Opened, Ended
  <2>2. /\ DOMAIN p = Fields /\ p["size"] = size /\ p["status"] = status
        /\ p["basis"] \in {size, NoResult} /\ p["rev"] = 1
    BY <2>1 DEF Fields
  <2>3. DOMAIN Without(p, "rev") = Fields \ {"rev"} /\ \A f \in Fields \ {"rev"} : Without(p, "rev")[f] = p[f]
    BY <2>2 DEF Without
  <2>4. PayloadOk(p)
    BY <2>2 DEF PayloadOk, Fields, Statuses
  <2>5. PayloadOk(Without(p, "rev"))
    BY <2>2, <2>3 DEF PayloadOk, Fields, Statuses
  <2> QED BY <2>2, <2>3, <2>4, <2>5 DEF Fields
<1>2. ASSUME NEW row \in Rows
      PROVE  PayloadOk(ClosePayload(row)) /\ PayloadOk([status |-> "CANCELED", rev |-> row.rev + 1])
  <2>1. row.size \in Sizes /\ row.rev \in Nat
    BY DEF Rows
  <2> QED BY <2>1 DEF PayloadOk, ClosePayload, Fields, Statuses
<1>3. ASSUME NEW row \in Rows, NEW status \in Statuses, NEW size \in Sizes
      PROVE  PayloadOk(EditPayload(row, status, size))
  <2> DEFINE p == EditPayload(row, status, size)
  <2>1. row.size \in Sizes /\ row.rev \in Nat
    BY DEF Rows
  <2>2. DOMAIN p \subseteq Fields /\ "rev" \in DOMAIN p /\ p["rev"] = row.rev + 1
    BY DEF EditPayload, Fields
  <2>3. "size" \in DOMAIN p => p["size"] = size
    BY DEF EditPayload
  <2>4. "status" \in DOMAIN p => p["status"] = status
    BY DEF EditPayload
  <2>5. "basis" \in DOMAIN p => p["basis"] = IF status = "CLOSED" THEN row.size ELSE NoResult
    BY DEF EditPayload
  <2> HIDE DEF p
  <2>6. PayloadOk(p)
    BY <2>1, <2>2, <2>3, <2>4, <2>5 DEF PayloadOk
  <2> QED BY <2>6 DEF p
<1>4. ASSUME NEW size \in Sizes PROVE PayloadOk([size |-> size])
  BY DEF PayloadOk, Fields
<1> QED BY <1>1, <1>2, <1>3, <1>4

\* What a handler sends; the stores stay as they are.
LEMMA WideSend ==
    ASSUME StoresInv, NEW th \in Threads,
           \/ Create(th) \/ Close(th) \/ Cancel(th) \/ Edit(th) \/ Correct(th) \/ Confirm(th) \/ Import(th)
    PROVE  /\ UnchangedStores /\ req[th] = Idle
           /\ \E r : req' = [req EXCEPT ![th] = r] /\ InFlight(r) /\ Sendable(r)
<1>1. UnchangedStores /\ req[th] = Idle
  BY DEF Create, Close, Cancel, Edit, Correct, Confirm, Import, Accept
<1>2. \A t \in Trades : rows[t] # NoRow => rows[t] \in Rows
  BY DEF StoresInv, RowInv
<1>12. ASSUME NEW kind, NEW t \in Trades, NEW read, NEW p, NEW exp, PayloadOk(p),
              rows[t] \in Rows \/ {"size", "status", "basis"} \subseteq DOMAIN p,
              kind = "import" => "import" \in Requests
       PROVE  InFlight(Received(kind, t, read, p, exp)) /\ Sendable(Received(kind, t, read, p, exp))
  <2>1. PICK r : r = Received(kind, t, read, p, exp)
    OBVIOUS
  <2>2. /\ {"stage", "kind", "trade", "read", "payload", "expected", "type"} = DOMAIN r
        /\ r.stage = "received" /\ r.kind = kind /\ r.trade = t /\ r.payload = p /\ r.type = ""
    BY <2>1 DEF Received
  <2>3. Sendable(r) /\ InFlight(r)
    BY <1>12, <2>2 DEF Sendable, InFlight, IsRequest
  <2> QED BY <2>1, <2>3
<1>3. ASSUME NEW kind, NEW t \in Trades, NEW read, NEW p, NEW exp, NEW type, PayloadOk(p),
             rows[t] \in Rows \/ {"size", "status", "basis"} \subseteq DOMAIN p,
             kind = "import" => "import" \in Requests, type # "LegacyTradeImported"
      PROVE  /\ InFlight(Classified(Received(kind, t, read, p, exp), type))
             /\ Sendable(Classified(Received(kind, t, read, p, exp), type))
  <2>1. PICK r, s : r = Received(kind, t, read, p, exp) /\ s = Classified(r, type)
    OBVIOUS
  <2>2. /\ {"stage", "kind", "trade", "read", "payload", "expected", "type"} = DOMAIN r
        /\ r.stage = "received" /\ r.kind = kind /\ r.trade = t /\ r.payload = p
    BY <2>1 DEF Received
  <2>3. /\ {"stage", "kind", "trade", "read", "payload", "expected", "type"} = DOMAIN s
        /\ s.stage = "classified" /\ s.kind = kind /\ s.trade = t /\ s.payload = p /\ s.type = type
    BY <2>1, <2>2 DEF Classified
  <2>4. Sendable(s) /\ InFlight(s)
    BY <1>3, <2>3 DEF Sendable, InFlight, IsRequest
  <2> QED BY <2>1, <2>4
<1>4. CASE Create(th)
  <2>0. PICK t \in Trades, size \in Sizes :
            \E payload \in {Opened(size, 1), Ended(size, 1)} :
                Do(th, Classified(Received("create", t, NoRow, payload, AnyRevision), "IntentRecorded"))
    BY <1>4 DEF Create
  <2>1. PICK payload \in {Opened(size, 1), Ended(size, 1)} :
            Do(th, Classified(Received("create", t, NoRow, payload, AnyRevision), "IntentRecorded"))
    BY <2>0
  <2>2. PayloadOk(payload) /\ {"size", "status", "basis"} \subseteq DOMAIN payload
    BY PayloadsOk
  <2>3. /\ InFlight(Classified(Received("create", t, NoRow, payload, AnyRevision), "IntentRecorded"))
        /\ Sendable(Classified(Received("create", t, NoRow, payload, AnyRevision), "IntentRecorded"))
    BY <1>3, <2>2
  <2> QED BY <1>1, <2>1, <2>3 DEF Do
<1>5. CASE Close(th)
  <2>1. PICK t \in Trades : rows[t] # NoRow /\ Do(th, Received("close", t, rows[t], ClosePayload(rows[t]), rows[t].rev))
    BY <1>5 DEF Close
  <2>2. rows[t] \in Rows /\ PayloadOk(ClosePayload(rows[t]))
    BY <1>2, <2>1, PayloadsOk
  <2>3. /\ InFlight(Received("close", t, rows[t], ClosePayload(rows[t]), rows[t].rev))
        /\ Sendable(Received("close", t, rows[t], ClosePayload(rows[t]), rows[t].rev))
    BY <1>12, <2>2
  <2> QED BY <1>1, <2>1, <2>3 DEF Do
<1>6. CASE Cancel(th)
  <2>1. PICK t \in Trades :
            /\ rows[t] # NoRow
            /\ Do(th, Received("cancel", t, rows[t], [status |-> "CANCELED", rev |-> rows[t].rev + 1], rows[t].rev))
    BY <1>6 DEF Cancel
  <2>2. PICK p : p = [status |-> "CANCELED", rev |-> rows[t].rev + 1]
    OBVIOUS
  <2>3. rows[t] \in Rows /\ PayloadOk(p)
    BY <1>2, <2>1, <2>2, PayloadsOk
  <2>4. /\ InFlight(Received("cancel", t, rows[t], p, rows[t].rev))
        /\ Sendable(Received("cancel", t, rows[t], p, rows[t].rev))
    BY <1>12, <2>3
  <2> QED BY <1>1, <2>1, <2>2, <2>4 DEF Do
<1>7. CASE Edit(th)
  <2>1. PICK t \in Trades, status \in Statuses, size \in Sizes :
            /\ rows[t] # NoRow
            /\ Do(th, Received("edit", t, rows[t], EditPayload(rows[t], status, size), rows[t].rev))
    BY <1>7 DEF Edit
  <2>2. PICK p : p = EditPayload(rows[t], status, size)
    OBVIOUS
  <2>3. rows[t] \in Rows /\ PayloadOk(p)
    BY <1>2, <2>1, <2>2, PayloadsOk
  <2>4. /\ InFlight(Received("edit", t, rows[t], p, rows[t].rev))
        /\ Sendable(Received("edit", t, rows[t], p, rows[t].rev))
    BY <1>12, <2>3
  <2> QED BY <1>1, <2>1, <2>2, <2>4 DEF Do
<1>8. CASE Correct(th)
  <2>1. PICK t \in Trades, size \in Sizes :
            /\ rows[t] # NoRow
            /\ Do(th, Classified(Received("correct", t, rows[t], [size |-> size], AnyRevision), "TradeCorrected"))
    BY <1>8 DEF Correct
  <2>2. rows[t] \in Rows /\ PayloadOk([size |-> size])
    BY <1>2, <2>1, PayloadsOk
  <2>3. /\ InFlight(Classified(Received("correct", t, rows[t], [size |-> size], AnyRevision), "TradeCorrected"))
        /\ Sendable(Classified(Received("correct", t, rows[t], [size |-> size], AnyRevision), "TradeCorrected"))
    BY <1>3, <2>2
  <2> QED BY <1>1, <2>1, <2>3 DEF Do
<1>9. CASE Confirm(th)
  <2>1. PICK t \in Trades, size \in Sizes :
            Do(th, Received("confirm", t, NoRow, Without(Opened(size, 1), "rev"), AnyRevision))
    BY <1>9 DEF Confirm
  <2>2. /\ PayloadOk(Without(Opened(size, 1), "rev"))
        /\ {"size", "status", "basis"} \subseteq DOMAIN Without(Opened(size, 1), "rev")
    BY PayloadsOk
  <2>3. /\ InFlight(Received("confirm", t, NoRow, Without(Opened(size, 1), "rev"), AnyRevision))
        /\ Sendable(Received("confirm", t, NoRow, Without(Opened(size, 1), "rev"), AnyRevision))
    BY <1>12, <2>2
  <2> QED BY <1>1, <2>1, <2>3 DEF Do
<1>11. CASE Import(th)
  <2>0. PICK t \in Trades, size \in Sizes :
            \E payload \in {Opened(size, 1), Ended(size, 1)} :
                Do(th, Received("import", t, rows[t], Without(payload, "rev"), AnyRevision))
    BY <1>11 DEF Import
  <2>1. PICK payload \in {Opened(size, 1), Ended(size, 1)} :
            Do(th, Received("import", t, rows[t], Without(payload, "rev"), AnyRevision))
    BY <2>0
  <2>2. PayloadOk(Without(payload, "rev")) /\ {"size", "status", "basis"} \subseteq DOMAIN Without(payload, "rev")
    BY PayloadsOk
  <2>3. "import" \in Requests
    BY <1>11 DEF Import, Accept
  <2>4. /\ InFlight(Received("import", t, rows[t], Without(payload, "rev"), AnyRevision))
        /\ Sendable(Received("import", t, rows[t], Without(payload, "rev"), AnyRevision))
    BY <1>12, <2>2, <2>3
  <2> QED BY <1>1, <2>1, <2>4 DEF Do
<1> QED BY <1>4, <1>5, <1>6, <1>7, <1>8, <1>9, <1>11

\* Whatever a request was when it was sent, its commit writes a row and lets the
\* projection show an event of that row.
LEMMA WideRecord ==
    ASSUME StoresInv, NEW th \in Threads, Record(th)
    PROVE  \E t \in Trades, row \in Rows, i \in DOMAIN ledger' : Recorded(th, t, row, i)
<1>1. PICK r, t, row, event :
        /\ r = req[th] /\ t = r.trade /\ row = Merge(rows[t], r.payload)
        /\ event = [venue |-> "journal", trade |-> t, type |-> r.type, key |-> KeyOf(r), snap |-> row]
  OBVIOUS
<1>2. /\ \/ /\ ledger' = Append(ledger, event)
            /\ Project(t, Len(ledger) + 1)
         \/ \E i \in WithKey(KeyOf(r)) :
               /\ SameEvent(ledger[i], r, row)
               /\ UNCHANGED ledger
               /\ Project(t, i)
      /\ rows' = [rows EXCEPT ![t] = row]
      /\ Return(th, t, row) /\ UNCHANGED <<olap, running>>
  BY <1>1 DEF Record
<1>3. Sendable(r) /\ t \in Trades
  BY <1>1 DEF Record, Ready, StoresInv, InFlight, Sendable, IsRequest
<1>4. row \in Rows /\ row # NoRow
  <2>1. rows[t] \in Rows \cup {NoRow}
    BY <1>3 DEF StoresInv, RowInv
  <2> QED BY <1>1, <1>3, <2>1, MergeOk DEF Sendable
<1>5. ledger \in Seq({ledger[j] : j \in DOMAIN ledger}) /\ Len(ledger) \in Nat /\ DOMAIN ledger = 1 .. Len(ledger)
  BY DEF StoresInv
<1>6. CASE ledger' = Append(ledger, event) /\ Project(t, Len(ledger) + 1)
  <2>1. /\ DOMAIN ledger' = 1 .. Len(ledger) + 1
        /\ \A j \in DOMAIN ledger : ledger'[j] = ledger[j]
        /\ ledger'[Len(ledger) + 1] = event
        /\ ledger' \in Seq({ledger'[j] : j \in DOMAIN ledger'})
    BY <1>5, <1>6, AppendFacts
  <2>2. \A j \in DOMAIN ledger' \ DOMAIN ledger : j = Len(ledger) + 1
    BY <1>5, <2>1
  <2>3. Len(ledger) + 1 \in DOMAIN ledger' /\ Len(ledger) + 1 \notin DOMAIN ledger /\ Len(ledger) + 1 # 0
    BY <1>5, <2>1
  <2>4. event.snap = row /\ event.key = KeyOf(r)
    BY <1>1
  <2>5. \A j \in DOMAIN ledger : j \in DOMAIN ledger'
    BY <1>5, <2>1
  <2>6. \A j \in DOMAIN ledger' \ DOMAIN ledger :
          ledger'[j] = [venue |-> "journal", trade |-> t, type |-> r.type, key |-> KeyOf(r), snap |-> row]
    BY <1>1, <2>1, <2>2
  <2>7. PICK n : n = Len(ledger) + 1
    OBVIOUS
  <2>8. projection' = [projection EXCEPT !["journal"][t] = n]
    BY <1>6, <2>7 DEF Project
  <2>9. n \in DOMAIN ledger' /\ n # 0 /\ ledger'[n].snap = row /\ ledger'[n].key = KeyOf(r) /\ n \notin DOMAIN ledger
    BY <2>1, <2>3, <2>4, <2>7
  <2>10. \A j \in DOMAIN ledger : j \in DOMAIN ledger' /\ ledger'[j] = ledger[j]
    BY <2>1, <2>5
  <2>11. ledger' \in Seq({ledger'[j] : j \in DOMAIN ledger'})
    BY <2>1
  <2>12. Recorded(th, t, row, n)
    BY <1>1, <1>2, <1>3, <1>4, <2>6, <2>8, <2>9, <2>10, <2>11 DEF Recorded
  <2> QED BY <1>3, <1>4, <2>9, <2>12
<1>7. ASSUME NEW i \in WithKey(KeyOf(r)), SameEvent(ledger[i], r, row), UNCHANGED ledger, Project(t, i)
      PROVE  /\ i \in DOMAIN ledger' /\ i # 0 /\ ledger'[i].snap = row /\ ledger'[i].key = KeyOf(r)
             /\ r.kind # "correct" /\ projection' = [projection EXCEPT !["journal"][t] = i]
  BY <1>5, <1>7 DEF WithKey, SameEvent, Project
<1>8. CASE \E i \in WithKey(KeyOf(r)) : SameEvent(ledger[i], r, row) /\ UNCHANGED ledger /\ Project(t, i)
  <2>1. PICK i \in WithKey(KeyOf(r)) : SameEvent(ledger[i], r, row) /\ UNCHANGED ledger /\ Project(t, i)
    BY <1>8
  <2>2. ledger' \in Seq({ledger'[j] : j \in DOMAIN ledger'})
    BY <1>5, <2>1
  <2>3. DOMAIN ledger' \ DOMAIN ledger = {} /\ \A j \in DOMAIN ledger : j \in DOMAIN ledger' /\ ledger'[j] = ledger[j]
    BY <2>1
  <2>4. /\ i \in DOMAIN ledger' /\ i # 0 /\ ledger'[i].snap = row /\ ledger'[i].key = KeyOf(r)
        /\ r.kind # "correct" /\ projection' = [projection EXCEPT !["journal"][t] = i]
    BY <1>7, <2>1
  <2>5. Recorded(th, t, row, i)
    BY <1>1, <1>2, <1>3, <1>4, <2>2, <2>3, <2>4 DEF Recorded
  <2> QED BY <1>3, <1>4, <2>4, <2>5
<1> QED BY <1>2, <1>6, <1>8

LEMMA ProjectionSet ==
    ASSUME StoresInv, NEW t \in Trades, NEW i, projection' = [projection EXCEPT !["journal"][t] = i]
    PROVE  /\ projection' = [v \in Venues |-> [u \in Trades |-> projection'[v][u]]]
           /\ projection'["journal"][t] = i
           /\ \A u \in Trades \ {t} : projection'["journal"][u] = projection["journal"][u]
           /\ \A u \in Trades : projection'["legacy"][u] = projection["legacy"][u]
<1>1. projection = [v \in Venues |-> [u \in Trades |-> projection[v][u]]]
  BY DEF StoresInv
<1>2. DOMAIN projection = Venues /\ "journal" \in Venues /\ "legacy" \in Venues
  BY <1>1 DEF Venues
<1>3. \A v \in Venues : projection[v] = [u \in Trades |-> projection[v][u]] /\ DOMAIN projection[v] = Trades
  BY <1>1
<1>4. DOMAIN projection' = Venues /\ \A v \in Venues : DOMAIN projection'[v] = Trades
  BY <1>2, <1>3
<1>5. /\ projection'["journal"][t] = i
      /\ \A u \in Trades \ {t} : projection'["journal"][u] = projection["journal"][u]
      /\ \A u \in Trades : projection'["legacy"][u] = projection["legacy"][u]
  BY <1>2, <1>3
<1>6. \A v \in Venues : projection'[v] = [u \in Trades |-> projection'[v][u]]
  <2>1. ASSUME NEW v \in Venues PROVE projection'[v] = [u \in Trades |-> projection'[v][u]]
    <3>1. CASE v = "journal"
      <4>1. projection'["journal"] = [projection["journal"] EXCEPT ![t] = i]
        BY <1>2
      <4>2. projection["journal"] = [u \in Trades |-> projection["journal"][u]]
        BY <1>2, <1>3
      <4> QED BY <3>1, <4>1, <4>2
    <3>2. CASE v # "journal"
      <4>1. projection'[v] = projection[v]
        BY <1>2, <3>2
      <4> QED BY <1>3, <4>1
    <3> QED BY <3>1, <3>2
  <2> QED BY <2>1
<1>7. projection' = [v \in Venues |-> projection'[v]]
  BY <1>2
<1> QED BY <1>5, <1>6, <1>7

\* A request stays sendable: no row is ever taken away.
LEMMA SendableKept ==
    ASSUME NEW r, Sendable(r), \A t \in Trades : rows[t] \in Rows => rows'[t] \in Rows
    PROVE  Sendable(r)'
BY DEF Sendable, IsRequest, PayloadOk

LEMMA InFlightKept ==
    ASSUME \A o \in Threads : \A q : q = req'[o] /\ InFlight(q) => Sendable(q)'
    PROVE  (\A o \in Threads : InFlight(req[o]) => Sendable(req[o]))'
BY DEF InFlight, Sendable, IsRequest, PayloadOk

LEMMA WideQuiet ==
    ASSUME StoresInv, UNCHANGED <<rows, ledger, projection>>, NEW th \in Threads, NEW r,
           req' = [req EXCEPT ![th] = r], InFlight(r) => Sendable(r)
    PROVE  StoresInv'
<1>1. rows' = rows /\ ledger' = ledger /\ projection' = projection
  OBVIOUS
<1>2. RowInv' /\ DOMAIN req' = Threads
  BY <1>1 DEF StoresInv, RowInv
<1>3. \A x : Sendable(x) => Sendable(x)'
  BY <1>1, SendableKept
<1>4. ASSUME NEW o \in Threads, NEW q, q = req'[o], InFlight(q) PROVE Sendable(q)'
  <2>1. Sendable(q)
    <3>1. CASE o = th
      BY <1>4, <3>1 DEF StoresInv
    <3>2. CASE o # th
      BY <1>4, <3>2 DEF StoresInv
    <3> QED BY <3>1, <3>2
  <2> QED BY <1>3, <2>1
<1>5. /\ ledger' \in Seq({ledger'[i] : i \in DOMAIN ledger'})
      /\ projection' = [v \in Venues |-> [t \in Trades |-> projection'[v][t]]]
  BY <1>1, Zenon DEF StoresInv
<1>6. (\A o \in Threads : InFlight(req[o]) => Sendable(req[o]))'
  BY <1>4, InFlightKept
<1> QED BY <1>2, <1>5, <1>6 DEF StoresInv

\* What a request does beside its commit.
LEMMA WideAside ==
    ASSUME StoresInv, NEW th \in Threads, Classify(th) \/ Refuse(th) \/ FullSync(th) \/ OlapDelete(th) \/ OlapInsert(th)
    PROVE  /\ UNCHANGED <<rows, ledger, projection, running>>
           /\ \E r : req' = [req EXCEPT ![th] = r] /\ (InFlight(r) => Sendable(r))
<1>1. UNCHANGED <<rows, ledger, projection, running>>
  BY DEF Classify, FullSync, Refuse, OlapDelete, OlapInsert, UnchangedStores
<1>2. ~ InFlight(Idle) /\ (\A p : ~ InFlight(Syncing(p))) /\ (\A q, t : ~ InFlight(Deleted(q, t)))
  BY DEF Idle, Syncing, Deleted, InFlight
<1>3. CASE Classify(th)
  <2>1. PICK q : q = req[th]
    OBVIOUS
  <2>2. PICK type, r : r = Classified(q, type) /\ type = EventType(rows[q.trade], q)
    OBVIOUS
  <2>3. Sendable(q) /\ q.stage = "received"
    BY <1>3, <2>1 DEF Classify, StoresInv, InFlight
  <2>4. /\ r.kind = q.kind /\ r.trade = q.trade /\ r.payload = q.payload /\ r.type = type
        /\ {"stage", "kind", "trade", "read", "payload", "expected", "type"} \subseteq DOMAIN r
    BY <2>2, <2>3 DEF Classified, Sendable, IsRequest
  <2>5. type = "LegacyTradeImported" => q.kind = "import"
    BY <2>2 DEF EventType
  <2>6. Sendable(r)
    BY <2>3, <2>4, <2>5 DEF Sendable, IsRequest
  <2>7. req' = [req EXCEPT ![th] = r]
    BY <1>3, <2>1, <2>2 DEF Classify, Do
  <2> QED BY <1>1, <2>6, <2>7
<1>4. CASE ~ Classify(th)
  <2>1. \/ req' = [req EXCEPT ![th] = Idle]
        \/ \E p : req' = [req EXCEPT ![th] = Syncing(p)]
        \/ \E q, t : req' = [req EXCEPT ![th] = Deleted(q, t)]
    BY <1>4 DEF FullSync, Refuse, OlapDelete, OlapInsert, Do
  <2> QED BY <1>1, <1>2, <2>1
<1> QED BY <1>3, <1>4

LEMMA WideRecordKept == ASSUME StoresInv, NEW th \in Threads, Record(th) PROVE StoresInv'
<1>1. PICK t \in Trades, row \in Rows, i \in DOMAIN ledger' : Recorded(th, t, row, i)
  BY WideRecord
<1>2. /\ row # NoRow /\ rows' = [rows EXCEPT ![t] = row]
      /\ projection' = [projection EXCEPT !["journal"][t] = i]
      /\ ledger' \in Seq({ledger'[j] : j \in DOMAIN ledger'}) /\ Return(th, t, row)
  BY <1>1 DEF Recorded
<1>3. projection' = [v \in Venues |-> [u \in Trades |-> projection'[v][u]]]
  BY <1>2, ProjectionSet
<1>4. rows \in [Trades -> Rows \cup {NoRow}] /\ rows' \in [Trades -> Rows \cup {NoRow}]
  BY <1>1, <1>2 DEF StoresInv, RowInv
<1>5. \A u \in Trades : rows[u] \in Rows => rows'[u] \in Rows
  BY <1>1, <1>2, <1>4
<1>6. PICK r : req' = [req EXCEPT ![th] = r] /\ ~ InFlight(r)
  <2>1. ~ InFlight(Idle) /\ (\A p : ~ InFlight(Syncing(p)))
    BY DEF Idle, Syncing, InFlight
  <2>2. req' = [req EXCEPT ![th] = Idle] \/ \E p : req' = [req EXCEPT ![th] = Syncing(p)]
    BY <1>2 DEF Return, Do
  <2> QED BY <2>1, <2>2
<1>7. \A x : Sendable(x) => Sendable(x)'
  BY <1>5, SendableKept
<1>8. DOMAIN req' = Threads /\ \A o \in Threads : InFlight(req'[o]) => o # th /\ req'[o] = req[o]
  BY <1>6 DEF StoresInv
<1>9. (\A o \in Threads : InFlight(req[o]) => Sendable(req[o]))'
  <2>1. ASSUME NEW o \in Threads, NEW q, q = req'[o], InFlight(q) PROVE Sendable(q)'
    <3>1. Sendable(q)
      BY <1>8, <2>1 DEF StoresInv
    <3> QED BY <1>7, <3>1
  <2> QED BY <2>1, InFlightKept
<1>10. RowInv'
  BY <1>4 DEF RowInv
<1>11. ledger' \in Seq({ledger'[j] : j \in DOMAIN ledger'})
  BY <1>2
<1> QED BY <1>3, <1>8, <1>9, <1>10, <1>11 DEF StoresInv

LEMMA WideRest ==
    ASSUME StoresInv, Stop \/ Start \/ Rebuild \/ \E t \in Trades : Backfill(t)
    PROVE  StoresInv'
<1>1. rows' = rows
  BY DEF Stop, Start, Rebuild, Backfill
<1>2. RowInv'
  BY <1>1 DEF StoresInv, RowInv
<1>3. req' = req \/ req' = [th \in Threads |-> Idle]
  BY DEF Stop, Start, Rebuild, Backfill
<1>4. DOMAIN req' = Threads /\ (\A o \in Threads : InFlight(req[o]) => Sendable(req[o]))'
  <2>1. CASE req' = req
    BY <1>1, <2>1 DEF StoresInv, InFlight, Sendable, IsRequest
  <2>2. CASE req' = [th \in Threads |-> Idle]
    BY <2>2 DEF InFlight, Idle
  <2> QED BY <1>3, <2>1, <2>2
<1>5. ledger' \in Seq({ledger'[i] : i \in DOMAIN ledger'})
  <2>1. ledger' = ledger \/ \E e : ledger' = Append(ledger, e)
    BY DEF Stop, Start, Rebuild, Backfill
  <2>2. CASE ledger' = ledger
    BY <2>2, Zenon DEF StoresInv
  <2>3. ASSUME NEW e, ledger' = Append(ledger, e) PROVE ledger' \in Seq({ledger'[i] : i \in DOMAIN ledger'})
    <3>1. PICK l, m : l = ledger /\ m = ledger' /\ m = Append(l, e)
      BY <2>3
    <3>2. l \in Seq({l[i] : i \in DOMAIN l})
      BY <3>1, Zenon DEF StoresInv
    <3>3. m \in Seq({m[i] : i \in DOMAIN m})
      BY <3>1, <3>2, AppendFacts
    <3> QED BY <3>1, <3>3, Zenon
  <2> QED BY <2>1, <2>2, <2>3
<1>6. projection' = [v \in Venues |-> [t \in Trades |-> projection'[v][t]]]
  <2>1. CASE projection' = projection
    BY <2>1, Zenon DEF StoresInv
  <2>2. CASE Rebuild
    BY <2>2 DEF Rebuild
  <2> QED BY <2>1, <2>2 DEF Stop, Start, Backfill
<1> QED BY <1>2, <1>4, <1>5, <1>6 DEF StoresInv

LEMMA StoresStay == StoresInv /\ [Next]_vars => StoresInv'
<1>1. SUFFICES ASSUME StoresInv, [Next]_vars PROVE StoresInv'
  OBVIOUS
<1>2. CASE UNCHANGED vars
  <2>1. rows' = rows /\ ledger' = ledger /\ projection' = projection /\ req' = req
    BY <1>2 DEF vars
  <2>2. RowInv'
    BY <1>1, <2>1 DEF StoresInv, RowInv
  <2>3. (\A o \in Threads : InFlight(req[o]) => Sendable(req[o]))' /\ DOMAIN req' = Threads
    BY <1>1, <2>1 DEF StoresInv, InFlight, Sendable, IsRequest
  <2>4. /\ ledger' \in Seq({ledger'[i] : i \in DOMAIN ledger'})
        /\ projection' = [v \in Venues |-> [t \in Trades |-> projection'[v][t]]]
    BY <1>1, <2>1, Zenon DEF StoresInv
  <2> QED BY <2>2, <2>3, <2>4 DEF StoresInv
<1>3. ASSUME NEW th \in Threads,
             \/ Create(th) \/ Close(th) \/ Cancel(th) \/ Edit(th) \/ Correct(th) \/ Confirm(th) \/ Import(th)
      PROVE  StoresInv'
  <2>1. /\ UNCHANGED <<rows, ledger, projection>>
        /\ \E r : req' = [req EXCEPT ![th] = r] /\ InFlight(r) /\ Sendable(r)
    BY <1>1, <1>3, WideSend DEF UnchangedStores
  <2> QED BY <1>1, <2>1, WideQuiet
<1>4. ASSUME NEW th \in Threads, Classify(th) \/ Refuse(th) \/ FullSync(th) \/ OlapDelete(th) \/ OlapInsert(th)
      PROVE  StoresInv'
  BY <1>1, <1>4, WideAside, WideQuiet
<1> QED BY <1>1, <1>2, <1>3, <1>4, WideRecordKept, WideRest DEF Next

LEMMA StoresStart == Init => StoresInv
<1>1. SUFFICES ASSUME Init PROVE StoresInv
  OBVIOUS
<1>2. RowInv
  <2>1. \A size \in Sizes : Opened(size, 1) \in Rows
    BY DEF Opened, Rows, Statuses
  <2> QED BY <1>1, <2>1 DEF Init, RowInv
<1>3. DOMAIN req = Threads /\ \A th \in Threads : ~ InFlight(req[th])
  BY <1>1 DEF Init, Idle, InFlight
<1>4. ledger \in Seq({ledger[i] : i \in DOMAIN ledger})
  BY <1>1 DEF Init
<1>5. projection = [v \in Venues |-> [t \in Trades |-> projection[v][t]]]
  <2>1. projection = [v \in Venues |-> [t \in Trades |-> 0]]
    BY <1>1 DEF Init
  <2> QED BY <2>1
<1> QED BY <1>2, <1>3, <1>4, <1>5 DEF StoresInv

-----------------------------------------------------------------------------
(* Coverage *)

LEMMA CoveredOnce ==
    ASSUME NEW p, NEW t, p["legacy"][t] = 0
    PROVE  Cardinality({v \in Venues : p[v][t] # 0}) = IF p["journal"][t] # 0 THEN 1 ELSE 0
<1>1. CASE p["journal"][t] # 0
  <2>1. {v \in Venues : p[v][t] # 0} = {"journal"}
    BY <1>1 DEF Venues
  <2> QED BY <1>1, <2>1, FS_Singleton
<1>2. CASE p["journal"][t] = 0
  <2>1. {v \in Venues : p[v][t] # 0} = {}
    BY <1>2 DEF Venues
  <2> QED BY <1>2, <2>1, FS_EmptySet
<1> QED BY <1>1, <1>2

LEMMA LegacyStays ==
    ASSUME StoresInv, NoLegacyInv, SnapshotFree, [Next]_vars
    PROVE  NoLegacyInv'
<1>1. CASE UNCHANGED <<rows, ledger, projection, running>>
  <2>1. rows' = rows /\ ledger' = ledger /\ projection' = projection /\ running' = running
    BY <1>1
  <2> QED BY <2>1 DEF NoLegacyInv
<1>2. ASSUME NEW th \in Threads, Record(th) PROVE NoLegacyInv'
  <2>1. PICK t \in Trades, row \in Rows, i \in DOMAIN ledger' : Recorded(th, t, row, i)
    BY <1>2, WideRecord
  <2>2. /\ t = req[th].trade /\ Sendable(req[th]) /\ rows' = [rows EXCEPT ![t] = row]
        /\ projection' = [projection EXCEPT !["journal"][t] = i] /\ ledger'[i].key = KeyOf(req[th])
        /\ \A j \in DOMAIN ledger : j \in DOMAIN ledger' /\ ledger'[j] = ledger[j]
        /\ running' = running
    BY <2>1 DEF Recorded
  <2>7. \A j \in DOMAIN ledger' \ DOMAIN ledger :
           ledger'[j] = [venue |-> "journal", trade |-> t, type |-> req[th].type, key |-> KeyOf(req[th]), snap |-> row]
    BY <2>1 DEF Recorded
  <2>3. KeyOf(req[th])[2] = t
    BY <2>2 DEF KeyOf
  <2>4. \A j \in DOMAIN ledger' : ledger'[j].venue = "journal" /\ ledger'[j].key[2] = ledger'[j].trade
    BY <2>2, <2>3, <2>7 DEF NoLegacyInv
  <2>5. \A u \in Trades : projection'["legacy"][u] = 0
    BY <2>1, <2>2, ProjectionSet DEF NoLegacyInv
  <2>6. ASSUME "import" \notin Requests, \A j \in DOMAIN ledger : ledger[j].type # "LegacyTradeImported",
               \A u \in Trades : rows[u] # NoRow => \E j \in DOMAIN ledger : ledger[j].trade = u
        PROVE  /\ \A j \in DOMAIN ledger' : ledger'[j].type # "LegacyTradeImported"
               /\ \A u \in Trades : rows'[u] # NoRow => \E j \in DOMAIN ledger' : ledger'[j].trade = u
    <3>1. req[th].type # "LegacyTradeImported"
      BY <2>2, <2>6 DEF Sendable
    <3>2. \A j \in DOMAIN ledger' : ledger'[j].type # "LegacyTradeImported"
      BY <2>2, <2>6, <2>7, <3>1
    <3>3. ledger'[i].trade = t
      BY <2>1, <2>2, <2>3, <2>4
    <3>4. \A u \in Trades : rows'[u] # NoRow => \E j \in DOMAIN ledger' : ledger'[j].trade = u
      BY <2>1, <2>2, <2>6, <3>3 DEF StoresInv, RowInv
    <3> QED BY <3>2, <3>4
  <2> QED BY <2>2, <2>4, <2>5, <2>6 DEF NoLegacyInv
<1>3. CASE Stop
  <2>1. rows' = rows /\ ledger' = ledger /\ projection' = projection /\ "stop" \in Requests
    BY <1>3 DEF Stop
  <2> QED BY <2>1 DEF NoLegacyInv
<1>4. CASE Start
  <2>1. rows' = rows /\ ledger' = ledger /\ projection' = projection /\ running'
    BY <1>4 DEF Start
  <2> QED BY <2>1 DEF NoLegacyInv
<1>5. ASSUME NEW t \in Trades, Backfill(t) PROVE FALSE
  <2>1. ~ running /\ rows[t] # NoRow /\ ~ Evidenced(t)
    BY <1>5 DEF Backfill
  <2> QED BY <2>1 DEF NoLegacyInv, Evidenced
<1>6. CASE Rebuild
  <2>1. /\ rows' = rows /\ ledger' = ledger /\ running' = running
        /\ projection' = [v \in Venues |-> [t \in Trades |-> Winner(v, t)]]
    BY <1>6 DEF Rebuild
  <2>2. \A t \in Trades : Winner("legacy", t) = 0
    BY DEF Winner, EventsOf, NoLegacyInv
  <2>3. \A t \in Trades : projection'["legacy"][t] = 0
    BY <2>1, <2>2 DEF Venues
  <2> QED BY <2>1, <2>3 DEF NoLegacyInv
<1>7. ASSUME NEW th \in Threads,
             \/ Create(th) \/ Close(th) \/ Cancel(th) \/ Edit(th) \/ Correct(th) \/ Confirm(th) \/ Import(th)
             \/ Classify(th) \/ Refuse(th) \/ FullSync(th) \/ OlapDelete(th) \/ OlapInsert(th)
      PROVE  UNCHANGED <<rows, ledger, projection, running>>
  BY <1>7 DEF Create, Close, Cancel, Edit, Correct, Confirm, Import, Classify, Refuse, FullSync, OlapDelete,
     OlapInsert, UnchangedStores
<1>8. CASE UNCHANGED vars
  BY <1>1, <1>8 DEF vars
<1> QED BY <1>1, <1>2, <1>3, <1>4, <1>5, <1>6, <1>7, <1>8 DEF Next

LEMMA LegacyStart == SnapshotFree /\ Init => NoLegacyInv
<1>1. SUFFICES ASSUME SnapshotFree, Init PROVE NoLegacyInv
  OBVIOUS
<1>2. ledger = <<>> /\ DOMAIN ledger = {} /\ running
  BY <1>1 DEF Init
<1>3. \A t \in Trades : projection["legacy"][t] = 0
  BY <1>1 DEF Init, Venues
<1>4. LegacyTrades = {} => \A t \in Trades : rows[t] = NoRow
  BY <1>1 DEF Init
<1> QED BY <1>1, <1>2, <1>3, <1>4 DEF NoLegacyInv, SnapshotFree

LEMMA ReadyIs ==
    ASSUME NEW p, NEW r, NEW t, p["legacy"][t] = 0
    PROVE  Cardinality({v \in Venues : p[v][t] # 0}) = (IF r[t] = NoRow THEN 0 ELSE 1)
           <=> ((p["journal"][t] # 0) <=> (r[t] # NoRow))
<1>1. PICK n : n = Cardinality({v \in Venues : p[v][t] # 0})
  OBVIOUS
<1>2. n = IF p["journal"][t] # 0 THEN 1 ELSE 0
  BY <1>1, CoveredOnce
<1>3. n = (IF r[t] = NoRow THEN 0 ELSE 1) <=> ((p["journal"][t] # 0) <=> (r[t] # NoRow))
  BY <1>2
<1> QED BY <1>1, <1>3

LEMMA CoverageStep ==
    ASSUME StoresInv, NoLegacyInv, NoLegacyInv', [Next]_vars, CoverageReady, running
    PROVE  CoverageReady'
<1>1. \A t \in Trades : (projection["journal"][t] # 0) <=> (rows[t] # NoRow)
  <2>1. \A t \in Trades : Cardinality({v \in Venues : projection[v][t] # 0}) = IF rows[t] = NoRow THEN 0 ELSE 1
    BY DEF CoverageReady, ProjectedIn
  <2>2. ASSUME NEW t \in Trades PROVE (projection["journal"][t] # 0) <=> (rows[t] # NoRow)
    <3>1. projection["legacy"][t] = 0
      BY DEF NoLegacyInv
    <3>2. Cardinality({v \in Venues : projection[v][t] # 0}) = (IF rows[t] = NoRow THEN 0 ELSE 1)
      BY <2>1
    <3>3. (Cardinality({v \in Venues : projection[v][t] # 0}) = (IF rows[t] = NoRow THEN 0 ELSE 1))
          <=> ((projection["journal"][t] # 0) <=> (rows[t] # NoRow))
      BY <3>1, ReadyIs
    <3> QED BY <3>2, <3>3, Zenon
  <2> QED BY <2>2
<1>2. \A t \in Trades : (projection'["journal"][t] # 0) <=> (rows'[t] # NoRow)
  <2>1. CASE rows' = rows /\ projection' = projection
    BY <1>1, <2>1
  <2>2. ASSUME NEW th \in Threads, Record(th)
        PROVE  \A t \in Trades : (projection'["journal"][t] # 0) <=> (rows'[t] # NoRow)
    <3>1. PICK t \in Trades, row \in Rows, i \in DOMAIN ledger' : Recorded(th, t, row, i)
      BY <2>2, WideRecord
    <3>2. /\ row # NoRow /\ rows' = [rows EXCEPT ![t] = row]
          /\ projection' = [projection EXCEPT !["journal"][t] = i] /\ i # 0
      BY <3>1 DEF Recorded
    <3>3. /\ projection'["journal"][t] = i
          /\ \A u \in Trades \ {t} : projection'["journal"][u] = projection["journal"][u]
      BY <3>1, <3>2, ProjectionSet
    <3>4. DOMAIN rows = Trades
      BY DEF StoresInv, RowInv
    <3>5. rows'[t] = row /\ \A u \in Trades \ {t} : rows'[u] = rows[u]
      BY <3>1, <3>2, <3>4
    <3> QED BY <1>1, <3>1, <3>2, <3>3, <3>5
  <2>3. \/ rows' = rows /\ projection' = projection
        \/ \E th \in Threads : Record(th)
        \/ ~ running
    BY DEF Next, vars, Create, Close, Cancel, Edit, Correct, Confirm, Import, Classify, Refuse, FullSync, OlapDelete,
       OlapInsert, UnchangedStores, Stop, Start, Backfill, Rebuild
  <2> QED BY <2>1, <2>2, <2>3
<1>3. ASSUME NEW t \in Trades
      PROVE  Cardinality({v \in Venues : projection'[v][t] # 0}) = IF rows'[t] = NoRow THEN 0 ELSE 1
  <2>1. projection'["legacy"][t] = 0
    BY DEF NoLegacyInv
  <2> QED BY <1>2, <2>1, ReadyIs
<1> QED BY <1>3 DEF CoverageReady, ProjectedIn

\* CoverageKept, for every kind of request and any threads: where no legacy snapshot
\* can come between, no write of the journal loses the coverage of the projection.
THEOREM CoverageIsKept ==
    ASSUME SnapshotFree
    PROVE  Spec => CoverageKept
<1>1. Init => StoresInv /\ NoLegacyInv
  BY StoresStart, LegacyStart
<1>2. StoresInv /\ NoLegacyInv /\ [Next]_vars => StoresInv' /\ NoLegacyInv'
  BY StoresStay, LegacyStays
<1>3. StoresInv /\ NoLegacyInv /\ NoLegacyInv' /\ [Next]_vars => [CoverageReady /\ running => CoverageReady']_vars
  BY CoverageStep
<1> QED BY <1>1, <1>2, <1>3, PTL DEF Spec, CoverageKept

-----------------------------------------------------------------------------
(* What readers are shown *)

LEMMA ShownStays ==
    ASSUME StoresInv, ShownInv, "stop" \notin Requests, [Next]_vars
    PROVE  ShownInv'
<1>1. CASE rows' = rows /\ ledger' = ledger /\ projection' = projection /\ running' = running
  BY <1>1 DEF ShownInv
<1>2. ASSUME NEW th \in Threads, Record(th) PROVE ShownInv'
  <2>1. PICK t \in Trades, row \in Rows, i \in DOMAIN ledger' : Recorded(th, t, row, i)
    BY <1>2, WideRecord
  <2>2. /\ rows' = [rows EXCEPT ![t] = row] /\ running' = running /\ ledger'[i].snap = row
        /\ projection' = [projection EXCEPT !["journal"][t] = i]
        /\ \A j \in DOMAIN ledger : j \in DOMAIN ledger' /\ ledger'[j] = ledger[j]
    BY <2>1 DEF Recorded
  <2>3. /\ projection'["journal"][t] = i
        /\ \A u \in Trades \ {t} : projection'["journal"][u] = projection["journal"][u]
    BY <2>1, <2>2, ProjectionSet
  <2>4. DOMAIN rows = Trades
    BY DEF StoresInv, RowInv
  <2>5. rows'[t] = row /\ \A u \in Trades \ {t} : rows'[u] = rows[u]
    BY <2>1, <2>2, <2>4
  <2> QED BY <2>1, <2>2, <2>3, <2>5 DEF ShownInv
<1>3. \/ rows' = rows /\ ledger' = ledger /\ projection' = projection /\ running' = running
      \/ \E th \in Threads : Record(th)
  BY DEF ShownInv, Next, vars, Create, Close, Cancel, Edit, Correct, Confirm, Import, Classify, Refuse, FullSync,
     OlapDelete, OlapInsert, UnchangedStores, Stop, Start, Backfill, Rebuild
<1> QED BY <1>1, <1>2, <1>3

LEMMA ShownStart == Init => ShownInv
BY DEF Init, ShownInv, Venues

\* ShownIsStored, for every kind of request and any threads, as long as nothing
\* rebuilds the projection.
THEOREM ProjectionIsShown ==
    ASSUME "stop" \notin Requests
    PROVE  Spec => []ShownIsStored
<1>1. Init => StoresInv /\ ShownInv
  BY StoresStart, ShownStart
<1>2. StoresInv /\ ShownInv /\ [Next]_vars => StoresInv' /\ ShownInv'
  BY StoresStay, ShownStays
<1>3. ShownInv => ShownIsStored
  BY DEF ShownInv, ShownIsStored
<1> QED BY <1>1, <1>2, <1>3, PTL DEF Spec

-----------------------------------------------------------------------------
(* The analytics replica, with one thread *)

LEMMA ReviewedStays ==
    ASSUME NEW t, \A j \in DOMAIN ledger : j \in DOMAIN ledger' /\ ledger'[j] = ledger[j], Reviewed(t)
    PROVE  Reviewed(t)'
BY DEF Reviewed

LEMMA ReplicaAside ==
    ASSUME ReplicaInv, NEW th \in Threads, Threads = {th}, NEW r, DOMAIN req = Threads,
           req' = [req EXCEPT ![th] = r], UNCHANGED <<rows, ledger, olap>>,
           req[th].stage \notin {"syncing", "deleted"}, r.stage \notin {"syncing", "deleted"}
    PROVE  ReplicaInv'
<1>1. req'[th] = r /\ rows' = rows /\ ledger' = ledger /\ olap' = olap
  OBVIOUS
<1>2. ASSUME NEW t \in Trades, rows'[t] # NoRow, ~ Reviewed(t)' PROVE olap'[t] = rows'[t]
  <2>1. CopiedBy(req[th], t)
    BY <1>1, <1>2 DEF ReplicaInv, Reviewed
  <2> QED BY <1>1, <2>1 DEF CopiedBy
<1>3. DOMAIN olap' = Trades
  BY <1>1 DEF ReplicaInv
<1> QED BY <1>1, <1>2, <1>3 DEF ReplicaInv, CopiedBy

LEMMA ReplicaRecord ==
    ASSUME StoresInv, ReplicaInv, NEW th \in Threads, Threads = {th}, Record(th)
    PROVE  ReplicaInv'
<1>1. PICK t \in Trades, row \in Rows, i \in DOMAIN ledger' : Recorded(th, t, row, i)
  BY WideRecord
<1>2. /\ rows' = [rows EXCEPT ![t] = row] /\ olap' = olap
      /\ \A j \in DOMAIN ledger : j \in DOMAIN ledger' /\ ledger'[j] = ledger[j]
      /\ ledger'[i].key = KeyOf(req[th]) /\ Return(th, t, row)
      /\ req[th].kind = "correct" => i \notin DOMAIN ledger
  BY <1>1 DEF Recorded
<1>3. \A j \in DOMAIN ledger' \ DOMAIN ledger :
         ledger'[j] = [venue |-> "journal", trade |-> t, type |-> req[th].type, key |-> KeyOf(req[th]), snap |-> row]
  BY <1>1 DEF Recorded
<1>4. DOMAIN rows = Trades /\ DOMAIN req = Threads
  BY DEF StoresInv, RowInv
<1>5. rows'[t] = row /\ \A u \in Trades \ {t} : rows'[u] = rows[u]
  BY <1>2, <1>4
<1>6. ASSUME NEW u \in Trades \ {t}, rows'[u] # NoRow, ~ Reviewed(u)' PROVE olap'[u] = rows'[u]
  <2>1. CopiedBy(req[th], u)
    BY <1>2, <1>5, <1>6, ReviewedStays DEF ReplicaInv
  <2>2. req[th].stage = "classified"
    BY DEF Record, Ready
  <2> QED BY <1>2, <1>5, <2>1, <2>2 DEF CopiedBy
<1>7. DOMAIN olap' = Trades
  BY <1>2 DEF ReplicaInv
<1>8. CASE req[th].kind = "correct"
  <2>1. req'[th] = Idle /\ Idle.stage \notin {"syncing", "deleted"}
    BY <1>2, <1>4, <1>8 DEF Return, Do, Idle
  <2>2. ledger'[i].trade = t /\ ledger'[i].key[1] = "review"
    BY <1>1, <1>2, <1>3, <1>8 DEF KeyOf
  <2>3. Reviewed(t)'
    BY <1>1, <2>2 DEF Reviewed
  <2> QED BY <1>6, <1>7, <2>1, <2>3 DEF ReplicaInv, CopiedBy
<1>9. CASE req[th].kind # "correct"
  <2>1. PICK p : p = [x \in {t} |-> row]
    OBVIOUS
  <2>2. req'[th] = Syncing(p)
    BY <1>2, <1>4, <1>9, <2>1 DEF Return, Do
  <2>3. req'[th].stage = "syncing" /\ req'[th].pending = p
    BY <2>2 DEF Syncing
  <2>4. DOMAIN p = {t} /\ p[t] = row
    BY <2>1
  <2> QED BY <1>5, <1>6, <1>7, <2>3, <2>4 DEF ReplicaInv, CopiedBy
<1> QED BY <1>8, <1>9

LEMMA ReplicaFull ==
    ASSUME StoresInv, NoLegacyInv, ShownInv, ReplicaInv, NEW th \in Threads, Threads = {th}, FullSync(th)
    PROVE  ReplicaInv'
<1>1. PICK p : p = [t \in Listed |-> Snapshot(t)]
  OBVIOUS
<1>2. /\ req' = [req EXCEPT ![th] = Syncing(p)] /\ CoverageReady
      /\ rows' = rows /\ ledger' = ledger /\ olap' = olap
  BY <1>1 DEF FullSync, Do, UnchangedStores
<1>3. req'[th].stage = "syncing" /\ req'[th].pending = p
  BY <1>2 DEF Syncing, StoresInv
<1>4. \A t \in Listed : p[t] = rows[t]
  <2>1. ASSUME NEW t \in Listed PROVE Snapshot(t) = rows[t]
    <3>1. t \in Trades /\ rows[t] # NoRow
      BY DEF Listed
    <3>2. projection["legacy"][t] = 0
      BY <3>1 DEF NoLegacyInv
    <3>3. Cardinality({v \in Venues : projection[v][t] # 0}) = (IF rows[t] = NoRow THEN 0 ELSE 1)
      BY <1>2, <3>1 DEF CoverageReady, ProjectedIn
    <3>4. (Cardinality({v \in Venues : projection[v][t] # 0}) = (IF rows[t] = NoRow THEN 0 ELSE 1))
          <=> ((projection["journal"][t] # 0) <=> (rows[t] # NoRow))
      BY <3>2, ReadyIs
    <3>5. projection["journal"][t] # 0
      BY <3>1, <3>3, <3>4, Zenon
    <3>6. ProjectedIn(t) = {"journal"}
      BY <3>2, <3>5 DEF ProjectedIn, Venues
    <3>7. (CHOOSE v \in ProjectedIn(t) : TRUE) = "journal"
      BY <3>6
    <3>8. ledger[projection["journal"][t]].snap = rows[t]
      BY <3>1, <3>5 DEF ShownInv
    <3> QED BY <3>7, <3>8 DEF Snapshot
  <2> QED BY <1>1, <2>1
<1>5. DOMAIN p = Listed /\ Listed \subseteq Trades
  BY <1>1 DEF Listed
<1>6. \A t \in Trades : rows[t] # NoRow => t \in Listed
  BY DEF Listed
<1>7. DOMAIN olap' = Trades
  BY <1>2 DEF ReplicaInv
<1> QED BY <1>2, <1>3, <1>4, <1>5, <1>6, <1>7 DEF ReplicaInv, CopiedBy

LEMMA ReplicaDelete ==
    ASSUME StoresInv, ReplicaInv, NEW th \in Threads, Threads = {th}, OlapDelete(th)
    PROVE  ReplicaInv'
<1>1. PICK t \in DOMAIN req[th].pending :
        olap' = [olap EXCEPT ![t] = NoRow] /\ req' = [req EXCEPT ![th] = Deleted(req[th], t)]
  BY DEF OlapDelete, Do
<1>2. req[th].stage = "syncing" /\ rows' = rows /\ ledger' = ledger
  BY DEF OlapDelete
<1>3. t \in Trades /\ DOMAIN req[th].pending \subseteq Trades
  BY <1>1, <1>2 DEF ReplicaInv
<1>4. req'[th].stage = "deleted" /\ req'[th].pending = req[th].pending /\ req'[th].trade = t
  BY <1>1 DEF Deleted, StoresInv
<1>5. DOMAIN olap' = Trades /\ olap'[t] = NoRow /\ \A u \in Trades \ {t} : olap'[u] = olap[u]
  BY <1>1, <1>3 DEF ReplicaInv
<1>6. ASSUME NEW u \in Trades, rows'[u] # NoRow, ~ Reviewed(u)' PROVE CopiedBy(req[th], u)
  BY <1>2, <1>6 DEF ReplicaInv, Reviewed
<1>7. \A u \in Trades : rows'[u] # NoRow /\ ~ Reviewed(u)' =>
         IF u \in DOMAIN req[th].pending THEN req[th].pending[u] = rows[u] ELSE olap[u] = rows[u]
  BY <1>2, <1>6 DEF CopiedBy
<1> QED BY <1>1, <1>2, <1>3, <1>4, <1>5, <1>7 DEF ReplicaInv, CopiedBy

LEMMA ReplicaInsert ==
    ASSUME StoresInv, ReplicaInv, NEW th \in Threads, Threads = {th}, OlapInsert(th)
    PROVE  ReplicaInv'
<1>1. PICK r : r = req[th]
  OBVIOUS
<1>2. r.stage = "deleted" /\ rows' = rows /\ ledger' = ledger
  BY <1>1 DEF OlapInsert
<1>3. DOMAIN r.pending \subseteq Trades /\ r.trade \in DOMAIN r.pending /\ olap[r.trade] = NoRow
  BY <1>1, <1>2 DEF ReplicaInv
<1>4. /\ olap' = [olap EXCEPT ![r.trade] = r.pending[r.trade]]
      /\ req' = [req EXCEPT ![th] = IF DOMAIN Rest(r) = {} THEN Idle ELSE Syncing(Rest(r))]
  BY <1>1, <1>3 DEF OlapInsert, Do
<1>5. DOMAIN olap' = Trades /\ olap'[r.trade] = r.pending[r.trade] /\ \A u \in Trades \ {r.trade} : olap'[u] = olap[u]
  BY <1>3, <1>4 DEF ReplicaInv
<1>6. \A u \in Trades : rows'[u] # NoRow /\ ~ Reviewed(u)' =>
         IF u \in DOMAIN r.pending THEN r.pending[u] = rows[u] ELSE olap[u] = rows[u]
  <2>1. ASSUME NEW u \in Trades, rows'[u] # NoRow, ~ Reviewed(u)' PROVE CopiedBy(r, u)
    BY <1>1, <1>2, <2>1 DEF ReplicaInv, Reviewed
  <2> QED BY <1>2, <2>1 DEF CopiedBy
<1>7. /\ DOMAIN Rest(r) = DOMAIN r.pending \ {r.trade}
      /\ \A u \in DOMAIN Rest(r) : Rest(r)[u] = r.pending[u]
  BY DEF Rest
<1>8. CASE DOMAIN Rest(r) = {}
  <2>1. req'[th] = Idle /\ Idle.stage \notin {"syncing", "deleted"}
    BY <1>4, <1>8 DEF Idle, StoresInv
  <2>2. DOMAIN r.pending = {r.trade}
    BY <1>3, <1>7, <1>8
  <2>3. ASSUME NEW u \in Trades, rows'[u] # NoRow, ~ Reviewed(u)' PROVE olap'[u] = rows'[u]
    BY <1>2, <1>5, <1>6, <2>2, <2>3
  <2> QED BY <1>5, <2>1, <2>3 DEF ReplicaInv, CopiedBy
<1>9. CASE DOMAIN Rest(r) # {}
  <2>1. PICK p : p = Rest(r)
    OBVIOUS
  <2>2. req'[th].stage = "syncing" /\ req'[th].pending = p
    BY <1>4, <1>9, <2>1 DEF Syncing, StoresInv
  <2>3. DOMAIN p = DOMAIN r.pending \ {r.trade} /\ \A u \in DOMAIN p : p[u] = r.pending[u]
    BY <1>7, <2>1
  <2> QED BY <1>2, <1>3, <1>5, <1>6, <2>2, <2>3 DEF ReplicaInv, CopiedBy
<1> QED BY <1>8, <1>9

LEMMA ReplicaStays ==
    ASSUME StoresInv, NoLegacyInv, ShownInv, ReplicaInv, "stop" \notin Requests,
           NEW only, Threads = {only}, [Next]_vars
    PROVE  ReplicaInv'
<1>1. ASSUME NEW th \in Threads,
             Create(th) \/ Close(th) \/ Cancel(th) \/ Edit(th) \/ Correct(th) \/ Confirm(th) \/ Import(th)
      PROVE  ReplicaInv'
  <2>1. req[th] = Idle /\ UNCHANGED <<rows, ledger, olap>>
    BY <1>1 DEF Create, Close, Cancel, Edit, Correct, Confirm, Import, Accept, UnchangedStores
  <2>2. PICK r : req' = [req EXCEPT ![th] = r] /\ r.stage \in {"received", "classified"}
    <3>1. /\ \A k, t, d, p, e : Received(k, t, d, p, e).stage = "received"
          /\ \A k, t, d, p, e, y : Classified(Received(k, t, d, p, e), y).stage = "classified"
      BY DEF Received, Classified
    <3>2. \/ \E k, t, d, p, e : req' = [req EXCEPT ![th] = Received(k, t, d, p, e)]
          \/ \E k, t, d, p, e, y : req' = [req EXCEPT ![th] = Classified(Received(k, t, d, p, e), y)]
      <4>1. CASE Create(th)
        <5>1. PICK t, p : req' = [req EXCEPT ![th] = Classified(Received("create", t, NoRow, p, AnyRevision), "IntentRecorded")]
          BY <4>1 DEF Create, Do
        <5> QED BY <5>1
      <4>2. CASE Close(th)
        BY <4>2 DEF Close, Do
      <4>3. CASE Cancel(th)
        BY <4>3 DEF Cancel, Do
      <4>4. CASE Edit(th)
        BY <4>4 DEF Edit, Do
      <4>5. CASE Correct(th)
        <5>1. PICK t, p : req' = [req EXCEPT ![th] = Classified(Received("correct", t, rows[t], p, AnyRevision), "TradeCorrected")]
          BY <4>5, Zenon DEF Correct, Do
        <5> QED BY <5>1, Zenon
      <4>6. CASE Confirm(th)
        BY <4>6 DEF Confirm, Do
      <4>7. CASE Import(th)
        BY <4>7 DEF Import, Do
      <4> QED BY <1>1, <4>1, <4>2, <4>3, <4>4, <4>5, <4>6, <4>7
    <3> QED BY <3>1, <3>2
  <2>3. req[th].stage \notin {"syncing", "deleted"}
    BY <2>1 DEF Idle
  <2> QED BY <2>1, <2>2, <2>3, ReplicaAside DEF StoresInv
<1>2. ASSUME NEW th \in Threads, Classify(th) \/ Refuse(th) PROVE ReplicaInv'
  <2>1. req[th].stage \in {"received", "classified"} /\ UNCHANGED <<rows, ledger, olap>>
    BY <1>2 DEF Classify, Refuse, Ready, UnchangedStores
  <2>2. PICK r : req' = [req EXCEPT ![th] = r] /\ r.stage \in {"classified", "idle", "received"}
    <3>1. CASE Refuse(th)
      <4>1. req' = [req EXCEPT ![th] = Idle] /\ Idle.stage = "idle"
        BY <3>1 DEF Refuse, Do, Idle
      <4> QED BY <4>1
    <3>2. CASE Classify(th)
      <4>1. PICK type : req' = [req EXCEPT ![th] = Classified(req[th], type)]
        BY <3>2 DEF Classify, Do
      <4>2. Classified(req[th], type).stage \in {"classified", "received"}
        BY <2>1, <3>2 DEF Classified, Classify
      <4> QED BY <4>1, <4>2
    <3> QED BY <1>2, <3>1, <3>2
  <2> QED BY <2>1, <2>2, ReplicaAside DEF StoresInv
<1>3. ASSUME NEW th \in Threads, Record(th) \/ FullSync(th) \/ OlapDelete(th) \/ OlapInsert(th) PROVE ReplicaInv'
  BY <1>3, ReplicaRecord, ReplicaFull, ReplicaDelete, ReplicaInsert
<1>4. Stop \/ Start \/ Rebuild \/ (\E t \in Trades : Backfill(t)) => FALSE
  BY DEF ShownInv, Stop, Start, Rebuild, Backfill
<1>5. CASE UNCHANGED vars
  <2>1. UNCHANGED <<rows, ledger, olap, req>>
    BY <1>5 DEF vars
  <2> QED BY <2>1 DEF ReplicaInv, CopiedBy, Reviewed
<1> QED BY <1>1, <1>2, <1>3, <1>4, <1>5 DEF Next

LEMMA ReplicaStart ==
    ASSUME LegacyTrades = {}
    PROVE  Init => ReplicaInv
<1>1. SUFFICES ASSUME Init PROVE ReplicaInv
  OBVIOUS
<1>2. (\A t \in Trades : rows[t] = NoRow) /\ (\A th \in Threads : req[th] = Idle) /\ DOMAIN olap = Trades
  BY <1>1 DEF Init
<1> QED BY <1>2 DEF ReplicaInv, CopiedBy, Idle

\* ShownSound, for every kind of request, where one thread serves them and the
\* application is not stopped: what readers are shown, by the projection and,
\* when no request is in flight, by analytics, is the row.
THEOREM JournalIsShown ==
    ASSUME NEW only, Threads = {only}, "stop" \notin Requests, LegacyTrades = {}
    PROVE  Spec => []ShownSound
<1>1. Init => StoresInv /\ NoLegacyInv /\ ShownInv /\ ReplicaInv
  BY StoresStart, LegacyStart, ShownStart, ReplicaStart DEF SnapshotFree
<1>2. StoresInv /\ NoLegacyInv /\ ShownInv /\ ReplicaInv /\ [Next]_vars
         => StoresInv' /\ NoLegacyInv' /\ ShownInv' /\ ReplicaInv'
  BY StoresStay, LegacyStays, ShownStays, ReplicaStays DEF SnapshotFree
<1>3. ShownInv /\ ReplicaInv => ShownSound
  <2>1. SUFFICES ASSUME ShownInv, ReplicaInv PROVE ShownIsStored /\ OlapReplica
    BY DEF ShownSound
  <2>2. ASSUME Quiet, NEW t \in Trades, rows[t] # NoRow, ~ Reviewed(t) PROVE olap[t] = rows[t]
    <3>1. req[only] = Idle /\ CopiedBy(req[only], t)
      BY <2>1, <2>2 DEF Quiet, ReplicaInv
    <3> QED BY <3>1 DEF CopiedBy, Idle
  <2> QED BY <2>1, <2>2 DEF ShownInv, ShownIsStored, OlapReplica
<1> QED BY <1>1, <1>2, <1>3, PTL DEF Spec
=============================================================================
