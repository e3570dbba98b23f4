------------------------------ MODULE Propagation ------------------------------
(***************************************************************************)
(* From what several sources say about one account to trades with evidence: *)
(* economic_trade_grouping.py groups the observations of all documents by   *)
(* the fill they are about, account_reconciliation.py says how much of the  *)
(* account the documents cover, and economic_evidence_propagation.py writes *)
(* one revision per changed group through the grouped batch of              *)
(* app/db/sqlite_driver.py.                                                 *)
(*                                                                          *)
(* Documents become known one at a time, in any order: a correction may     *)
(* arrive before the one it follows.  A caller groups documents, builds the *)
(* commands from the ledger as it is then and commits them later.  A trade  *)
(* is its quantity and price; symbol, side and fees are left out.           *)
(***************************************************************************)
EXTENDS Integers, Sequences, FiniteSets, SequencesExt, FiniteSetsExt

CONSTANTS
    Documents,      \* sets of observations
    Callers,        \* threads that propagate
    Statements,     \* what is known of the account beside its trades
    Partial,        \* callers also report on some of the known documents
    MaxRevisions    \* bound: events in the ledger

ASSUME PropagationAssumption == Partial \in BOOLEAN /\ MaxRevisions \in Nat

VARIABLES
    known,      \* the documents that arrived
    ledger,     \* economic events, in commit order
    shown,      \* the trades row and the projection of each group
    task        \* what each caller is about to commit

propagationVars == <<known, ledger, shown, task>>

-----------------------------------------------------------------------------
(* Grouping *)

\* The quantity of an order that names none.
Unstated == -1

\* A row is normalized or rejected: a fill has a quantity, a price and an order,
\* a correction the moment from which it holds and, if any, positive values.
Normalized(o) ==
    /\ o.qty \in Nat \/ (o.kind = "ORDER" /\ o.qty = Unstated)
    /\ o.price \in Nat
    /\ o.kind \in {"FILL", "ORDER", "CORRECTION"}
    /\ o.kind = "FILL"       => o.qty > 0 /\ o.price > 0 /\ o.order # "-" /\ o.status = "FILLED"
    /\ o.kind = "CORRECTION" => o.effective > 0 /\ o.status = "CORRECTION"

\* The rows of each document that are not rejected.
Readable == {{o \in d : Normalized(o)} : d \in Documents}

OfKind(obs, kind) == {o \in obs : o.kind = kind}

\* Of two rows that claim one place of one document, the first is kept.
Conflicting(obs) == {o \in obs : \E p \in obs : p.place = o.place /\ p.id < o.id}

Fills(obs, k) == {o \in OfKind(obs, "FILL") : o.key = k}
Keys(obs)     == {o.key : o \in OfKind(obs, "FILL")}

\* Faulty variant: corrections apply in the order of their documents.
FaultyCorrections(obs, k) ==
    SetToSortSeq({o \in OfKind(obs, "CORRECTION") : o.key = k}, LAMBDA o, p : o.id < p.id)

\* Corrections apply in the order of their effect, whenever they arrived.
Corrections(obs, k) ==
    SetToSortSeq({o \in OfKind(obs, "CORRECTION") : o.key = k},
                 LAMBDA o, p : o.effective < p.effective \/ (o.effective = p.effective /\ o.id < p.id))

HasValues(c) == c.qty > 0 \/ c.price > 0

\* The last correction that has a value stands; else what all fills agree on.
Value(obs, k, field) ==
    LET given == SelectSeq(Corrections(obs, k), LAMBDA c : c[field] > 0)
        said  == {o[field] : o \in Fills(obs, k)}
    IN  IF given # <<>> THEN Last(given)[field]
        ELSE IF Cardinality(said) = 1 THEN CHOOSE v \in said : TRUE ELSE 0

Disputed(obs, k) ==
    \/ \E o, p \in Fills(obs, k) : o.qty # p.qty \/ o.price # p.price
    \/ \E n \in DOMAIN Corrections(obs, k) : ~ HasValues(Corrections(obs, k)[n])

\* An economic group: one fill, however many sources tell of it.
Group(obs, k) ==
    LET applied == SelectSeq(Corrections(obs, k), HasValues)
    IN  [key |-> k, qty |-> Value(obs, k, "qty"), price |-> Value(obs, k, "price"),
         confirmed |-> ~ Disputed(obs, k),
         sources |-> {o.id : o \in Fills(obs, k)},
         applied |-> [n \in DOMAIN applied |-> applied[n].id],
         at |-> IF applied # <<>> THEN Last(applied).effective
                ELSE Min({o.at : o \in Fills(obs, k)})]

\* Faulty variant: every source of a fill adds to its order.
FaultyObserved(obs, order) ==
    FoldSet(LAMBDA o, sum : o.qty + sum, 0, {o \in OfKind(obs, "FILL") : o.order = order})

\* The quantity the confirmed groups of an order come to.
Observed(obs, order) ==
    LET groups == {k \in Keys(obs) : \E o \in Fills(obs, k) : o.order = order}
    IN  FoldSet(LAMBDA k, sum : Value(obs, k, "qty") + sum, 0, {k \in groups : ~ Disputed(obs, k)})

\* The lifecycle of an order by its latest row.
OrderState(obs, order) ==
    LET rows     == {o \in OfKind(obs, "ORDER") : o.order = order}
        latest   == CHOOSE o \in rows : \A p \in rows : p.at < o.at \/ (p.at = o.at /\ p.id <= o.id)
        observed == Observed(obs, order)
    IN  IF rows = {} THEN "ORPHAN_FILL"
        ELSE IF observed = 0 THEN
             IF latest.status = "FILLED" /\ latest.qty > 0 THEN "FILLED_ORDER_WITHOUT_FILL" ELSE "NO_FILL"
        ELSE IF latest.status \in {"REJECTED", "CANCELED"} THEN "ENDED_WITH_FILL"
        ELSE IF latest.qty = Unstated THEN "PARTIAL_UNKNOWN"
        ELSE IF observed = latest.qty THEN "FILLED"
        ELSE IF observed > latest.qty THEN "OVERFILLED"
        ELSE IF latest.status = "FILLED" THEN "FILLED_ORDER_INCOMPLETE" ELSE "PARTIALLY_FILLED"

Orders(obs) == {o.order : o \in OfKind(obs, "ORDER") \cup OfKind(obs, "FILL")}

Discrepancies(obs) ==
    {<<"SOURCE_OBSERVATION_CONFLICT", o.id>> : o \in Conflicting(obs)}
    \cup {<<"ECONOMIC_CONFLICT", k>> : k \in {x \in Keys(obs) : Disputed(obs, x)}}
    \cup {<<"CORRECTION_TARGET_NOT_FOUND", o.id>> :
            o \in {x \in OfKind(obs, "CORRECTION") : x.key \notin Keys(obs)}}
    \cup {<<"LATE_CORRECTION_APPLIED", o.id>> :
            o \in {x \in OfKind(obs, "CORRECTION") : x.key \in Keys(obs) /\ HasValues(x)}}
    \cup {<<OrderState(obs, order), order>> :
            order \in {x \in Orders(obs) : OrderState(obs, x) \in
                {"ORPHAN_FILL", "FILLED_ORDER_WITHOUT_FILL", "PARTIAL_UNKNOWN", "OVERFILLED",
                 "FILLED_ORDER_INCOMPLETE"}}}

Hard == {"SOURCE_OBSERVATION_CONFLICT", "ECONOMIC_CONFLICT", "CORRECTION_TARGET_NOT_FOUND",
         "OVERFILLED", "FILLED_ORDER_INCOMPLETE"}

\* group: its report on the observations of some documents.
Grouped(docs) ==
    LET given == UNION docs
        obs   == given \ Conflicting(given)
        odd   == Discrepancies(obs) \cup {<<"SOURCE_OBSERVATION_CONFLICT", o.id>> : o \in Conflicting(given)}
    IN  [groups |-> {Group(obs, k) : k \in Keys(obs)}, discrepancies |-> odd,
         status |-> IF \E d \in odd : d[1] \in Hard THEN "UNRESOLVED"
                    ELSE IF odd # {} THEN "PARTIAL" ELSE "RECONCILED"]

Report == [docs \in SUBSET Readable |-> Grouped(docs)]

-----------------------------------------------------------------------------
(* Account coverage *)

Unsupported(s) == {"LIQUIDATION", "ADL"} \cap s.kinds
Pending(s)     == {"FUNDING", "TRANSFER"} \cap s.kinds

\* Faulty variant: only the kinds nobody knows count against the coverage.
FaultyReasons(s) == (IF s.claimed THEN {} ELSE {"COVERAGE"}) \cup (IF Unsupported(s) = {} THEN {} ELSE {"UNSUPPORTED"})

\* reconcile: why an account is not completely covered.
Reasons(s) == (IF s.claimed THEN {} ELSE {"COVERAGE"})
              \cup (IF s.opening = "all" THEN {} ELSE {"OPENING"})
              \cup (IF Unsupported(s) = {} THEN {} ELSE {"UNSUPPORTED"})
              \cup (IF Pending(s) = {} THEN {} ELSE {"PENDING"})

Coverage(s) == IF s.opening = "none" THEN "NOT_AVAILABLE"
               ELSE IF Reasons(s) # {} THEN "PARTIAL" ELSE "COMPLETE"

\* _coverage_for_account refuses what the ledger has no event for.
Admissible(s) == {"UNSUPPORTED", "PENDING"} \cap Reasons(s) = {}

-----------------------------------------------------------------------------
(* Propagation *)

EventsOf(k) == {n \in DOMAIN ledger : ledger[n].group.key = k}

\* Events are exported by the day they occurred, then in the order of appending.
History(k) == SetToSortSeq(EventsOf(k), LAMBDA m, n : ledger[m].group.at < ledger[n].group.at
                                                      \/ (ledger[m].group.at = ledger[n].group.at /\ m < n))

\* The fingerprint of a command covers its group and the report around it.
Fingerprint(g, report, s) == [group |-> g, discrepancies |-> report.discrepancies, coverage |-> Coverage(s)]
Recorded(f) == {n \in DOMAIN ledger : ledger[n].print = f}

\* Faulty variant: a revision is numbered by the corrections its group has.
FaultyRevisionOf(g) == [number |-> Len(g.applied) + 1, cause |-> IF g.applied = <<>> THEN 0 ELSE Last(History(g.key))]

RevisionOf(g) == IF g.applied = <<>> THEN [number |-> 1, cause |-> 0]
                 ELSE [number |-> ledger[Last(History(g.key))].number + 1, cause |-> Last(History(g.key))]

\* What may become a trade: undisputed, with values, and with its sources.
ValidGroup(g) == g.confirmed /\ g.qty > 0 /\ g.price > 0 /\ g.sources # {}

\* A known command is replayed; a group with a correction needs a history, one
\* without must not have any.
Allowed(g, f) == Recorded(f) # {} \/ ((g.applied # <<>>) <=> (EventsOf(g.key) # {}))

Command(g, report, s) == RevisionOf(g) @@ [group |-> g, print |-> Fingerprint(g, report, s)]

Idle == [stage |-> "idle"]
Do(c, t) == task' = [task EXCEPT ![c] = t]

Reportable == IF Partial THEN SUBSET known ELSE {known}

\* propagate up to the transaction; a refusal leaves everything as it was.
BuildCommands(c) ==
    /\ task[c] = Idle
    /\ \E docs \in Reportable, s \in Statements :
          LET report == Report[docs]
          IN  /\ report.status # "UNRESOLVED" /\ report.groups # {} /\ Admissible(s)
              /\ \A g \in report.groups : ValidGroup(g) /\ Allowed(g, Fingerprint(g, report, s))
              /\ Do(c, [stage |-> "built", statement |-> s, reported |-> docs,
                        replays  |-> {g \in report.groups : Recorded(Fingerprint(g, report, s)) # {}},
                        commands |-> SetToSortSeq({Command(g, report, s) : g \in
                                        {h \in report.groups : Recorded(Fingerprint(h, report, s)) = {}}},
                                        LAMBDA a, b : a.group.at < b.group.at
                                                      \/ (a.group.at = b.group.at /\ a.group.key < b.group.key))])
    /\ UNCHANGED <<known, ledger, shown>>

\* append_event_in_transaction: a command another caller recorded meanwhile is
\* answered with the known event, if that is the same revision; if not, the append
\* raises and the whole batch is rolled back.
Appendable(commands) == \A cmd \in ToSet(commands) : \A n \in Recorded(cmd.print) : ledger[n] = cmd
Fresh(commands) == SelectSeq(commands, LAMBDA cmd : Recorded(cmd.print) = {})

\* record_grouped_evidence_batch: rows, events and projections of all groups,
\* those of replayed commands included, in one transaction.
CommitBatch(c) ==
    /\ task[c].stage = "built" /\ Len(ledger) < MaxRevisions /\ Appendable(task[c].commands)
    /\ ledger' = ledger \o Fresh(task[c].commands)
    /\ shown'  = LET written == {cmd.group : cmd \in ToSet(task[c].commands)} \cup task[c].replays
                 IN  [k \in {g.key : g \in written} |-> CHOOSE g \in written : g.key = k] @@ shown
    /\ Do(c, Idle)
    /\ UNCHANGED known

\* The batch is refused or cancelled, or the process ends before its commit.
AbandonBatch(c) ==
    /\ task[c].stage = "built" /\ Do(c, Idle)
    /\ UNCHANGED <<known, ledger, shown>>

DocumentArrives ==
    /\ \E d \in Readable \ known : known' = known \cup {d}
    /\ UNCHANGED <<ledger, shown, task>>

PropagationInit == known = {} /\ ledger = <<>> /\ shown = <<>> /\ task = [c \in Callers |-> Idle]

PropagationNext == \/ DocumentArrives
                   \/ \E c \in Callers : BuildCommands(c) \/ CommitBatch(c) \/ AbandonBatch(c)

PropagationSpec == PropagationInit /\ [][PropagationNext]_propagationVars

-----------------------------------------------------------------------------
(* Properties *)

\* The revisions of a group form one chain: each is caused by the one before it
\* and bears the next number, however late its corrections arrived.
LineageLinear ==
    \A n \in DOMAIN ledger :
        LET earlier == {m \in EventsOf(ledger[n].group.key) : m < n}
        IN  IF earlier = {} THEN ledger[n].number = 1 /\ ledger[n].cause = 0
            ELSE ledger[n].number = ledger[Max(earlier)].number + 1 /\ ledger[n].cause = Max(earlier)

\* The journal shows every group as its newest revision has it, with the value
\* of the correction that takes effect last among those it was built from.
ShownIsNewest ==
    \A k \in DOMAIN shown :
        LET newest == ledger[Max(EventsOf(k))].group
            said   == {o \in UNION known : o.kind = "CORRECTION" /\ o.key = k /\ o.id \in ToSet(newest.applied)}
        IN  /\ shown[k].qty = newest.qty /\ shown[k].price = newest.price
            /\ \A o \in said : o.price > 0 /\ (\A p \in said : p.effective <= o.effective) => newest.price = o.price

\* A source that repeats what others say changes neither the verdict on the
\* documents nor the quantity of any order.  (Both depend on the documents alone
\* and are looked at before anything is recorded.)
RepetitionHarmless ==
    (ledger = <<>> /\ \A c \in Callers : task[c] = Idle) => \A d \in known :
        LET others == UNION (known \ {d})
            news   == {o \in d : \/ \E p \in others : p.place = o.place
                              \/ ~ \E p \in others : [p EXCEPT !.id = o.id, !.place = o.place] = o}
            told   == Grouped((known \ {d}) \cup {news})
        IN  /\ Report[known].status = told.status
            /\ {<<g.key, g.qty, g.price>> : g \in Report[known].groups}
               = {<<g.key, g.qty, g.price>> : g \in told.groups}

\* No trade claims complete account evidence that an account event without a
\* ledger representation, or a missing opening position, contradicts.
CoverageEarned ==
    \A c \in Callers : task[c].stage = "built" =>
        \A n \in DOMAIN task[c].commands :
            task[c].commands[n].print.coverage = "COMPLETE" =>
                /\ task[c].statement.opening = "all"
                /\ task[c].statement.kinds \cap {"LIQUIDATION", "ADL", "FUNDING", "TRANSFER"} = {}

\* "input permutation ve replay sonucu degismez": a replay changes no result.
ReplayKeepsResult ==
    [][\A c \in Callers : CommitBatch(c) /\ ledger' = ledger => shown' = shown]_propagationVars

\* "Correction yeni TradeCorrected event'i [...] append-only ledger'a eklenir":
\* a correction of documents that are not disputed can be recorded.
CorrectionRecordable ==
    LET report == Report[known]
    IN  report.status # "UNRESOLVED" =>
            \A g \in report.groups, s \in Statements :
                g.applied # <<>> /\ EventsOf(g.key) # {} =>
                    \A h \in report.groups : Allowed(h, Fingerprint(h, report, s))

\* Economic evidence reaches the journal once and in order: revisions form one
\* line, the newest is shown, repeating a document changes nothing, and coverage
\* is what the evidence earns.
PropagationSound == LineageLinear /\ ShownIsNewest /\ RepetitionHarmless /\ CoverageEarned
=============================================================================
