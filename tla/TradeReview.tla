----------------------------- MODULE TradeReview -----------------------------
(***************************************************************************)
(* The chart review of one trade: the recorded minutes that prove its       *)
(* window (candle_evidence.py), the snapshot fetched for an open position   *)
(* (open_position_evidence.py), the recorded plan                           *)
(* (trade_plan_reference.py) and the sessions a user moves a cursor in      *)
(* (replay_service.py).  Minutes are numbers; rows are recorded by imports  *)
(* in any order, and two rows of one minute may disagree.                   *)
(*                                                                          *)
(* A session keeps what it was built from.  Besides the recorded plan of    *)
(* its bar, every frame carries the plan that was current when the session  *)
(* was created, labelled a reference, and the exit of a closed trade.       *)
(***************************************************************************)
EXTENDS Integers, Sequences, FiniteSets, FiniteSetsExt, SequencesExt

CONSTANTS
    Reviewers,      \* requests under way at once
    Values,         \* what a row may say of a minute
    Lookback,       \* lookback_bars
    Lookforward,    \* lookforward_bars
    MaxSessions,    \* 32 sessions are kept
    Nil,
    MaxNow,         \* bound: minutes
    MaxPlans,       \* bound: revisions of the plan
    MaxCreated      \* bound: sessions created

ASSUME ReviewAssumption ==
    {Lookback, Lookforward, MaxNow, MaxPlans, MaxCreated} \subseteq Nat /\ MaxSessions \in Nat \ {0}

VARIABLES
    now,        \* the current minute
    rows,       \* the recorded minutes: [slot, value]
    trade,      \* the recorded trade: the minutes of its entry and exit
    plans,      \* the minutes in which the revisions of its plan were recorded
    sessions,   \* the sessions, oldest first
    created,    \* how many there were
    asking,     \* the refresh of each reviewer for an open position
    frame       \* the frame answered in this step

reviewVars == <<now, rows, trade, plans, sessions, created, asking, frame>>

Minutes == 0 .. MaxNow
NoAsk   == [at |-> "idle"]

-----------------------------------------------------------------------------
(* Evidence for a closed trade *)

Slots(found) == {r.slot : r \in found}

\* Faulty variant: context minutes are kept over a gap.
FaultyRetained(slots, t, window) == slots \cap window

\* The minutes of the trade, with the context that adjoins them without a gap.
Retained(slots, t, window) ==
    {m \in window : IF m < t.entry THEN m .. t.entry \subseteq slots
                    ELSE t.exit .. m \subseteq slots \/ m <= t.exit}

\* load_candle_evidence: the minutes retained, or none: the trade is open, two
\* rows of a minute differ or a minute of the trade is missing.
Evidence(t) ==
    LET window == Minutes \cap ((t.entry - Lookback) .. (t.exit + Lookforward))
        found  == {r \in rows : r.slot \in window}
    IN  IF \/ Cardinality(found) > Cardinality(Slots(found))
           \/ ~ (t.entry .. t.exit) \subseteq Slots(found)
        THEN {}
        ELSE Retained(Slots(found), t, window)

-----------------------------------------------------------------------------
(* Frames *)

\* The minute under the cursor of a session.
BarAt(s) == CHOOSE b \in s.bars : Cardinality({c \in s.bars : c < b}) = s.cursor

\* Faulty variant: a revision recorded while the bar forms is shown on it.
FaultyRecordedPlan(s) == Cardinality({p \in DOMAIN s.plans : s.plans[p] <= BarAt(s)})

\* recorded_plan_context: how many revisions were recorded when the bar opened; the
\* last of them is shown as its plan.  A revision of minute p was recorded inside
\* it, after it opened.
RecordedPlan(s) == Cardinality({p \in DOMAIN s.plans : s.plans[p] < BarAt(s)})

\* plan_reference: the revision that was current when the session was created.
PlanReference(s) == Len(s.plans)

IsPastExit(s) == s.trade.exit # Nil /\ BarAt(s) >= s.trade.exit

\* to_dict; the reference and the exit of a closed trade are on every frame.
Frame(s) == [id |-> s.id, bar |-> BarAt(s), visible |-> {b \in s.bars : b <= BarAt(s)},
             plan |-> RecordedPlan(s), reference |-> PlanReference(s),
             close |-> IF IsPastExit(s) THEN s.trade.exit ELSE Nil,
             exit |-> s.trade.exit]

-----------------------------------------------------------------------------
(* Sessions *)

\* The oldest of too many sessions is forgotten.
Added(s) == Append(IF Len(sessions) >= MaxSessions THEN Tail(sessions) ELSE sessions, s)

Create(s) == /\ created < MaxCreated /\ created' = created + 1
             /\ sessions' = Added(s) /\ frame' = Frame(s)

\* create_session_for_trade of a closed trade; the cursor starts at the entry.
ReviewClosed ==
    /\ trade.exit # Nil /\ Evidence(trade) # {}
    /\ Create([id |-> created, bars |-> Evidence(trade), trade |-> trade, plans |-> plans, playing |-> FALSE,
               cursor |-> Cardinality({b \in Evidence(trade) : b < trade.entry})])
    /\ UNCHANGED <<now, rows, trade, plans, asking>>

\* create_open_review_session reads the trade ...
AskOpen(c) ==
    /\ asking[c] = NoAsk /\ trade.entry # Nil /\ trade.exit = Nil
    /\ asking' = [asking EXCEPT ![c] = [at |-> "fetch", trade |-> trade]]
    /\ frame' = Nil /\ UNCHANGED <<now, rows, trade, plans, sessions, created>>

\* ... awaits the declared provider, whose bars may have gaps ...
ReceiveBars(c) ==
    /\ asking[c].at = "fetch"
    /\ \E bars \in {0 .. now, {now}, {0, now}, {}} :
          asking' = [asking EXCEPT ![c] = IF bars = {} THEN NoAsk
                                          ELSE [at |-> "check", trade |-> @.trade, bars |-> bars]]
    /\ frame' = Nil /\ UNCHANGED <<now, rows, trade, plans, sessions, created>>

\* load_open_position_evidence refuses bars that end before the entry.
ReachesEntry(a) == \E b \in a.bars : b >= a.trade.entry

\* An open position is reviewed from the first bar, as the trade was when asked for.
OpenReview(a) == [id |-> created, bars |-> a.bars, trade |-> a.trade, plans |-> plans,
                  playing |-> FALSE, cursor |-> 0]

\* ... and a second source, then opens the session of the trade it had read.
OpenSession(c) ==
    /\ asking[c].at = "check" /\ asking' = [asking EXCEPT ![c] = NoAsk]
    /\ IF ReachesEntry(asking[c]) THEN Create(OpenReview(asking[c]))
       ELSE frame' = Nil /\ UNCHANGED <<sessions, created>>
    /\ UNCHANGED <<now, rows, trade, plans>>

\* seek, and step: the cursor stays inside, and the end stops the play.
Seek(k, target) ==
    LET last == Cardinality(sessions[k].bars) - 1
        c    == IF target > last THEN last ELSE IF target < 0 THEN 0 ELSE target
        s    == [sessions[k] EXCEPT !.cursor = c, !.playing = @ /\ c # last]
    IN  /\ sessions' = [sessions EXCEPT ![k] = s] /\ frame' = Frame(s)
        /\ UNCHANGED <<now, rows, trade, plans, created, asking>>

\* set_playing, and the next step while it plays.
Play(k) ==
    LET s == [sessions[k] EXCEPT !.playing = @ \/ sessions[k].cursor < Cardinality(sessions[k].bars) - 1]
    IN  /\ ~ sessions[k].playing /\ sessions' = [sessions EXCEPT ![k] = s] /\ frame' = Frame(s)
        /\ UNCHANGED <<now, rows, trade, plans, created, asking>>

-----------------------------------------------------------------------------
(* The journal and the market *)

NextMinute == now < MaxNow /\ now' = now + 1 /\ frame' = Nil
              /\ UNCHANGED <<rows, trade, plans, sessions, created, asking>>

RecordRow(m, v) == /\ [slot |-> m, value |-> v] \notin rows /\ rows' = rows \cup {[slot |-> m, value |-> v]}
                   /\ frame' = Nil /\ UNCHANGED <<now, trade, plans, sessions, created, asking>>

OpenTrade == /\ trade.entry = Nil /\ trade' = [trade EXCEPT !.entry = now]
             /\ frame' = Nil /\ UNCHANGED <<now, rows, plans, sessions, created, asking>>

CloseTrade == /\ trade.entry # Nil /\ trade.exit = Nil /\ trade' = [trade EXCEPT !.exit = now]
              /\ frame' = Nil /\ UNCHANGED <<now, rows, plans, sessions, created, asking>>

SavePlan == /\ trade.entry # Nil /\ Len(plans) < MaxPlans /\ plans' = Append(plans, now)
            /\ frame' = Nil /\ UNCHANGED <<now, rows, trade, sessions, created, asking>>

ReviewInit == /\ now = 0 /\ rows = {} /\ trade = [entry |-> Nil, exit |-> Nil] /\ plans = <<>>
              /\ sessions = <<>> /\ created = 0 /\ asking = [c \in Reviewers |-> NoAsk] /\ frame = Nil

ReviewNext == \/ ReviewClosed \/ NextMinute \/ OpenTrade \/ CloseTrade \/ SavePlan
              \/ \E c \in Reviewers : AskOpen(c) \/ ReceiveBars(c) \/ OpenSession(c)
              \/ \E k \in DOMAIN sessions : Play(k) \/ \E target \in -1 .. MaxNow + 1 : Seek(k, target)
              \/ \E m \in 0 .. now, v \in Values : RecordRow(m, v)

ReviewSpec == ReviewInit /\ [][ReviewNext]_reviewVars

-----------------------------------------------------------------------------
(* Properties *)

\* The recorded plan that a frame shows for its bar is the one the journal has for
\* it: all revisions recorded before the bar opened and no other, however many
\* were recorded since the session read them (recorded_plan_context).
PlanAsRecorded ==
    frame # Nil => frame.plan = Cardinality({p \in DOMAIN plans : plans[p] < frame.bar})

\* The review of a closed trade shows one run of minutes without a gap that holds
\* the whole trade, however rows arrived (load_candle_evidence).
EvidenceComplete ==
    \A k \in DOMAIN sessions :
        LET s == sessions[k]
        IN  s.trade.exit # Nil =>
               /\ s.bars = Min(s.bars) .. Max(s.bars)
               /\ s.trade.entry .. s.trade.exit \subseteq s.bars

\* "earlier frames must not leak the future outcome"
OutcomeHidden == frame # Nil /\ frame.exit # Nil => frame.bar >= frame.exit

\* No frame carries a plan that was recorded after its bar opened.
ReferenceHidden == frame # Nil /\ frame.reference > 0 => plans[frame.reference] < frame.bar

\* What a session has read stays right for its frames, whatever is recorded later:
\* the plan of each bar, and the minutes of a closed trade.
ReviewSound == PlanAsRecorded /\ EvidenceComplete
=============================================================================
